----------------------------- MODULE ScanProofs -----------------------------
(***************************************************************************)
(* Proofs for the parts that hand a sample to another program, module       *)
(* Detonation, for any samples, reports and limits, and module Scanner, and *)
(* for the imports and indicators of module Bootstrap, for any finite sets  *)
(* of files and any feeds.                                                  *)
(***************************************************************************)
EXTENDS Detonation, Scanner, Bootstrap, FiniteSetTheorems, WellFoundedInduction, TLAPS

(***************************************************************************)
(* Detonation                                                              *)
(***************************************************************************)
\* The smaller of two numbers.
LEMMA MinOfTwo ==
    ASSUME NEW a \in Nat, NEW b \in Nat
    PROVE  Min({a, b}) \in Nat
<1>1. \E x \in {a, b} : \A y \in {a, b} : x <= y
  OBVIOUS
<1> QED
  BY <1>1 DEF Min

\* A report becomes a number of findings.
LEMMA FindingsCount ==
    ASSUME NEW r \in Report
    PROVE  map_report_to_findings(r) \in Nat
<1>1. r.signatures \in Nat /\ r.ttps \in Seq(BOOLEAN) /\ FindingLimit \in Nat
  BY DetonationAssumption
<1> DEFINE n == Min({FindingLimit, Len(r.ttps)})
           T == {i \in 1..n : r.ttps[i]}
<1>2. n \in Nat /\ Min({FindingLimit, r.signatures}) \in Nat
  BY <1>1, MinOfTwo
<1>3. IsFiniteSet(1..n)
  BY <1>2, FS_Interval
<1>4. Cardinality(T) \in Nat
  BY <1>3, FS_Subset, FS_CardinalityType
<1> QED
  BY <1>2, <1>4 DEF map_report_to_findings

DetonationRec == [pc : {"idle", "audit", "submit", "poll", "run", "findings", "answered", "error"},
                  by : {"none", "handler", "policy"}, polls : Nat, todo : Nat]
DetonationTypeOK ==
    /\ denv \in DetonationEnv
    /\ dcall \in [Submission -> DetonationRec]
    /\ task \in [Submission -> {NoTask} \cup [state : {"pending", "failed"}]
                                    \cup [state : {"reported"}, report : Report]]
    /\ audit \subseteq Submission /\ sent \subseteq Submission /\ dropped \subseteq Submission
    /\ run \in [Submission -> Nat \cup {NoRun}]

\* The configuration lets the caller of c send.
Allowed(c) == denv.enabled /\ (validate(denv) \/ (dcall[c].by = "policy" /\ denv.auto))

\* What the call for a sample has done at each of its program points; a run
\* under way and the findings left to insert add up to the report.
CallOK(c) ==
    /\ dcall[c].pc \in {"audit", "submit", "poll"} => Allowed(c)
    /\ dcall[c].pc \in {"submit", "poll"} => c \in audit
    /\ dcall[c].pc \in {"poll", "run", "findings"} => c \in sent
    /\ dcall[c].pc \in {"idle", "audit", "submit"} => c \notin sent
    /\ dcall[c].pc \in {"idle", "audit", "submit", "poll", "run"} => run[c] = NoRun
    /\ dcall[c].pc = "run" =>
         /\ task[c].state = "reported"
         /\ dcall[c].todo = map_report_to_findings(task[c].report)
    /\ dcall[c].pc = "findings" =>
         /\ run[c] \in Nat
         /\ run[c] + dcall[c].todo = map_report_to_findings(task[c].report)
    /\ dcall[c].pc = "answered" => run[c] \in Nat /\ run[c] = map_report_to_findings(task[c].report)
    /\ c \in sent => c \in audit /\ Allowed(c) /\ denv.url = "set"
    /\ run[c] # NoRun =>
         /\ c \in sent /\ task[c].state = "reported"
         /\ \/ run[c] = map_report_to_findings(task[c].report)
            \/ dcall[c].pc = "findings"
            \/ c \in dropped

OneRun == \A c, d \in Submission : run[c] # NoRun /\ run[d] # NoRun /\ ArtifactOf[d] = ArtifactOf[c] => d = c

DetonationInv == DetonationTypeOK /\ OneRun /\ \A c \in Submission : CallOK(c)

\* A step for one sample leaves the calls for the others alone.
LEMMA OtherSamples ==
    ASSUME DetonationInv, NEW c \in Submission, denv' = denv,
           \A d \in Submission \ {c} :
             /\ dcall'[d] = dcall[d] /\ task'[d] = task[d] /\ run'[d] = run[d]
             /\ d \in audit' <=> d \in audit
             /\ d \in sent' <=> d \in sent
             /\ d \in dropped' <=> d \in dropped,
           \/ run'[c] = NoRun \/ run[c] # NoRun
           \/ \A d \in Submission : ArtifactOf[d] = ArtifactOf[c] => run[d] = NoRun,
           DetonationTypeOK', CallOK(c)'
    PROVE  DetonationInv'
<1>1. ASSUME NEW d \in Submission, d # c PROVE CallOK(d)'
  BY <1>1 DEF DetonationInv, CallOK, Allowed, validate
<1>2. OneRun'
  BY DEF DetonationInv, OneRun
<1> QED
  BY <1>1, <1>2 DEF DetonationInv

\* A call begins, by the handler or by the policy.
LEMMA DetonationBegins ==
    ASSUME DetonationInv, NEW c \in Submission, NEW who \in {"handler", "policy"},
           dcall[c].pc = "idle", dcall' = [dcall EXCEPT ![c].pc = "audit", ![c].by = who],
           denv.enabled, validate(denv) \/ (who = "policy" /\ denv.auto),
           UNCHANGED <<denv, task, audit, sent, run, dropped>>
    PROVE  DetonationInv'
<1>0. DetonationTypeOK /\ dcall \in [Submission -> DetonationRec] /\ CallOK(c)
  BY DEF DetonationInv, DetonationTypeOK
<1>1. PICK v \in DetonationRec : v = [dcall[c] EXCEPT !.pc = "audit", !.by = who]
  BY <1>0 DEF DetonationRec
<1>2. v.pc = "audit" /\ v.by = who
  BY <1>0, <1>1 DEF DetonationRec
<1>3. dcall' = [dcall EXCEPT ![c] = v]
  BY <1>1
<1>4. dcall'[c] = v /\ \A d \in Submission \ {c} : dcall'[d] = dcall[d]
  BY <1>0, <1>3
<1>5. DetonationTypeOK'
  BY <1>0, <1>3 DEF DetonationTypeOK
<1>6. Allowed(c)'
  <2>1. CASE validate(denv)
    BY <2>1 DEF Allowed, validate
  <2>2. CASE who = "policy" /\ denv.auto
    BY <2>2, <1>2, <1>4 DEF Allowed
  <2> QED
    BY <2>1, <2>2
<1>7. run[c] = NoRun /\ c \notin sent
  BY <1>0 DEF CallOK
<1>8. CallOK(c)'
  BY <1>2, <1>4, <1>6, <1>7 DEF CallOK
<1> QED
  BY <1>4, <1>5, <1>8, OtherSamples

LEMMA DetonationStep ==
    ASSUME DetonationInv, [DetonationNext]_DetonationVars
    PROVE  DetonationInv'
<1> USE DEF DetonationTypeOK, DetonationRec, NoTask, NoRun
<1>0. DetonationTypeOK
  BY DEF DetonationInv
<1>1. ASSUME NEW c \in Submission, detonate_artifact(c) PROVE DetonationInv'
  <2>1. CASE Fails(c)
    <3>1. DetonationTypeOK'
      BY <1>0, <1>1, <2>1 DEF detonate_artifact, Fails
    <3>2. CallOK(c)'
      BY <1>0, <1>1, <2>1 DEF DetonationInv, CallOK, Allowed, validate, detonate_artifact, Fails
    <3> QED
      BY <1>0, <1>1, <2>1, <3>1, <3>2, OtherSamples DEF detonate_artifact, Fails
  <2>2. CASE /\ validate(denv) /\ denv.enabled
             /\ dcall' = [dcall EXCEPT ![c].pc = "audit", ![c].by = "handler"]
    <3>1. PICK who \in {"handler", "policy"} : who = "handler"
      OBVIOUS
    <3>2. /\ dcall[c].pc = "idle" /\ dcall' = [dcall EXCEPT ![c].pc = "audit", ![c].by = who]
          /\ UNCHANGED <<denv, task, audit, sent, run, dropped>>
      BY <1>1, <2>2, <3>1 DEF detonate_artifact
    <3>3. denv.enabled /\ validate(denv)
      BY <2>2
    <3> HIDE DEF DetonationTypeOK, DetonationRec, NoTask, NoRun
    <3> QED
      BY <3>2, <3>3, DetonationBegins
  <2> QED
    BY <1>1, <2>1, <2>2 DEF detonate_artifact
<1>10. ASSUME NEW c \in Submission, auto_submit(c) PROVE DetonationInv'
  <2>1. PICK who \in {"handler", "policy"} : who = "policy"
    OBVIOUS
  <2> QED
    BY <1>10, <2>1, DetonationBegins DEF auto_submit
<1>2. ASSUME NEW c \in Submission, AuditFirst(c) PROVE DetonationInv'
  <2>1. DetonationTypeOK'
    BY <1>0, <1>2 DEF AuditFirst, Fails
  <2>2. CallOK(c)'
    BY <1>0, <1>2 DEF DetonationInv, CallOK, Allowed, validate, AuditFirst, Fails
  <2> QED
    BY <1>0, <1>2, <2>1, <2>2, OtherSamples DEF AuditFirst, Fails
<1>3. ASSUME NEW c \in Submission, submit(c) PROVE DetonationInv'
  <2>1. DetonationTypeOK'
    BY <1>0, <1>3 DEF submit, Fails
  <2>2. CallOK(c)'
    BY <1>0, <1>3 DEF DetonationInv, CallOK, Allowed, validate, submit, Fails
  <2> QED
    BY <1>0, <1>3, <2>1, <2>2, OtherSamples DEF submit, Fails
<1>4. ASSUME NEW c \in Submission, poll(c) PROVE DetonationInv'
  <2>1. DetonationTypeOK'
    BY <1>0, <1>4, FindingsCount DEF poll, Fails
  <2>2. CallOK(c)'
    BY <1>0, <1>4, FindingsCount DEF DetonationInv, CallOK, Allowed, validate, poll, Fails
  <2> QED
    BY <1>0, <1>4, <2>1, <2>2, OtherSamples DEF poll, Fails
<1>5. ASSUME NEW c \in Submission, TaskEnds(c) PROVE DetonationInv'
  <2>1. DetonationTypeOK'
    <3>1. PICK t \in [state : {"failed"}] \cup [state : {"reported"}, report : Report] :
                 task' = [task EXCEPT ![c] = t]
      BY <1>5 DEF TaskEnds
    <3> QED
      BY <1>0, <1>5, <3>1 DEF TaskEnds
  <2>2. CallOK(c)'
    BY <1>0, <1>5 DEF DetonationInv, CallOK, Allowed, validate, TaskEnds
  <2> QED
    BY <1>0, <1>5, <2>1, <2>2, OtherSamples DEF TaskEnds
<1>6. ASSUME NEW c \in Submission, InsertRun(c) PROVE DetonationInv'
  <2>1. CASE \E d \in Submission : ArtifactOf[d] = ArtifactOf[c] /\ run[d] # NoRun
    <3>1. DetonationTypeOK'
      BY <1>0, <1>6, <2>1 DEF InsertRun, Fails
    <3>2. CallOK(c)'
      BY <1>0, <1>6, <2>1 DEF DetonationInv, CallOK, Allowed, validate, InsertRun, Fails
    <3> QED
      BY <1>0, <1>6, <2>1, <3>1, <3>2, OtherSamples DEF InsertRun, Fails
  <2>2. CASE ~ \E d \in Submission : ArtifactOf[d] = ArtifactOf[c] /\ run[d] # NoRun
    <3>1. DetonationTypeOK'
      BY <1>0, <1>6, <2>2 DEF InsertRun
    <3>2. CallOK(c)'
      BY <1>0, <1>6, <2>2 DEF DetonationInv, CallOK, Allowed, validate, InsertRun
    <3> QED
      BY <1>0, <1>6, <2>2, <3>1, <3>2, OtherSamples DEF InsertRun
  <2> QED
    BY <2>1, <2>2
<1>7. ASSUME NEW c \in Submission, InsertFinding(c) PROVE DetonationInv'
  <2>1. CallOK(c) /\ run[c] \in Nat
    BY <1>7 DEF DetonationInv, CallOK, InsertFinding
  <2>2. CASE dcall[c].todo = 0
    <3>1. DetonationTypeOK'
      BY <1>0, <1>7, <2>2 DEF InsertFinding
    <3>2. CallOK(c)'
      BY <1>0, <1>7, <2>1, <2>2 DEF CallOK, Allowed, validate, InsertFinding
    <3> QED
      BY <1>0, <1>7, <2>2, <3>1, <3>2, OtherSamples DEF InsertFinding
  <2>3. CASE dcall[c].todo # 0
    <3>1. PICK n \in Nat, m \in Nat : n = run[c] + 1 /\ m = dcall[c].todo - 1
      <4>1. PICK t \in Nat, r \in Nat : t = dcall[c].todo /\ r = run[c]
        BY <1>0, <2>1
      <4>2. t - 1 \in Nat /\ r + 1 \in Nat
        BY <2>3, <4>1
      <4> QED
        BY <4>1, <4>2
    <3>2. run' = [run EXCEPT ![c] = n] /\ dcall' = [dcall EXCEPT ![c].todo = m]
      BY <1>7, <2>3, <3>1 DEF InsertFinding
    <3>3. UNCHANGED <<denv, task, audit, sent, dropped>> /\ dcall[c].pc = "findings"
      BY <1>7 DEF InsertFinding
    <3>4. DetonationTypeOK'
      BY <1>0, <3>2, <3>3
    <3>5. /\ run'[c] = n /\ dcall'[c].todo = m /\ dcall'[c].pc = "findings" /\ dcall'[c].by = dcall[c].by
          /\ \A d \in Submission \ {c} : dcall'[d] = dcall[d] /\ run'[d] = run[d]
      BY <1>0, <3>2, <3>3
    <3>6. n + m = run[c] + dcall[c].todo
      BY <1>0, <2>1, <3>1
    <3>7. CallOK(c)'
      BY <2>1, <3>3, <3>5, <3>6 DEF CallOK, Allowed, validate
    <3> QED
      BY <2>1, <3>3, <3>4, <3>5, <3>7, OtherSamples
  <2> QED
    BY <2>2, <2>3
<1>8. ASSUME NEW c \in Submission, DropDetonation(c) PROVE DetonationInv'
  <2>1. DetonationTypeOK'
    BY <1>0, <1>8 DEF DropDetonation, Fails
  <2>2. CallOK(c)'
    BY <1>0, <1>8 DEF DetonationInv, CallOK, Allowed, validate, DropDetonation, Fails
  <2> QED
    BY <1>0, <1>8, <2>1, <2>2, OtherSamples DEF DropDetonation, Fails
<1>9. CASE UNCHANGED DetonationVars
  BY <1>9 DEF DetonationInv, OneRun, CallOK, DetonationVars, Allowed, validate
<1> QED
  BY <1>1, <1>2, <1>3, <1>4, <1>5, <1>6, <1>7, <1>8, <1>9, <1>10 DEF DetonationNext

\* No sample leaves the server without its audit event and a configuration
\* that enables it, valid unless the auto policy sent it; an artifact has one
\* run at most, and a completed run lacks findings of its report only
\* while detonate inserts them or when its handler was dropped: for any
\* number of samples, polls and reports.
THEOREM DetonationSafe == DetonationSpec => []DetonationAccounted
<1>1. DetonationInit => DetonationInv
  BY DEF DetonationInit, DetonationInv, OneRun, DetonationTypeOK, DetonationRec, CallOK, NoTask, NoRun
<1>2. DetonationInv /\ [DetonationNext]_DetonationVars => DetonationInv'
  BY DetonationStep
<1>3. DetonationInv => DetonationAccounted
  <2> SUFFICES ASSUME DetonationInv PROVE DetonationAccounted
    OBVIOUS
  <2>1. \A c \in Submission : CallOK(c)
    BY DEF DetonationInv
  <2>2. sent \subseteq Submission
    BY DEF DetonationInv, DetonationTypeOK
  <2> QED
    BY <2>1, <2>2 DEF DetonationInv, OneRun, CallOK, Allowed, DetonationAccounted
<1> QED
  BY <1>1, <1>2, <1>3, PTL DEF DetonationSpec

(***************************************************************************)
(* Scanner                                                                 *)
(***************************************************************************)
ScannerTypeOK ==
    /\ host \in Hosts
    /\ sample \in [matches : BOOLEAN, compiles : BOOLEAN, readable : BOOLEAN]
    /\ scan \in [caller : {"none", "hunt", "forward"},
                 pc : {"idle", "refused", "tier", "wait", "done"},
                 verdict : ScanStatus \cup {"none"}, at : Tiers \cup {"none"}]
    /\ child \in [pc : {"none", "running", "exited", "killed"},
                  out : ScanStatus \cup {"empty", "garbage", "over_cap"}]

\* What a verdict says of the sample and the rules.
Truthful(verdict) ==
    verdict \in {"clean", "matched"} =>
        /\ sample.compiles /\ sample.readable
        /\ (verdict = "matched") = sample.matches

\* The output of the scanner process is as truthful as the verdict, and a
\* process runs only while the parent waits or after a lost container.
ScannerRest ==
    /\ Truthful(scan.verdict) /\ Truthful(child.out)
    /\ scan.pc = "idle" => scan.caller = "none"
    /\ scan.pc # "idle" => scan.at = tier_from_env
    /\ scan.caller = "hunt" /\ scan.pc # "refused" => check_min_tier(scan.at)
    /\ child.pc = "running" => scan.pc = "wait" \/ scan.at = "gvisor"
    /\ scan.pc \in {"idle", "tier"} => child.pc = "none"

ScannerInv == ScannerTypeOK /\ ScannerRest

LEMMA ScannerStep ==
    ASSUME ScannerInv, [ScannerNext]_ScannerVars
    PROVE  ScannerInv'
<1>0. ScannerTypeOK
  BY DEF ScannerInv
<1>1. ASSUME NEW caller \in {"hunt", "forward"}, CallScan(caller) PROVE ScannerInv'
  <2>1. ScannerTypeOK'
    BY <1>0, <1>1 DEF ScannerTypeOK, CallScan, tier_from_env, Tiers
  <2>2. ScannerRest'
    BY <1>0, <1>1 DEF ScannerInv, ScannerRest, ScannerTypeOK, Truthful, tier_from_env, check_min_tier, CallScan
  <2> QED
    BY <2>1, <2>2 DEF ScannerInv
<1>2. CASE ScanInProcess
  <2>1. ScannerTypeOK'
    BY <1>0, <1>2 DEF ScannerTypeOK, ScanInProcess, ScanDone, scan_bytes, ScanStatus
  <2>2. ScannerRest'
    BY <1>0, <1>2 DEF ScannerInv, ScannerRest, ScannerTypeOK, Truthful, tier_from_env, check_min_tier, ScanInProcess, ScanDone, scan_bytes, ScanStatus
  <2> QED
    BY <2>1, <2>2 DEF ScannerInv
<1>3. CASE run_sandboxed
  <2>1. ScannerTypeOK'
    BY <1>0, <1>3 DEF ScannerTypeOK, run_sandboxed, ScanDone, ScanStatus
  <2>2. ScannerRest'
    BY <1>0, <1>3 DEF ScannerInv, ScannerRest, ScannerTypeOK, Truthful, tier_from_env, check_min_tier, run_sandboxed, ScanDone, ScanStatus
  <2> QED
    BY <2>1, <2>2 DEF ScannerInv
<1>4. CASE scan_gvisor
  <2>1. ScannerTypeOK'
    BY <1>0, <1>4 DEF ScannerTypeOK, scan_gvisor, ScanDone, ScanStatus
  <2>2. ScannerRest'
    BY <1>0, <1>4 DEF ScannerInv, ScannerRest, ScannerTypeOK, Truthful, tier_from_env, check_min_tier, scan_gvisor, ScanDone, ScanStatus
  <2> QED
    BY <2>1, <2>2 DEF ScannerInv
<1>5. CASE RunScanner
  <2>1. ScannerTypeOK'
    BY <1>0, <1>5 DEF ScannerTypeOK, RunScanner, SampleFound, scan_bytes, ScanStatus
  <2>2. ScannerRest'
    BY <1>0, <1>5 DEF ScannerInv, ScannerRest, ScannerTypeOK, Truthful, tier_from_env, check_min_tier, RunScanner, SampleFound, scan_bytes, ScanStatus
  <2> QED
    BY <2>1, <2>2 DEF ScannerInv
<1>6. CASE ScannerFails
  <2>1. ScannerTypeOK'
    BY <1>0, <1>6 DEF ScannerTypeOK, ScannerFails, ScanStatus
  <2>2. ScannerRest'
    BY <1>0, <1>6 DEF ScannerInv, ScannerRest, ScannerTypeOK, Truthful, tier_from_env, check_min_tier, ScannerFails, ScanStatus
  <2> QED
    BY <2>1, <2>2 DEF ScannerInv
<1>7. CASE ScanTimeout
  <2>1. ScannerTypeOK'
    BY <1>0, <1>7 DEF ScannerTypeOK, ScanTimeout, ScanDone, ScanStatus
  <2>2. ScannerRest'
    BY <1>0, <1>7 DEF ScannerInv, ScannerRest, ScannerTypeOK, Truthful, tier_from_env, check_min_tier, ScanTimeout, ScanDone, ScanStatus
  <2> QED
    BY <2>1, <2>2 DEF ScannerInv
<1>8. CASE Collect
  <2>1. ScannerTypeOK'
    BY <1>0, <1>8 DEF ScannerTypeOK, Collect, ScanDone, outcome_from_json, ScanStatus
  <2>2. ScannerRest'
    BY <1>0, <1>8 DEF ScannerInv, ScannerRest, ScannerTypeOK, Truthful, tier_from_env, check_min_tier, Collect, ScanDone, outcome_from_json, ScanStatus
  <2> QED
    BY <2>1, <2>2 DEF ScannerInv
<1>9. CASE UNCHANGED ScannerVars
  BY <1>9 DEF ScannerInv, ScannerVars, ScannerTypeOK, ScannerRest, Truthful, tier_from_env, check_min_tier
<1> QED
  BY <1>1, <1>2, <1>3, <1>4, <1>5, <1>6, <1>7, <1>8, <1>9 DEF ScannerNext

\* A scan never calls a sample clean or matched unless compiled rules were
\* run over its bytes and said so, no hunt runs below the minimum tier, and
\* no scanner of the subprocess tier outlives its scan: on every host, with
\* any tool missing and any output of scan_with_tier's child.
THEOREM ScannerSafe == ScannerSpec => []ScansFailClosed
<1>1. ScannerInit => ScannerInv
  BY DEF ScannerInit, ScannerInv, ScannerRest, ScannerTypeOK, Truthful, NoChild, ScanStatus, Tiers
<1>2. ScannerInv /\ [ScannerNext]_ScannerVars => ScannerInv'
  BY ScannerStep
<1>3. ScannerInv => ScansFailClosed
  <2> SUFFICES ASSUME ScannerInv PROVE ScansFailClosed
    OBVIOUS
  <2>1. ASSUME scan.caller = "hunt", scan.pc # "refused", host.min # "unset"
        PROVE  Rank(scan.at) >= Rank(host.min)
    <3>1. host.min \in {"subprocess", "gvisor"} /\ check_min_tier(scan.at)
      BY <2>1 DEF ScannerInv, ScannerRest, ScannerTypeOK, Hosts
    <3>2. scan.at \in Tiers
      BY <2>1 DEF ScannerInv, ScannerRest, ScannerTypeOK, Tiers, tier_from_env
    <3>3. Rank("inprocess") = 1 /\ Rank("subprocess") = 2 /\ Rank("gvisor") = 3
      BY DEF Rank
    <3> QED
      BY <3>1, <3>2, <3>3 DEF check_min_tier, Tiers
  <2> QED
    BY <2>1 DEF ScannerInv, ScannerRest, ScannerTypeOK, Truthful, ScansFailClosed
<1> QED
  BY <1>1, <1>2, <1>3, PTL DEF ScannerSpec

(***************************************************************************)
(* Imports                                                                 *)
(***************************************************************************)
ImportRec ==
    [pc : {"idle", "next", "gap", "announce", "upload", "finalize", "complete", "aborted"},
     source : Sources \cup {"none"}, runs : Nat, listed : SUBSET ImportPath,
     todo : SUBSET ImportPath,
     mine : SUBSET ImportPath, unheard : SUBSET ImportPath,
     captured : Nat, dedup : Nat, too_large : Nat, skipped : Nat, failed : Nat]
CatalogRec ==
    [scope : [Digests -> {"none", "intel", "endpoint"}], host : SUBSET Digests,
     gaps : SUBSET ImportPath]
\* A host holds what has been committed.
CatalogInv == catalog \in CatalogRec /\ \A d \in catalog.host : catalog.scope[d] # "none"

LargeOf(s, L) == IF s \in OciSources THEN L \cap LargePath ELSE {}
NoCodeOf(s, L) == IF s \in OciSources THEN L \ (LargePath \cup CodePath) ELSE {}

\* The counts of the import i are those of the files it has dealt with, of the
\* files L listed with A too large and B without code.
Books(i, L, A, B) ==
    LET H == L \ i.todo IN
    /\ i.todo \subseteq L
    /\ i.mine \subseteq H \ (A \cup B)
    /\ i.captured + i.dedup = Cardinality(i.mine)
    /\ i.too_large = Cardinality(A \cap H)
    /\ i.skipped = Cardinality(B \cap H)
    /\ i.failed = Cardinality(H \ (A \cup B \cup i.mine))

Underway(i) == i.pc \in {"next", "gap", "announce", "upload", "finalize", "complete"}
\* Where the call stands, for the file c it is at.
AtFile(i, c, A, B) ==
    /\ i.pc = "complete" => i.todo = {}
    /\ i.pc \in {"gap", "announce", "upload", "finalize"} => i.todo # {}
    /\ i.pc = "gap" => c \in A
    /\ i.pc \in {"announce", "upload", "finalize"} => c \notin A \cup B
\* What it has reported is in the catalog.
Reported(i, k, A) ==
    /\ \A q \in i.mine : /\ k.scope[BytesOf[q]] # "none"
                         /\ i.source # "malwarebazaar" => BytesOf[q] \in k.host
    /\ \A q \in A \ i.todo : q \in k.gaps \cup i.unheard
    /\ i.failed > 0 => i.source = "dir"
ImportInv ==
    /\ imp \in ImportRec
    /\ Underway(imp) =>
         /\ Books(imp, imp.listed, LargeOf(imp.source, imp.listed), NoCodeOf(imp.source, imp.listed))
         /\ AtFile(imp, Current, LargeOf(imp.source, imp.listed), NoCodeOf(imp.source, imp.listed))
         /\ Reported(imp, catalog, LargeOf(imp.source, imp.listed))

(***************************************************************************)
(* Indicators                                                              *)
(***************************************************************************)
UpsertShape(u) ==
    u = [pc |-> u.pc, feed |-> u.feed, at |-> u.at, left |-> u.left, hits |-> u.hits,
         held |-> u.held, record |-> u.record]
IntelShape(t) ==
    t = [auto |-> t.auto, stored |-> t.stored, detected |-> t.detected, fired |-> t.fired]

\* The positions to be hunted; the position n names a file a host is known to
\* hold, and no sample.
Named(u) == {n \in DOMAIN u.feed : u.feed[n].ioc_type \in {"sha256", "SHA256"}}
ToFind(u, k, n) == u.feed[n].digest \in u.held /\ k.scope[u.feed[n].digest] # "intel"
HashOK(u, k, t) ==
    /\ UpsertShape(u) /\ IntelShape(t)
    /\ u.held \subseteq Digests /\ \A d \in u.held : k.scope[d] # "none"
    /\ u.pc = "hunt" => \A n \in Named(u) \ u.left :
         ToFind(u, k, n) => u.feed[n].digest \in u.hits
    /\ u.pc \in {"detect", "answered"} /\ t.auto => \A n \in Named(u) :
         ToFind(u, k, n) => u.feed[n].digest \in t.detected \cup u.hits /\ u.record # "no_hits"
    /\ u.pc = "answered" /\ t.auto /\ Named(u) # {} => u.hits = {}
HashInv == HashOK(upsert, catalog, intel)

(***************************************************************************)
(* The catalog only grows                                                  *)
(***************************************************************************)
Grows(k, m) ==
    /\ m \in CatalogRec /\ \A d \in m.host : m.scope[d] # "none"
    /\ k.host \subseteq m.host /\ k.gaps \subseteq m.gaps
    /\ \A d \in Digests : k.scope[d] # "none" => m.scope[d] = k.scope[d]

LEMMA CommitGrows ==
    ASSUME CatalogInv, NEW s \in {"intel", "endpoint"}, NEW d \in Digests, NEW k, k = Committed(s, d)
    PROVE  Grows(catalog, k) /\ k.scope[d] # "none"
<1>1. PICK t \in [Digests -> {"none", "intel", "endpoint"}] :
         t = [catalog.scope EXCEPT ![d] = IF catalog.scope[d] = "none" THEN s ELSE catalog.scope[d]]
  BY DEF CatalogInv, CatalogRec
<1>2. k = [catalog EXCEPT !.scope = t]
  BY <1>1 DEF Committed
<1>3. k \in CatalogRec /\ k.scope = t /\ k.host = catalog.host /\ k.gaps = catalog.gaps
  BY <1>1, <1>2 DEF CatalogInv, CatalogRec
<1>4. /\ catalog.scope \in [Digests -> {"none", "intel", "endpoint"}]
      /\ catalog.host \subseteq Digests /\ \A x \in catalog.host : catalog.scope[x] # "none"
  BY DEF CatalogInv, CatalogRec
<1> QED
  BY <1>1, <1>3, <1>4 DEF Grows

LEMMA HostGrows ==
    ASSUME NEW k, NEW m, Grows(k, m), NEW d \in Digests, m.scope[d] # "none", NEW n, n = [m EXCEPT !.host = @ \cup {d}]
    PROVE  Grows(k, n) /\ n.scope = m.scope /\ n.gaps = m.gaps /\ d \in n.host
<1>1. PICK H \in SUBSET Digests : H = m.host \cup {d}
  BY DEF Grows, CatalogRec
<1>2. n = [m EXCEPT !.host = H]
  BY <1>1
<1>3. n \in CatalogRec /\ n.scope = m.scope /\ n.host = H /\ n.gaps = m.gaps
  BY <1>1, <1>2 DEF Grows, CatalogRec
<1> QED
  BY <1>1, <1>3 DEF Grows

LEMMA OccurrenceGrows ==
    ASSUME NEW k, NEW m, Grows(k, m), BytesOf[Current] \in Digests, m.scope[BytesOf[Current]] # "none",
           NEW n, n = WithOccurrence(m)
    PROVE  /\ Grows(k, n) /\ n.scope = m.scope
           /\ imp.source # "malwarebazaar" => BytesOf[Current] \in n.host
  BY HostGrows DEF WithOccurrence

LEMMA GapGrows ==
    ASSUME CatalogInv, NEW c \in ImportPath, NEW k, k = [catalog EXCEPT !.gaps = @ \cup {c}]
    PROVE  Grows(catalog, k) /\ c \in k.gaps
<1>1. PICK G \in SUBSET ImportPath : G = catalog.gaps \cup {c}
  BY DEF CatalogInv, CatalogRec
<1>2. k = [catalog EXCEPT !.gaps = G]
  BY <1>1
<1>3. k \in CatalogRec /\ k.scope = catalog.scope /\ k.host = catalog.host /\ k.gaps = G
  BY <1>1, <1>2 DEF CatalogInv, CatalogRec
<1> QED
  BY <1>1, <1>3 DEF Grows, CatalogInv

LEMMA LeastPath ==
    ASSUME NEW S \in SUBSET Nat, S # {}
    PROVE  Min(S) \in S
<1>1. IsWellFoundedOn(OpToRel(<, Nat), Nat)
  BY NatLessThanWellFounded
<1>2. PICK n \in S : \A m \in S : ~(<<m, n>> \in OpToRel(<, Nat))
  BY <1>1, WFMin
<1>3. \A m \in S : ~(m < n)
  BY <1>2, Zenon DEF OpToRel
<1>4. \A m \in S : n <= m
  BY <1>3
<1> QED
  BY <1>4 DEF Min

\* The file the call is at is one it has before it.
LEMMA CurrentFile ==
    ASSUME imp \in ImportRec, imp.todo # {}
    PROVE  Current \in imp.todo /\ Current \in ImportPath /\ BytesOf[Current] \in Digests
<1>1. imp.todo \in SUBSET ImportPath /\ ImportPath \subseteq Nat
  BY BootstrapAssumption DEF ImportRec
<1>2. Current \in imp.todo
  BY <1>1, LeastPath DEF Current
<1> QED
  BY <1>1, <1>2 DEF Digests

\* The books stay right when a file c is dealt with in one of the four ways.
Settles(i, j, c, A, B) ==
    /\ i.todo # {} /\ c \in i.todo /\ j.todo = i.todo \ {c}
    /\ \/ /\ c \notin A \cup B /\ j.mine = i.mine \cup {c}
          /\ j.captured + j.dedup = i.captured + i.dedup + 1
          /\ j.too_large = i.too_large /\ j.skipped = i.skipped /\ j.failed = i.failed
       \/ /\ j.mine = i.mine /\ j.captured = i.captured /\ j.dedup = i.dedup
          /\ \/ c \in A /\ j.too_large = i.too_large + 1 /\ j.skipped = i.skipped /\ j.failed = i.failed
             \/ c \in B /\ j.too_large = i.too_large /\ j.skipped = i.skipped + 1 /\ j.failed = i.failed
             \/ /\ c \notin A \cup B
                /\ j.too_large = i.too_large /\ j.skipped = i.skipped /\ j.failed = i.failed + 1

LEMMA BooksKept ==
    ASSUME NEW i \in ImportRec, NEW j, NEW c, NEW L \in SUBSET ImportPath,
           NEW A \in SUBSET L, NEW B \in SUBSET L, A \cap B = {},
           Books(i, L, A, B), Settles(i, j, c, A, B)
    PROVE  Books(j, L, A, B)
<1> DEFINE H == L \ i.todo
           F == H \ (A \cup B \cup i.mine)
<1>1. /\ i.todo \subseteq L /\ i.mine \subseteq H \ (A \cup B)
      /\ i.captured + i.dedup = Cardinality(i.mine)
      /\ i.too_large = Cardinality(A \cap H)
      /\ i.skipped = Cardinality(B \cap H)
      /\ i.failed = Cardinality(F)
  BY DEF Books
<1>2. c \in i.todo /\ c \in L /\ c \notin H /\ L \ j.todo = H \cup {c}
  BY <1>1 DEF Settles
<1>3. IsFiniteSet(L)
  BY BootstrapAssumption, FS_Subset
<1>4. IsFiniteSet(i.mine) /\ IsFiniteSet(A \cap H) /\ IsFiniteSet(B \cap H) /\ IsFiniteSet(F)
  <2>1. i.mine \in SUBSET L /\ A \cap H \in SUBSET L /\ B \cap H \in SUBSET L /\ F \in SUBSET L
    BY <1>1
  <2> QED
    BY <1>3, <2>1, FS_Subset
<1>5. /\ Cardinality(i.mine \cup {c}) = Cardinality(i.mine) + 1
      /\ Cardinality((A \cap H) \cup {c}) = Cardinality(A \cap H) + 1
      /\ Cardinality((B \cap H) \cup {c}) = Cardinality(B \cap H) + 1
      /\ Cardinality(F \cup {c}) = Cardinality(F) + 1
  <2>1. c \notin i.mine /\ c \notin A \cap H /\ c \notin B \cap H /\ c \notin F
    BY <1>1, <1>2
  <2> QED
    BY <1>4, <2>1, FS_AddElement
<1>6. /\ A \cap (H \cup {c}) = IF c \in A THEN (A \cap H) \cup {c} ELSE A \cap H
      /\ B \cap (H \cup {c}) = IF c \in B THEN (B \cap H) \cup {c} ELSE B \cap H
  OBVIOUS
<1>7. /\ (H \cup {c}) \ (A \cup B \cup (i.mine \cup {c})) = F
      /\ (H \cup {c}) \ (A \cup B \cup i.mine) = IF c \in A \cup B THEN F ELSE F \cup {c}
  BY <1>1, <1>2
<1>8. j.todo \subseteq L /\ j.mine \subseteq (H \cup {c}) \ (A \cup B)
  BY <1>1, <1>2 DEF Settles
<1>9. /\ i.captured \in Nat /\ i.dedup \in Nat /\ i.too_large \in Nat /\ i.skipped \in Nat /\ i.failed \in Nat
  BY DEF ImportRec
<1> HIDE DEF H, F
<1>10. /\ j.captured + j.dedup = Cardinality(j.mine)
       /\ j.too_large = Cardinality(A \cap (H \cup {c}))
       /\ j.skipped = Cardinality(B \cap (H \cup {c}))
       /\ j.failed = Cardinality((H \cup {c}) \ (A \cup B \cup j.mine))
  <2>1. CASE c \notin A \cup B /\ j.mine = i.mine \cup {c}
              /\ j.captured + j.dedup = i.captured + i.dedup + 1
              /\ j.too_large = i.too_large /\ j.skipped = i.skipped /\ j.failed = i.failed
    BY <1>1, <1>5, <1>6, <1>7, <2>1
  <2>2. CASE j.mine = i.mine /\ j.captured = i.captured /\ j.dedup = i.dedup /\ c \in A
              /\ j.too_large = i.too_large + 1 /\ j.skipped = i.skipped /\ j.failed = i.failed
    BY <1>1, <1>5, <1>6, <1>7, <2>2
  <2>3. CASE j.mine = i.mine /\ j.captured = i.captured /\ j.dedup = i.dedup /\ c \in B
              /\ j.too_large = i.too_large /\ j.skipped = i.skipped + 1 /\ j.failed = i.failed
    BY <1>1, <1>5, <1>6, <1>7, <2>3
  <2>4. CASE j.mine = i.mine /\ j.captured = i.captured /\ j.dedup = i.dedup /\ c \notin A \cup B
              /\ j.too_large = i.too_large /\ j.skipped = i.skipped /\ j.failed = i.failed + 1
    BY <1>1, <1>5, <1>6, <1>7, <2>4
  <2> QED
    BY <2>1, <2>2, <2>3, <2>4 DEF Settles
<1> QED
  BY <1>2, <1>8, <1>10 DEF Books

(***************************************************************************)
(* The steps of an import                                                  *)
(***************************************************************************)
LEMMA Lists ==
    ASSUME NEW s, NEW L
    PROVE  /\ LargeOf(s, L) \in SUBSET L /\ NoCodeOf(s, L) \in SUBSET L
           /\ LargeOf(s, L) \cap NoCodeOf(s, L) = {}
           /\ s \notin OciSources => LargeOf(s, L) = {} /\ NoCodeOf(s, L) = {}
  BY DEF LargeOf, NoCodeOf

\* What the call reports stays in a catalog that grows.
LEMMA ReportedKept ==
    ASSUME NEW i \in ImportRec, NEW j, NEW k, NEW m, NEW A, Grows(k, m), Reported(i, k, A),
           j.mine = i.mine, j.todo = i.todo, j.unheard = i.unheard, j.failed = i.failed, j.source = i.source
    PROVE  Reported(j, m, A)
<1>1. \A q \in i.mine : BytesOf[q] \in Digests
  BY DEF ImportRec, Digests
<1> QED
  BY <1>1 DEF Reported, Grows

\* The call goes on with the file it is at.
LEMMA MoveKept ==
    ASSUME ImportInv, Underway(imp), NEW x, imp' = [imp EXCEPT !.pc = x],
           x \in {"next", "gap", "announce", "upload", "finalize", "complete"},
           AtFile(imp', Current, LargeOf(imp.source, imp.listed), NoCodeOf(imp.source, imp.listed)),
           Grows(catalog, catalog'), UNCHANGED image
    PROVE  ImportInv'
<1>1. imp \in ImportRec
  BY DEF ImportInv
<1>2. /\ imp' \in ImportRec /\ imp'.pc = x /\ imp'.source = imp.source /\ imp'.listed = imp.listed /\ imp'.todo = imp.todo
      /\ imp'.mine = imp.mine /\ imp'.unheard = imp.unheard /\ imp'.captured = imp.captured
      /\ imp'.dedup = imp.dedup /\ imp'.too_large = imp.too_large /\ imp'.skipped = imp.skipped
      /\ imp'.failed = imp.failed
  BY <1>1 DEF ImportRec
<1>3. PICK s, L, A, B : s = imp.source /\ L = imp.listed /\ A = LargeOf(s, L) /\ B = NoCodeOf(s, L)
  OBVIOUS
<1>4. imp'.source = s /\ imp'.listed = L
  BY <1>2, <1>3
<1>5. Books(imp, L, A, B) /\ Reported(imp, catalog, A)
  BY <1>3 DEF ImportInv
<1>6. Books(imp', L, A, B)
  BY <1>2, <1>5 DEF Books
<1>7. Reported(imp', catalog', A)
  BY <1>1, <1>2, <1>5, ReportedKept
<1>8. Current' = Current
  BY <1>2 DEF Current
<1>9. AtFile(imp', Current', A, B)
  BY <1>3, <1>8
<1> QED
  BY <1>2, <1>3, <1>4, <1>6, <1>7, <1>9 DEF ImportInv

\* The call goes on to the next file.
LEMMA SettledKept ==
    ASSUME ImportInv, Underway(imp), imp' \in ImportRec, imp'.pc = "next", imp'.source = imp.source /\ imp'.listed = imp.listed,
           Settles(imp, imp', Current, LargeOf(imp.source, imp.listed), NoCodeOf(imp.source, imp.listed)),
           Reported(imp', catalog', LargeOf(imp.source, imp.listed)), UNCHANGED image
    PROVE  ImportInv'
<1>1. imp \in ImportRec
  BY DEF ImportInv
<1>3. PICK s, L, A, B : s = imp.source /\ L = imp.listed /\ A = LargeOf(s, L) /\ B = NoCodeOf(s, L)
  OBVIOUS
<1>4. imp'.source = s /\ imp'.listed = L
  BY <1>3
<1>5. Books(imp, L, A, B)
  BY <1>3 DEF ImportInv
<1>6. L \in SUBSET ImportPath /\ A \in SUBSET L /\ B \in SUBSET L /\ A \cap B = {}
  BY <1>1, <1>3, Lists DEF ImportRec
<1>7. Books(imp', L, A, B)
  BY <1>1, <1>3, <1>5, <1>6, BooksKept
<1>8. AtFile(imp', Current', A, B)
  BY DEF AtFile
<1> QED
  BY <1>3, <1>4, <1>7, <1>8 DEF ImportInv

\* The fields of the call when it is done with a file.
LEMMA DoneFields ==
    ASSUME imp \in ImportRec, imp.todo # {}, NEW c, c = Current
    PROVE  /\ \A j : j = [Done(imp) EXCEPT !.skipped = @ + 1] =>
                /\ j \in ImportRec /\ j.pc = "next" /\ j.source = imp.source /\ j.listed = imp.listed /\ j.todo = imp.todo \ {c}
                /\ j.mine = imp.mine /\ j.unheard = imp.unheard /\ j.captured = imp.captured /\ j.dedup = imp.dedup
                /\ j.too_large = imp.too_large /\ j.skipped = imp.skipped + 1 /\ j.failed = imp.failed
           /\ \A j : j = [Done(imp) EXCEPT !.failed = @ + 1] =>
                /\ j \in ImportRec /\ j.pc = "next" /\ j.source = imp.source /\ j.listed = imp.listed /\ j.todo = imp.todo \ {c}
                /\ j.mine = imp.mine /\ j.unheard = imp.unheard /\ j.captured = imp.captured /\ j.dedup = imp.dedup
                /\ j.too_large = imp.too_large /\ j.skipped = imp.skipped /\ j.failed = imp.failed + 1
           /\ \A j : j = [Done(imp) EXCEPT !.too_large = @ + 1] =>
                /\ j \in ImportRec /\ j.pc = "next" /\ j.source = imp.source /\ j.listed = imp.listed /\ j.todo = imp.todo \ {c}
                /\ j.mine = imp.mine /\ j.unheard = imp.unheard /\ j.captured = imp.captured /\ j.dedup = imp.dedup
                /\ j.too_large = imp.too_large + 1 /\ j.skipped = imp.skipped /\ j.failed = imp.failed
<1>1. PICK T \in SUBSET ImportPath : T = imp.todo \ {c}
  BY DEF ImportRec
<1>2. PICK d : d = [imp EXCEPT !.pc = "next", !.todo = T]
  OBVIOUS
<1>3. d = Done(imp)
  BY <1>1, <1>2 DEF Done
<1>4. /\ d \in ImportRec /\ d.pc = "next" /\ d.source = imp.source /\ d.listed = imp.listed /\ d.todo = T
      /\ d.mine = imp.mine /\ d.unheard = imp.unheard /\ d.captured = imp.captured /\ d.dedup = imp.dedup
      /\ d.too_large = imp.too_large /\ d.skipped = imp.skipped /\ d.failed = imp.failed
  BY <1>2 DEF ImportRec
<1>5. PICK a \in Nat, b \in Nat, e \in Nat : a = d.skipped + 1 /\ b = d.failed + 1 /\ e = d.too_large + 1
  BY <1>4 DEF ImportRec
<1>6. ASSUME NEW j, j = [Done(imp) EXCEPT !.skipped = @ + 1]
      PROVE  j = [d EXCEPT !.skipped = a]
  BY <1>3, <1>5, <1>6
<1>7. ASSUME NEW j, j = [Done(imp) EXCEPT !.failed = @ + 1]
      PROVE  j = [d EXCEPT !.failed = b]
  BY <1>3, <1>5, <1>7
<1>8. ASSUME NEW j, j = [Done(imp) EXCEPT !.too_large = @ + 1]
      PROVE  j = [d EXCEPT !.too_large = e]
  BY <1>3, <1>5, <1>8
<1>9. ASSUME NEW j, j = [d EXCEPT !.skipped = a]
      PROVE     /\ j \in ImportRec /\ j.pc = "next" /\ j.source = imp.source /\ j.listed = imp.listed /\ j.todo = imp.todo \ {c}
                /\ j.mine = imp.mine /\ j.unheard = imp.unheard /\ j.captured = imp.captured /\ j.dedup = imp.dedup
                /\ j.too_large = imp.too_large /\ j.skipped = imp.skipped + 1 /\ j.failed = imp.failed
  BY <1>1, <1>4, <1>5, <1>9 DEF ImportRec
<1>10. ASSUME NEW j, j = [d EXCEPT !.failed = b]
      PROVE     /\ j \in ImportRec /\ j.pc = "next" /\ j.source = imp.source /\ j.listed = imp.listed /\ j.todo = imp.todo \ {c}
                /\ j.mine = imp.mine /\ j.unheard = imp.unheard /\ j.captured = imp.captured /\ j.dedup = imp.dedup
                /\ j.too_large = imp.too_large /\ j.skipped = imp.skipped /\ j.failed = imp.failed + 1
  BY <1>1, <1>4, <1>5, <1>10 DEF ImportRec
<1>11. ASSUME NEW j, j = [d EXCEPT !.too_large = e]
      PROVE     /\ j \in ImportRec /\ j.pc = "next" /\ j.source = imp.source /\ j.listed = imp.listed /\ j.todo = imp.todo \ {c}
                /\ j.mine = imp.mine /\ j.unheard = imp.unheard /\ j.captured = imp.captured /\ j.dedup = imp.dedup
                /\ j.too_large = imp.too_large + 1 /\ j.skipped = imp.skipped /\ j.failed = imp.failed
  BY <1>1, <1>4, <1>5, <1>11 DEF ImportRec
<1> QED
  BY <1>6, <1>7, <1>8, <1>9, <1>10, <1>11

LEMMA RecordedFields ==
    ASSUME imp \in ImportRec, imp.todo # {}, NEW c, c = Current, NEW j,
           j = [Done(Recorded(imp)) EXCEPT !.dedup = @ + 1] \/ j = [Done(Recorded(imp)) EXCEPT !.captured = @ + 1]
    PROVE  /\ j \in ImportRec /\ j.pc = "next" /\ j.source = imp.source /\ j.listed = imp.listed /\ j.todo = imp.todo \ {c}
           /\ j.mine = imp.mine \cup {c} /\ j.unheard = imp.unheard
           /\ j.captured + j.dedup = imp.captured + imp.dedup + 1
           /\ j.too_large = imp.too_large /\ j.skipped = imp.skipped /\ j.failed = imp.failed
<1>1. PICK T \in SUBSET ImportPath, M \in SUBSET ImportPath : T = imp.todo \ {c} /\ M = imp.mine \cup {c}
  BY CurrentFile DEF ImportRec
<1>2. PICK d : d = [imp EXCEPT !.pc = "next", !.todo = T, !.mine = M]
  OBVIOUS
<1>3. d = Done(Recorded(imp))
  <2>1. PICK r : r = [imp EXCEPT !.mine = M]
    OBVIOUS
  <2>2. r = Recorded(imp) /\ r \in ImportRec /\ r.todo = imp.todo
    BY <1>1, <2>1 DEF Recorded, ImportRec
  <2>3. Done(r) = [r EXCEPT !.pc = "next", !.todo = T]
    BY <1>1, <2>2 DEF Done
  <2>4. d = [r EXCEPT !.pc = "next", !.todo = T]
    BY <1>2, <2>1 DEF ImportRec
  <2> QED
    BY <2>2, <2>3, <2>4
<1>4. /\ d \in ImportRec /\ d.pc = "next" /\ d.source = imp.source /\ d.listed = imp.listed /\ d.todo = T
      /\ d.mine = M /\ d.unheard = imp.unheard /\ d.captured = imp.captured /\ d.dedup = imp.dedup
      /\ d.too_large = imp.too_large /\ d.skipped = imp.skipped /\ d.failed = imp.failed
  BY <1>2 DEF ImportRec
<1>5. PICK a \in Nat, b \in Nat : a = d.dedup + 1 /\ b = d.captured + 1
  BY <1>4 DEF ImportRec
<1>6. j = [d EXCEPT !.dedup = a] \/ j = [d EXCEPT !.captured = b]
  BY <1>3, <1>5
<1>7. imp.captured \in Nat /\ imp.dedup \in Nat
  BY DEF ImportRec
<1> QED
  BY <1>1, <1>4, <1>5, <1>6, <1>7 DEF ImportRec

LEMMA UnheardFields ==
    ASSUME imp \in ImportRec, imp.todo # {}, NEW c, c = Current, NEW j,
           j = [Done(imp) EXCEPT !.too_large = @ + 1, !.unheard = @ \cup {Current}]
    PROVE  /\ j \in ImportRec /\ j.pc = "next" /\ j.source = imp.source /\ j.listed = imp.listed /\ j.todo = imp.todo \ {c}
           /\ j.mine = imp.mine /\ j.unheard = imp.unheard \cup {c}
           /\ j.captured = imp.captured /\ j.dedup = imp.dedup
           /\ j.too_large = imp.too_large + 1 /\ j.skipped = imp.skipped /\ j.failed = imp.failed
<1>0. imp.too_large \in Nat /\ imp.todo \in SUBSET ImportPath /\ imp.unheard \in SUBSET ImportPath /\ c \in ImportPath
  BY CurrentFile DEF ImportRec
<1>1. PICK T \in SUBSET ImportPath, U \in SUBSET ImportPath, n \in Nat :
         T = imp.todo \ {c} /\ U = imp.unheard \cup {c} /\ n = imp.too_large + 1
  <2>1. imp.todo \ {c} \in SUBSET ImportPath /\ imp.unheard \cup {c} \in SUBSET ImportPath /\ imp.too_large + 1 \in Nat
    BY <1>0
  <2> QED
    BY <2>1, Zenon
<1>2. PICK d : d = [imp EXCEPT !.pc = "next", !.todo = T]
  OBVIOUS
<1>3. d = Done(imp)
  BY <1>1, <1>2 DEF Done
<1>4. /\ d \in ImportRec /\ d.pc = "next" /\ d.source = imp.source /\ d.listed = imp.listed /\ d.todo = T
      /\ d.mine = imp.mine /\ d.unheard = imp.unheard /\ d.captured = imp.captured /\ d.dedup = imp.dedup
      /\ d.too_large = imp.too_large /\ d.skipped = imp.skipped /\ d.failed = imp.failed
  BY <1>2 DEF ImportRec
<1>5. j = [d EXCEPT !.too_large = n, !.unheard = U]
  BY <1>1, <1>3, <1>4
<1> QED
  BY <1>1, <1>4, <1>5 DEF ImportRec

LEMMA GrowsSelf == ASSUME CatalogInv PROVE Grows(catalog, catalog)
  BY DEF CatalogInv, Grows

\* Another actor's step.
LEMMA ImportWaits ==
    ASSUME ImportInv, Grows(catalog, catalog'), UNCHANGED <<image, imp>>
    PROVE  ImportInv'
<1>1. imp' = imp /\ imp \in ImportRec /\ image' = image
  BY DEF ImportInv
<1>2. CASE ~Underway(imp)
  BY <1>1, <1>2 DEF ImportInv, Underway
<1>3. CASE Underway(imp)
  <2>1. PICK s, L, A, B : s = imp.source /\ L = imp.listed /\ A = LargeOf(s, L) /\ B = NoCodeOf(s, L)
    OBVIOUS
  <2>2. imp'.source = s /\ imp'.listed = L
    BY <1>1, <2>1
  <2>3. Books(imp, L, A, B) /\ AtFile(imp, Current, A, B) /\ Reported(imp, catalog, A)
    BY <1>3, <2>1 DEF ImportInv
  <2>4. Current' = Current
    BY <1>1 DEF Current
  <2>5. Reported(imp', catalog', A)
    BY <1>1, <2>3, ReportedKept
  <2> QED
    BY <1>1, <2>1, <2>2, <2>3, <2>4, <2>5 DEF ImportInv
<1> QED
  BY <1>2, <1>3

\* A run begins; or it has ended.
LEMMA ImportEnds ==
    ASSUME imp' \in ImportRec, ~Underway(imp')
    PROVE  ImportInv'
  BY DEF ImportInv, Underway

LEMMA ImportBegins ==
    ASSUME NEW s \in Sources, StartImport(s) \/ FetchFails(s) \/ (ListsPartly /\ s = "dir"), ImportInv, CatalogInv
    PROVE  ImportInv' /\ UNCHANGED <<image, catalog>>
<1>1. imp.runs \in Nat /\ UNCHANGED <<image, catalog>>
  BY DEF StartImport, FetchFails, ListsPartly, ImportInv, ImportRec
<1>2. PICK n \in Nat : n = imp.runs + 1
  BY <1>1
<1>3. Listed(s) \in SUBSET ImportPath
  BY DEF Listed, walk_docker_save, mb_recent_hashes
<1>4. ASSUME NEW L \in SUBSET ImportPath,
             imp' = [NoImport EXCEPT !.source = s, !.runs = n, !.listed = L, !.todo = L, !.pc = "next"]
      PROVE  ImportInv'
  <2>1. /\ imp' \in ImportRec /\ imp'.pc = "next" /\ imp'.source = s /\ imp'.listed = L /\ imp'.todo = L
        /\ imp'.mine = {}
        /\ imp'.captured = 0 /\ imp'.dedup = 0 /\ imp'.too_large = 0 /\ imp'.skipped = 0 /\ imp'.failed = 0
    BY <1>4 DEF NoImport, ImportRec
  <2>2. PICK A, B : A = LargeOf(s, L) /\ B = NoCodeOf(s, L)
    OBVIOUS
  <2>4. A \subseteq L /\ B \subseteq L
    BY <2>2, Lists
  <2>5. Books(imp', L, A, B)
    <3>1. Cardinality({}) = 0
      BY FS_EmptySet
    <3>2. A \cap (L \ L) = {} /\ B \cap (L \ L) = {} /\ (L \ L) \ (A \cup B \cup {}) = {}
      OBVIOUS
    <3> QED
      BY <2>1, <3>1, <3>2 DEF Books
  <2>6. AtFile(imp', Current', A, B)
    BY <2>1 DEF AtFile
  <2>7. Reported(imp', catalog', A)
    BY <2>1, <2>4 DEF Reported
  <2> QED
    BY <2>1, <2>2, <2>5, <2>6, <2>7 DEF ImportInv
<1>5. ASSUME NEW L \in SUBSET ImportPath,
             imp' = [NoImport EXCEPT !.source = s, !.runs = n, !.listed = L, !.todo = L, !.pc = "aborted"]
      PROVE  ImportInv'
  <2>1. imp' \in ImportRec /\ imp'.pc = "aborted"
    BY <1>5 DEF NoImport, ImportRec
  <2> QED
    BY <2>1, ImportEnds DEF Underway
<1>6. CASE imp' = [NoImport EXCEPT !.source = s, !.runs = n, !.pc = "aborted"]
  <2>1. imp' \in ImportRec /\ imp'.pc = "aborted"
    BY <1>6 DEF NoImport, ImportRec
  <2> QED
    BY <1>1, <2>1, ImportEnds DEF Underway
<1>7. CASE StartImport(s)
  <2>1. PICK L \in SUBSET ImportPath : L = Listed(s)
    BY <1>3
  <2>2. \/ imp' = [NoImport EXCEPT !.source = s, !.runs = n, !.listed = L, !.todo = L, !.pc = "next"]
        \/ imp' = [NoImport EXCEPT !.source = s, !.runs = n, !.listed = L, !.todo = L, !.pc = "aborted"]
    BY <1>2, <1>7, <2>1 DEF StartImport
  <2> QED
    BY <1>1, <1>4, <1>5, <2>2
<1>8. CASE ListsPartly /\ s = "dir"
  <2>1. PICK L \in SUBSET Listed(s) :
          imp' = [NoImport EXCEPT !.source = s, !.runs = n, !.listed = L, !.todo = L, !.pc = "next"]
    BY <1>2, <1>8 DEF ListsPartly
  <2> QED
    BY <1>1, <1>3, <1>4, <2>1
<1> QED
  BY <1>1, <1>2, <1>6, <1>7, <1>8 DEF FetchFails

LEMMA NextFileKept ==
    ASSUME CatalogInv, ImportInv, NextFile
    PROVE  ImportInv' /\ UNCHANGED <<image, catalog>>
<1>0. imp.pc = "next" /\ UNCHANGED <<image, catalog>>
  BY DEF NextFile
<1>1. imp \in ImportRec /\ Underway(imp) /\ Grows(catalog, catalog')
  BY <1>0, GrowsSelf DEF ImportInv, Underway
<1>2. PICK s, L, A, B : s = imp.source /\ L = imp.listed /\ A = LargeOf(s, L) /\ B = NoCodeOf(s, L)
  OBVIOUS
<1>3. Books(imp, L, A, B) /\ Reported(imp, catalog, A) /\ imp.todo \subseteq L
  BY <1>1, <1>2 DEF ImportInv, Books
<1>4. ASSUME NEW x, imp' = [imp EXCEPT !.pc = x], x \in {"complete", "gap", "announce"},
             AtFile(imp', Current, A, B)
      PROVE  ImportInv'
  BY <1>0, <1>1, <1>2, <1>4, MoveKept
<1>5. ASSUME NEW x, imp' = [imp EXCEPT !.pc = x], x \in {"complete", "gap", "announce"}
      PROVE  imp'.pc = x /\ imp'.todo = imp.todo
  BY <1>1, <1>5 DEF ImportRec
<1>6. CASE imp.todo = {}
  <2>1. PICK x : x = "complete"
    OBVIOUS
  <2>2. imp' = [imp EXCEPT !.pc = x]
    BY <1>6, <2>1 DEF NextFile
  <2>3. AtFile(imp', Current, A, B)
    BY <1>5, <1>6, <2>1, <2>2 DEF AtFile
  <2> QED
    BY <1>0, <1>4, <2>1, <2>2, <2>3
<1>7. CASE imp.todo # {}
  <2>1. PICK c : c = Current
    OBVIOUS
  <2>2. c \in imp.todo /\ c \in L
    BY <1>1, <1>3, <1>7, <2>1, CurrentFile
  <2>3. CASE s \in OciSources /\ c \in LargePath
    <3>1. PICK x : x = "gap"
      OBVIOUS
    <3>2. imp' = [imp EXCEPT !.pc = x]
      BY <1>2, <1>7, <2>1, <2>3, <3>1 DEF NextFile
    <3>3. c \in A
      BY <1>2, <2>2, <2>3 DEF LargeOf
    <3>4. AtFile(imp', Current, A, B)
      BY <1>5, <1>7, <2>1, <3>1, <3>2, <3>3 DEF AtFile
    <3> QED
      BY <1>0, <1>4, <3>1, <3>2, <3>4
  <2>4. CASE s \in OciSources /\ c \notin LargePath \cup CodePath
    <3>1. imp' = [Done(imp) EXCEPT !.skipped = @ + 1]
      BY <1>2, <1>7, <2>1, <2>4 DEF NextFile
    <3>2. c \in B /\ c \notin A
      BY <1>2, <2>2, <2>4 DEF LargeOf, NoCodeOf
    <3>3. /\ imp' \in ImportRec /\ imp'.pc = "next" /\ imp'.source = imp.source /\ imp'.listed = imp.listed /\ imp'.todo = imp.todo \ {c}
          /\ imp'.mine = imp.mine /\ imp'.unheard = imp.unheard /\ imp'.captured = imp.captured /\ imp'.dedup = imp.dedup
          /\ imp'.too_large = imp.too_large /\ imp'.skipped = imp.skipped + 1 /\ imp'.failed = imp.failed
      BY <1>1, <1>7, <2>1, <3>1, DoneFields
    <3>4. Settles(imp, imp', c, A, B)
      BY <1>7, <2>2, <3>2, <3>3 DEF Settles
    <3>5. Reported(imp', catalog', A)
      BY <1>0, <1>3, <3>2, <3>3 DEF Reported
    <3> QED
      BY <1>0, <1>1, <1>2, <2>1, <3>3, <3>4, <3>5, SettledKept
  <2>5. CASE s \notin OciSources \/ c \in CodePath \ LargePath
    <3>1. PICK x : x = "announce"
      OBVIOUS
    <3>2. imp' = [imp EXCEPT !.pc = x]
      BY <1>2, <1>7, <2>1, <2>5, <3>1 DEF NextFile
    <3>3. c \notin A \cup B
      BY <1>2, <2>5 DEF LargeOf, NoCodeOf
    <3>4. AtFile(imp', Current, A, B)
      BY <1>5, <1>7, <2>1, <3>1, <3>2, <3>3 DEF AtFile
    <3> QED
      BY <1>0, <1>4, <3>1, <3>2, <3>4
  <2> QED
    BY <2>3, <2>4, <2>5
<1> QED
  BY <1>0, <1>6, <1>7

\* The command gives up, or the file counts as a failure of a directory.
LEMMA FailedKept ==
    ASSUME CatalogInv, ImportInv, Underway(imp), imp.todo # {},
           imp' = [Done(imp) EXCEPT !.failed = @ + 1], imp.source = "dir", UNCHANGED <<image, catalog>>
    PROVE  ImportInv'
<1>1. imp \in ImportRec
  BY DEF ImportInv
<1>2. PICK c, A, B : c = Current /\ A = LargeOf(imp.source, imp.listed) /\ B = NoCodeOf(imp.source, imp.listed)
  OBVIOUS
<1>3. A = {} /\ B = {}
  BY <1>2, Lists DEF OciSources
<1>4. /\ imp' \in ImportRec /\ imp'.pc = "next" /\ imp'.source = imp.source /\ imp'.listed = imp.listed /\ imp'.todo = imp.todo \ {c}
      /\ imp'.mine = imp.mine /\ imp'.unheard = imp.unheard /\ imp'.captured = imp.captured /\ imp'.dedup = imp.dedup
      /\ imp'.too_large = imp.too_large /\ imp'.skipped = imp.skipped /\ imp'.failed = imp.failed + 1
  BY <1>1, <1>2, DoneFields
<1>5. c \in imp.todo
  BY <1>1, <1>2, CurrentFile
<1>6. Settles(imp, imp', c, A, B)
  BY <1>3, <1>4, <1>5 DEF Settles
<1>7. Reported(imp, catalog, A)
  BY <1>2 DEF ImportInv
<1>8. Reported(imp', catalog', A)
  BY <1>3, <1>4, <1>7 DEF Reported
<1> QED
  BY <1>2, <1>4, <1>6, <1>8, SettledKept

LEMMA AbortKept ==
    ASSUME imp \in ImportRec, imp' = [imp EXCEPT !.pc = "aborted"]
    PROVE  ImportInv'
<1>1. imp' \in ImportRec /\ imp'.pc = "aborted"
  BY DEF ImportRec
<1> QED
  BY <1>1, ImportEnds DEF Underway

LEMMA RefusedKept ==
    ASSUME CatalogInv, ImportInv, ReadFailed \/ UploadRefused \/ mb_fetch_zip
    PROVE  ImportInv' /\ UNCHANGED <<image, catalog>>
<1>1. imp \in ImportRec /\ Underway(imp) /\ UNCHANGED <<image, catalog>>
  BY DEF ImportInv, Underway, ReadFailed, UploadRefused, mb_fetch_zip
<1>2. imp.todo # {}
  <2>1. CASE imp.pc = "upload"
    BY <1>1, <2>1 DEF ImportInv, AtFile
  <2> QED
    BY <2>1 DEF ReadFailed, UploadRefused, mb_fetch_zip
<1>3. \/ imp.source = "dir" /\ imp' = [Done(imp) EXCEPT !.failed = @ + 1]
      \/ imp' = [imp EXCEPT !.pc = "aborted"]
  BY DEF ReadFailed, UploadRefused, mb_fetch_zip
<1> QED
  BY <1>1, <1>2, <1>3, FailedKept, AbortKept

LEMMA GapKept ==
    ASSUME CatalogInv, ImportInv, report_gap
    PROVE  ImportInv' /\ Grows(catalog, catalog')
<1>0. imp.pc = "gap" /\ UNCHANGED image
  BY DEF report_gap
<1>1. imp \in ImportRec /\ Underway(imp)
  BY <1>0 DEF ImportInv, Underway
<1>2. PICK c, A, B : c = Current /\ A = LargeOf(imp.source, imp.listed) /\ B = NoCodeOf(imp.source, imp.listed)
  OBVIOUS
<1>3. imp.todo # {} /\ c \in A /\ Reported(imp, catalog, A)
  BY <1>0, <1>1, <1>2 DEF ImportInv, AtFile
<1>4. c \in imp.todo /\ c \in ImportPath
  BY <1>1, <1>2, <1>3, CurrentFile
<1>5. CASE /\ catalog' = [catalog EXCEPT !.gaps = @ \cup {c}]
           /\ imp' = [Done(imp) EXCEPT !.too_large = @ + 1]
  <2>1. Grows(catalog, catalog') /\ c \in catalog'.gaps
    BY <1>4, <1>5, GapGrows
  <2>2. /\ imp' \in ImportRec /\ imp'.pc = "next" /\ imp'.source = imp.source /\ imp'.listed = imp.listed /\ imp'.todo = imp.todo \ {c}
        /\ imp'.mine = imp.mine /\ imp'.unheard = imp.unheard /\ imp'.captured = imp.captured /\ imp'.dedup = imp.dedup
        /\ imp'.too_large = imp.too_large + 1 /\ imp'.skipped = imp.skipped /\ imp'.failed = imp.failed
    BY <1>1, <1>2, <1>3, <1>5, DoneFields
  <2>3. Settles(imp, imp', c, A, B)
    BY <1>3, <1>4, <2>2 DEF Settles
  <2>4. Reported(imp, catalog', A)
    BY <1>1, <1>3, <2>1, ReportedKept
  <2>5. Reported(imp', catalog', A)
    BY <2>1, <2>2, <2>4 DEF Reported
  <2> QED
    BY <1>0, <1>1, <1>2, <2>1, <2>2, <2>3, <2>5, SettledKept
<1>6. CASE /\ UNCHANGED catalog
           /\ imp' = [Done(imp) EXCEPT !.too_large = @ + 1, !.unheard = @ \cup {Current}]
  <2>1. Grows(catalog, catalog')
    BY <1>6, GrowsSelf
  <2>2. /\ imp' \in ImportRec /\ imp'.pc = "next" /\ imp'.source = imp.source /\ imp'.listed = imp.listed /\ imp'.todo = imp.todo \ {c}
        /\ imp'.mine = imp.mine /\ imp'.unheard = imp.unheard \cup {c} /\ imp'.captured = imp.captured /\ imp'.dedup = imp.dedup
        /\ imp'.too_large = imp.too_large + 1 /\ imp'.skipped = imp.skipped /\ imp'.failed = imp.failed
    BY <1>1, <1>2, <1>3, <1>6, UnheardFields
  <2>3. Settles(imp, imp', c, A, B)
    BY <1>3, <1>4, <2>2 DEF Settles
  <2>4. Reported(imp', catalog', A)
    BY <1>3, <1>6, <2>2 DEF Reported
  <2> QED
    BY <1>0, <1>1, <1>2, <2>1, <2>2, <2>3, <2>4, SettledKept
<1> QED
  BY <1>2, <1>5, <1>6 DEF report_gap

\* The file is in the corpus, with the occurrence of this run.
LEMMA RecordedKept ==
    ASSUME ImportInv, Underway(imp), imp.pc \in {"announce", "finalize"}, Grows(catalog, catalog'),
           \/ imp' = [Done(Recorded(imp)) EXCEPT !.dedup = @ + 1]
           \/ imp' = [Done(Recorded(imp)) EXCEPT !.captured = @ + 1],
           catalog'.scope[BytesOf[Current]] # "none",
           imp.source # "malwarebazaar" => BytesOf[Current] \in catalog'.host,
           UNCHANGED image
    PROVE  ImportInv'
<1>1. imp \in ImportRec
  BY DEF ImportInv
<1>2. PICK c, A, B : c = Current /\ A = LargeOf(imp.source, imp.listed) /\ B = NoCodeOf(imp.source, imp.listed)
  OBVIOUS
<1>3. imp.todo # {} /\ c \notin A \cup B /\ Reported(imp, catalog, A)
  BY <1>2 DEF ImportInv, AtFile
<1>4. c \in imp.todo
  BY <1>1, <1>2, <1>3, CurrentFile
<1>5. /\ imp' \in ImportRec /\ imp'.pc = "next" /\ imp'.source = imp.source /\ imp'.listed = imp.listed /\ imp'.todo = imp.todo \ {c}
      /\ imp'.mine = imp.mine \cup {c} /\ imp'.unheard = imp.unheard
      /\ imp'.captured + imp'.dedup = imp.captured + imp.dedup + 1
      /\ imp'.too_large = imp.too_large /\ imp'.skipped = imp.skipped /\ imp'.failed = imp.failed
  BY <1>1, <1>2, <1>3, RecordedFields
<1>6. Settles(imp, imp', c, A, B)
  BY <1>3, <1>4, <1>5 DEF Settles
<1>7. Reported(imp, catalog', A)
  BY <1>1, <1>3, ReportedKept
<1>8. Reported(imp', catalog', A)
  BY <1>2, <1>3, <1>5, <1>7 DEF Reported
<1> QED
  BY <1>2, <1>5, <1>6, <1>8, SettledKept

LEMMA CommitKept ==
    ASSUME CatalogInv, ImportInv, announce \/ upload \/ finalize
    PROVE  ImportInv' /\ Grows(catalog, catalog')
<1>0. imp.pc \in {"announce", "upload", "finalize"} /\ UNCHANGED image
  BY DEF announce, upload, finalize
<1>1. imp \in ImportRec /\ Underway(imp)
  BY <1>0 DEF ImportInv, Underway
<1>2. PICK A, B : A = LargeOf(imp.source, imp.listed) /\ B = NoCodeOf(imp.source, imp.listed)
  OBVIOUS
<1>3. imp.todo # {} /\ Current \notin A \cup B
  BY <1>0, <1>1, <1>2 DEF ImportInv, AtFile
<1>4. BytesOf[Current] \in Digests
  BY <1>1, <1>3, CurrentFile
<1>5. ASSUME NEW x, x \in {"upload", "finalize"}, imp' = [imp EXCEPT !.pc = x], UNCHANGED catalog
      PROVE  ImportInv' /\ Grows(catalog, catalog')
  <2>1. imp'.pc = x /\ imp'.todo = imp.todo
    BY <1>1, <1>5 DEF ImportRec
  <2>2. AtFile(imp', Current, A, B)
    BY <1>3, <1>5, <2>1 DEF AtFile
  <2>3. Grows(catalog, catalog')
    BY <1>5, GrowsSelf
  <2> QED
    BY <1>0, <1>1, <1>2, <1>5, <2>2, <2>3, MoveKept
<1>6. CASE announce /\ catalog.scope[BytesOf[Current]] = "none"
  <2>1. PICK x : x = "upload"
    OBVIOUS
  <2>2. imp' = [imp EXCEPT !.pc = x] /\ UNCHANGED catalog
    BY <1>6, <2>1 DEF announce
  <2> QED
    BY <1>5, <2>1, <2>2
<1>7. CASE upload
  <2>1. PICK x : x = "finalize"
    OBVIOUS
  <2>2. imp' = [imp EXCEPT !.pc = x] /\ UNCHANGED catalog
    BY <1>7, <2>1 DEF upload
  <2> QED
    BY <1>5, <2>1, <2>2
<1>8. CASE announce /\ catalog.scope[BytesOf[Current]] # "none"
  <2>1. /\ catalog' = WithOccurrence(catalog)
        /\ imp' = [Done(Recorded(imp)) EXCEPT !.dedup = @ + 1] /\ imp.pc = "announce"
    BY <1>8 DEF announce
  <2>2. /\ Grows(catalog, catalog') /\ catalog'.scope = catalog.scope
        /\ imp.source # "malwarebazaar" => BytesOf[Current] \in catalog'.host
    BY <1>4, <1>8, <2>1, GrowsSelf, OccurrenceGrows
  <2> QED
    BY <1>0, <1>1, <1>8, <2>1, <2>2, RecordedKept
<1>9. CASE finalize
  <2>1. PICK k, s, d : k = Committed(s, d) /\ s = ScopeOf(imp.source) /\ d = BytesOf[Current]
    OBVIOUS
  <2>2. /\ catalog' = WithOccurrence(k)
        /\ imp' = [Done(Recorded(imp)) EXCEPT !.captured = @ + 1] /\ imp.pc = "finalize"
    BY <1>9, <2>1 DEF finalize
  <2>3. s \in {"intel", "endpoint"}
    BY <2>1 DEF ScopeOf
  <2>4. Grows(catalog, k) /\ k.scope[d] # "none"
    BY <1>4, <2>1, <2>3, CommitGrows
  <2>5. /\ Grows(catalog, catalog') /\ catalog'.scope = k.scope
        /\ imp.source # "malwarebazaar" => BytesOf[Current] \in catalog'.host
    BY <1>4, <2>1, <2>2, <2>4, OccurrenceGrows
  <2> QED
    BY <1>0, <1>1, <2>1, <2>2, <2>4, <2>5, RecordedKept
<1> QED
  BY <1>6, <1>7, <1>8, <1>9

LEMMA AbortsKept ==
    ASSUME CatalogInv, ImportInv, ImportAborts
    PROVE  ImportInv' /\ Grows(catalog, catalog')
<1>0. /\ imp.pc \in {"gap", "announce", "upload", "finalize"} /\ imp' = [imp EXCEPT !.pc = "aborted"]
  BY DEF ImportAborts
<1>1. imp \in ImportRec /\ Underway(imp)
  BY <1>0 DEF ImportInv, Underway
<1>2. imp.todo # {}
  BY <1>0, <1>1 DEF ImportInv, AtFile
<1>3. Current \in ImportPath /\ BytesOf[Current] \in Digests
  BY <1>1, <1>2, CurrentFile
<1>4. CASE UNCHANGED catalog
  BY <1>0, <1>1, <1>4, AbortKept, GrowsSelf
<1>5. CASE catalog' = [catalog EXCEPT !.gaps = @ \cup {Current}]
  BY <1>0, <1>1, <1>3, <1>5, AbortKept, GapGrows
<1>6. CASE catalog.scope[BytesOf[Current]] # "none" /\ catalog' = WithOccurrence(catalog)
  BY <1>0, <1>1, <1>3, <1>6, AbortKept, GrowsSelf, OccurrenceGrows
<1>7. CASE catalog' = WithOccurrence(Committed(ScopeOf(imp.source), BytesOf[Current]))
  <2>1. PICK k, s, d : k = Committed(s, d) /\ s = ScopeOf(imp.source) /\ d = BytesOf[Current]
    OBVIOUS
  <2>2. s \in {"intel", "endpoint"}
    BY <2>1 DEF ScopeOf
  <2>3. Grows(catalog, k) /\ k.scope[d] # "none"
    BY <1>3, <2>1, <2>2, CommitGrows
  <2>4. Grows(catalog, catalog')
    BY <1>3, <1>7, <2>1, <2>3, OccurrenceGrows
  <2> QED
    BY <1>0, <1>1, <2>4, AbortKept
<1> QED
  BY <1>4, <1>5, <1>6, <1>7 DEF ImportAborts

LEMMA CaptureGrows ==
    ASSUME CatalogInv, NEW d \in Digests, AgentCaptures(d)
    PROVE  Grows(catalog, catalog') /\ UNCHANGED <<image, imp>>
<1>1. PICK s : s = "endpoint"
  OBVIOUS
<1>2. PICK k : k = Committed(s, d)
  OBVIOUS
<1>3. Grows(catalog, k) /\ k.scope[d] # "none"
  BY <1>1, <1>2, CommitGrows
<1>4. catalog' = [k EXCEPT !.host = @ \cup {d}] /\ UNCHANGED <<image, imp>>
  BY <1>1, <1>2 DEF AgentCaptures
<1> QED
  BY <1>3, <1>4, HostGrows

HashStep == BeginUpsert \/ upsert_indicators \/ hash_hunt \/ record \/ insert_record \/ UpsertDropped

LEMMA ImportStep ==
    ASSUME CatalogInv, ImportInv, BootstrapNext
    PROVE  /\ Grows(catalog, catalog') /\ ImportInv'
           /\ HashStep \/ UNCHANGED <<upsert, intel>>
<1>1. ASSUME NEW s \in Sources, StartImport(s) \/ FetchFails(s)
      PROVE  Grows(catalog, catalog') /\ ImportInv' /\ UNCHANGED <<upsert, intel>>
  BY <1>1, ImportBegins, GrowsSelf DEF StartImport, FetchFails
<1>2. CASE NextFile
  BY <1>2, NextFileKept, GrowsSelf DEF NextFile
<1>3. CASE ReadFailed \/ UploadRefused \/ mb_fetch_zip
  BY <1>3, RefusedKept, GrowsSelf DEF ReadFailed, UploadRefused, mb_fetch_zip
<1>4. CASE report_gap
  BY <1>4, GapKept DEF report_gap
<1>5. CASE announce \/ upload \/ finalize
  BY <1>5, CommitKept DEF announce, upload, finalize
<1>6. CASE ImportAborts
  BY <1>6, AbortsKept DEF ImportAborts
<1>7. ASSUME NEW d \in Digests, AgentCaptures(d)
      PROVE  Grows(catalog, catalog') /\ ImportInv' /\ UNCHANGED <<upsert, intel>>
  BY <1>7, CaptureGrows, ImportWaits DEF AgentCaptures
<1>8. CASE HashStep
  <2>1. UNCHANGED <<image, catalog, imp>>
    BY <1>8 DEF HashStep, BeginUpsert, upsert_indicators, hash_hunt, record, insert_record, UpsertDropped
  <2> QED
    BY <1>8, <2>1, GrowsSelf, ImportWaits
<1>9. CASE ListsPartly
  <2>1. PICK s \in Sources : s = "dir"
    BY DEF Sources
  <2> QED
    BY <1>9, <2>1, ImportBegins, GrowsSelf DEF ListsPartly
<1> QED
  BY <1>1, <1>2, <1>3, <1>4, <1>5, <1>6, <1>7, <1>8, <1>9, Zenon DEF BootstrapNext, HashStep

(***************************************************************************)
(* The steps of an indicators call                                         *)
(***************************************************************************)
\* What a held file is called stays so while the catalog grows.
LEMMA HashWaits ==
    ASSUME NEW u, NEW t, NEW k, NEW m, HashOK(u, k, t), Grows(k, m)
    PROVE  HashOK(u, m, t)
<1>1. u.held \subseteq Digests /\ \A d \in u.held : k.scope[d] # "none"
  BY DEF HashOK
<1>2. \A d \in u.held : m.scope[d] = k.scope[d]
  BY <1>1 DEF Grows
<1>3. \A n : ToFind(u, m, n) <=> ToFind(u, k, n)
  BY <1>2 DEF ToFind
<1> QED
  BY <1>1, <1>2, <1>3 DEF HashOK

LEMMA HuntKept ==
    ASSUME CatalogInv, HashInv, hash_hunt
    PROVE  HashOK(upsert', catalog, intel)
<1>0. upsert.pc = "hunt" /\ UpsertShape(upsert) /\ IntelShape(intel) /\ sha_hashes = Named(upsert)
  BY DEF hash_hunt, HashInv, HashOK, sha_hashes, Named
<1>1. /\ upsert.held \subseteq Digests /\ \A d \in upsert.held : catalog.scope[d] # "none"
      /\ \A n \in Named(upsert) \ upsert.left :
            ToFind(upsert, catalog, n) => upsert.feed[n].digest \in upsert.hits
  BY <1>0 DEF HashInv, HashOK
<1>2. CASE ~intel.auto \/ Named(upsert) = {}
  <2>1. upsert' = [upsert EXCEPT !.pc = "answered"]
    BY <1>0, <1>2 DEF hash_hunt
  <2>2. UpsertShape(upsert') /\ upsert'.pc = "answered" /\ upsert'.feed = upsert.feed /\ upsert'.held = upsert.held
    BY <1>0, <2>1 DEF UpsertShape
  <2>3. Named(upsert') = Named(upsert)
    BY <2>2 DEF Named
  <2> QED
    BY <1>0, <1>1, <1>2, <2>2, <2>3 DEF HashOK
<1>3. CASE intel.auto /\ Named(upsert) # {} /\ upsert.left = {}
  <2>1. PICK r : r = IF upsert.hits = {} THEN "no_hits" ELSE "hits"
    OBVIOUS
  <2>2. upsert' = [upsert EXCEPT !.pc = "detect", !.record = r]
    BY <1>0, <1>3, <2>1 DEF hash_hunt
  <2>3. /\ UpsertShape(upsert') /\ upsert'.pc = "detect" /\ upsert'.feed = upsert.feed /\ upsert'.held = upsert.held
        /\ upsert'.hits = upsert.hits /\ upsert'.record = r
    BY <1>0, <2>2 DEF UpsertShape
  <2>4. Named(upsert') = Named(upsert) /\ \A n : ToFind(upsert', catalog, n) <=> ToFind(upsert, catalog, n)
    BY <2>3 DEF Named, ToFind
  <2> QED
    BY <1>0, <1>1, <1>3, <2>1, <2>3, <2>4 DEF HashOK
<1>4. CASE intel.auto /\ Named(upsert) # {} /\ upsert.left # {}
  <2>1. PICK a, h : a = Min(upsert.left) /\ h = upsert.feed[a]
    OBVIOUS
  <2>2. PICK R, S : R = upsert.left \ {a} /\ S = upsert.hits \cup {d \in {h.digest} : catalog.scope[d] = "endpoint"}
    OBVIOUS
  <2>3. CASE h.form = "invalid"
    <3>1. upsert' = [upsert EXCEPT !.pc = "error"]
      BY <1>0, <1>4, <2>1, <2>3 DEF hash_hunt
    <3>2. UpsertShape(upsert') /\ upsert'.pc = "error" /\ upsert'.held = upsert.held
      BY <1>0, <3>1 DEF UpsertShape
    <3> QED
      BY <1>0, <1>1, <3>2 DEF HashOK
  <2>4. CASE h.form # "invalid"
    <3>1. upsert' = [upsert EXCEPT !.left = R, !.hits = S]
      BY <1>0, <1>4, <2>1, <2>2, <2>4 DEF hash_hunt
    <3>2. /\ UpsertShape(upsert') /\ upsert'.pc = "hunt" /\ upsert'.feed = upsert.feed /\ upsert'.held = upsert.held
          /\ upsert'.left = R /\ upsert'.hits = S
      BY <1>0, <3>1 DEF UpsertShape
    <3>3. Named(upsert') = Named(upsert) /\ \A n : ToFind(upsert', catalog, n) <=> ToFind(upsert, catalog, n)
      BY <3>2 DEF Named, ToFind
    <3>4. ASSUME NEW n \in Named(upsert) \ R, ToFind(upsert, catalog, n) PROVE upsert.feed[n].digest \in S
      <4>1. CASE n \notin upsert.left
        BY <1>1, <2>2, <3>4, <4>1
      <4>2. CASE n = a
        <5>1. PICK d : d = h.digest
          OBVIOUS
        <5>2. d \in upsert.held /\ catalog.scope[d] # "intel"
          BY <2>1, <3>4, <4>2, <5>1 DEF ToFind
        <5>3. d \in Digests /\ catalog.scope[d] # "none" /\ catalog.scope \in [Digests -> {"none", "intel", "endpoint"}]
          BY <1>1, <5>2 DEF CatalogInv, CatalogRec
        <5>4. catalog.scope[d] = "endpoint"
          BY <5>2, <5>3
        <5> QED
          BY <2>1, <2>2, <4>2, <5>1, <5>4
      <4> QED
        BY <2>2, <3>4, <4>1, <4>2
    <3> QED
      BY <1>0, <1>1, <3>2, <3>3, <3>4 DEF HashOK
  <2> QED
    BY <2>3, <2>4
<1> QED
  BY <1>2, <1>3, <1>4

LEMMA HashKept ==
    ASSUME CatalogInv, HashInv, HashStep
    PROVE  HashOK(upsert', catalog, intel')
<1>0. /\ UpsertShape(upsert) /\ IntelShape(intel)
      /\ upsert.held \subseteq Digests /\ \A d \in upsert.held : catalog.scope[d] # "none"
  BY DEF HashInv, HashOK
<1>1. CASE BeginUpsert
  <2>1. PICK feed : upsert' = [NoUpsert EXCEPT !.pc = "store", !.feed = feed,
                                  !.held = {d \in catalog.host : catalog.scope[d] # "none"}]
    BY <1>1 DEF BeginUpsert
  <2>2. PICK H \in SUBSET Digests : H = {d \in catalog.host : catalog.scope[d] # "none"}
    BY DEF CatalogInv, CatalogRec
  <2>3. upsert' = [NoUpsert EXCEPT !.pc = "store", !.feed = feed, !.held = H]
    BY <2>1, <2>2
  <2>4. UpsertShape(upsert') /\ upsert'.pc = "store" /\ upsert'.held = H
    BY <2>3 DEF UpsertShape, NoUpsert
  <2>5. intel' = intel
    BY <1>1 DEF BeginUpsert
  <2> QED
    BY <1>0, <2>2, <2>4, <2>5 DEF HashOK
<1>2. CASE upsert_indicators
  <2>1. CASE upsert' = [upsert EXCEPT !.pc = "hunt", !.left = sha_hashes] /\ UNCHANGED intel
    <3>1. PICK R : R = sha_hashes
      OBVIOUS
    <3>2. upsert' = [upsert EXCEPT !.pc = "hunt", !.left = R]
      BY <2>1, <3>1
    <3>3. UpsertShape(upsert') /\ upsert'.pc = "hunt" /\ upsert'.held = upsert.held /\ upsert'.left = R /\ upsert'.feed = upsert.feed
      BY <1>0, <3>2 DEF UpsertShape
    <3>4. Named(upsert') = R
      BY <3>1, <3>3 DEF Named, sha_hashes
    <3> QED
      BY <1>0, <2>1, <3>3, <3>4 DEF HashOK
  <2>2. CASE \E i : /\ upsert.pc = "store"
                    /\ intel' = [intel EXCEPT !.stored = @ \cup {<<i.ioc_type, i.digest>>}]
                    /\ upsert' = [upsert EXCEPT !.at = @ + 1]
    <3>1. PICK i : intel' = [intel EXCEPT !.stored = @ \cup {<<i.ioc_type, i.digest>>}]
      BY <2>2
    <3>2. PICK S, a : S = intel.stored \cup {<<i.ioc_type, i.digest>>} /\ a = upsert.at + 1
      OBVIOUS
    <3>3. intel' = [intel EXCEPT !.stored = S] /\ upsert' = [upsert EXCEPT !.at = a] /\ upsert.pc = "store"
      BY <2>2, <3>1, <3>2
    <3>4. UpsertShape(upsert') /\ upsert'.pc = "store" /\ upsert'.held = upsert.held /\ IntelShape(intel')
      BY <1>0, <3>3 DEF UpsertShape, IntelShape
    <3> QED
      BY <1>0, <3>4 DEF HashOK
  <2> QED
    BY <1>2, <2>1, <2>2 DEF upsert_indicators
<1>3. CASE hash_hunt
  <2>1. intel' = intel
    BY <1>3 DEF hash_hunt
  <2> QED
    BY <1>3, <2>1, HuntKept
<1>4. CASE record
  <2>1. PICK d \in upsert.hits, fired \in BOOLEAN :
          /\ intel' = [intel EXCEPT !.detected = @ \cup {d}, !.fired = IF fired THEN @ \cup {d} ELSE @]
          /\ upsert' = [upsert EXCEPT !.hits = @ \ {d}]
    BY <1>4 DEF record
  <2>2. PICK D, F, S : D = intel.detected \cup {d} /\ F = (IF fired THEN intel.fired \cup {d} ELSE intel.fired) /\ S = upsert.hits \ {d}
    OBVIOUS
  <2>3. intel' = [intel EXCEPT !.detected = D, !.fired = F] /\ upsert' = [upsert EXCEPT !.hits = S]
    BY <2>1, <2>2
  <2>4. /\ UpsertShape(upsert') /\ IntelShape(intel') /\ upsert'.pc = upsert.pc /\ upsert'.feed = upsert.feed
        /\ upsert'.held = upsert.held /\ upsert'.hits = S /\ upsert'.record = upsert.record
        /\ intel'.auto = intel.auto /\ intel'.detected = D
    BY <1>0, <2>3 DEF UpsertShape, IntelShape
  <2>5. Named(upsert') = Named(upsert) /\ \A n : ToFind(upsert', catalog, n) <=> ToFind(upsert, catalog, n)
    BY <2>4 DEF Named, ToFind
  <2>6. upsert.pc = "detect"
    BY <1>4 DEF record
  <2>7. intel.auto => \A n \in Named(upsert) :
           ToFind(upsert, catalog, n) => upsert.feed[n].digest \in intel.detected \cup upsert.hits /\ upsert.record # "no_hits"
    BY <2>6 DEF HashInv, HashOK
  <2>8. intel.detected \cup upsert.hits \subseteq D \cup S
    BY <2>2
  <2> QED
    BY <1>0, <2>4, <2>5, <2>6, <2>7, <2>8 DEF HashOK
<1>5. CASE insert_record
  <2>1. upsert.pc = "detect" /\ upsert.hits = {} /\ upsert' = [upsert EXCEPT !.pc = "answered"] /\ intel' = intel
    BY <1>5 DEF insert_record
  <2>2. /\ UpsertShape(upsert') /\ upsert'.pc = "answered" /\ upsert'.feed = upsert.feed
        /\ upsert'.held = upsert.held /\ upsert'.hits = upsert.hits /\ upsert'.record = upsert.record
    BY <1>0, <2>1 DEF UpsertShape
  <2>3. Named(upsert') = Named(upsert) /\ \A n : ToFind(upsert', catalog, n) <=> ToFind(upsert, catalog, n)
    BY <2>2 DEF Named, ToFind
  <2>4. intel.auto => \A n \in Named(upsert) :
           ToFind(upsert, catalog, n) => upsert.feed[n].digest \in intel.detected \cup upsert.hits /\ upsert.record # "no_hits"
    BY <2>1 DEF HashInv, HashOK
  <2> QED
    BY <1>0, <2>1, <2>2, <2>3, <2>4 DEF HashOK
<1>6. CASE UpsertDropped
  <2>1. upsert' = [upsert EXCEPT !.pc = "error"] /\ intel' = intel
    BY <1>6 DEF UpsertDropped
  <2>2. UpsertShape(upsert') /\ upsert'.pc = "error" /\ upsert'.held = upsert.held
    BY <1>0, <2>1 DEF UpsertShape
  <2> QED
    BY <1>0, <2>1, <2>2 DEF HashOK
<1> QED
  BY <1>1, <1>2, <1>3, <1>4, <1>5, <1>6 DEF HashStep

BootstrapInv == CatalogInv /\ ImportInv /\ HashInv

LEMMA BootstrapStep == BootstrapInv /\ [BootstrapNext]_BootstrapVars => BootstrapInv'
<1> SUFFICES ASSUME BootstrapInv, [BootstrapNext]_BootstrapVars PROVE BootstrapInv'
  OBVIOUS
<1>0. CatalogInv /\ ImportInv /\ HashInv
  BY DEF BootstrapInv
<1>1. CASE BootstrapNext
  <2>1. /\ Grows(catalog, catalog') /\ ImportInv'
        /\ HashStep \/ UNCHANGED <<upsert, intel>>
    BY <1>0, <1>1, ImportStep
  <2>2. HashOK(upsert', catalog, intel')
    BY <1>0, <2>1, HashKept DEF HashInv
  <2>3. HashOK(upsert', catalog', intel')
    BY <2>1, <2>2, HashWaits
  <2>4. CatalogInv'
    BY <2>1 DEF Grows, CatalogInv
  <2> QED
    BY <2>1, <2>3, <2>4 DEF BootstrapInv, HashInv
<1>2. CASE UNCHANGED BootstrapVars
  <2>1. UNCHANGED <<image, catalog, imp, upsert, intel>>
    BY <1>2 DEF BootstrapVars
  <2>2. ImportInv'
    BY <1>0, <2>1, GrowsSelf, ImportWaits
  <2> QED
    BY <1>0, <2>1, <2>2 DEF BootstrapInv, CatalogInv, HashInv
<1> QED
  BY <1>1, <1>2

LEMMA BootstrapAlways == BootstrapSpec => []BootstrapInv
<1>1. BootstrapInit => BootstrapInv
  <2> SUFFICES ASSUME BootstrapInit PROVE BootstrapInv
    OBVIOUS
  <2>1. CatalogInv
    BY DEF BootstrapInit, CatalogInv, CatalogRec
  <2>2. ImportInv
    BY DEF BootstrapInit, ImportInv, ImportRec, Underway, NoImport
  <2>3. PICK auto : intel = [auto |-> auto, stored |-> {}, detected |-> {}, fired |-> {}]
    BY DEF BootstrapInit
  <2>4. upsert = NoUpsert
    BY DEF BootstrapInit
  <2>5. UpsertShape(upsert) /\ IntelShape(intel) /\ upsert.pc = "idle" /\ upsert.held = {}
    BY <2>3, <2>4 DEF UpsertShape, IntelShape, NoUpsert
  <2>6. HashInv
    BY <2>5 DEF HashInv, HashOK
  <2> QED
    BY <2>1, <2>2, <2>6 DEF BootstrapInv
<1> QED
  BY <1>1, BootstrapStep, PTL DEF BootstrapSpec

\* corpusctl import: whatever else is imported, captured and hunted meanwhile, and
\* wherever a run fails, one that prints "complete" has accounted for every file
\* its source listed, and its numbers add up.
THEOREM ImportSafe == BootstrapSpec => []ImportAccounted
<1>1. BootstrapInv => ImportAccounted
  <2> SUFFICES ASSUME BootstrapInv, imp.pc = "complete" PROVE ImportAccounted
    BY DEF ImportAccounted
  <2>1. PICK s, L, A, B : s = imp.source /\ L = imp.listed /\ A = LargeOf(s, L) /\ B = NoCodeOf(s, L)
    OBVIOUS
  <2>2. Books(imp, L, A, B) /\ imp.todo = {} /\ Reported(imp, catalog, A)
    BY <2>1 DEF BootstrapInv, ImportInv, Underway, AtFile
  <2>3. L \ imp.todo = L /\ A \ imp.todo = A /\ A \cap L = A /\ B \cap L = B
    BY <2>1, <2>2, Lists
  <2>4. /\ imp.mine \subseteq L \ (A \cup B)
        /\ imp.captured + imp.dedup = Cardinality(imp.mine)
        /\ imp.too_large = Cardinality(A) /\ imp.skipped = Cardinality(B)
        /\ imp.failed = Cardinality(L \ (A \cup B \cup imp.mine))
    BY <2>2, <2>3 DEF Books
  <2>5. /\ A = IF s \in OciSources THEN L \cap LargePath ELSE {}
        /\ B = IF s \in OciSources THEN L \ (LargePath \cup CodePath) ELSE {}
    BY <2>1 DEF LargeOf, NoCodeOf
  <2> QED
    BY <2>1, <2>2, <2>3, <2>4, <2>5 DEF ImportAccounted, Large, Reported
<1> QED
  BY <1>1, BootstrapAlways, PTL

\* upsert_indicators, hash_hunt: an answered call has detected every SHA-256 it
\* named among the files hosts were known to hold when it began, however many
\* indicators it named and whatever was imported and captured meanwhile, unless
\* the bytes are an intelligence sample.
THEOREM HashSafe == BootstrapSpec => []HashIntelComplete
<1>1. BootstrapInv => HashIntelComplete
  <2> SUFFICES ASSUME BootstrapInv, upsert.pc = "answered", intel.auto PROVE HashIntelComplete
    BY DEF HashIntelComplete
  <2> DEFINE named == {i.digest : i \in {i \in ToSet(upsert.feed) : i.ioc_type \in {"sha256", "SHA256"}}}
             found == {d \in named \cap upsert.held : catalog.scope[d] # "intel"}
  <2>1. HashOK(upsert, catalog, intel)
    BY DEF BootstrapInv, HashInv
  <2>2. ASSUME NEW d \in found PROVE d \in intel.detected /\ upsert.record # "no_hits"
    <3>1. PICK i \in ToSet(upsert.feed) : i.ioc_type \in {"sha256", "SHA256"} /\ d = i.digest
      BY <2>2
    <3>2. PICK n \in DOMAIN upsert.feed : i = upsert.feed[n]
      BY <3>1 DEF ToSet
    <3>3. n \in Named(upsert) /\ ToFind(upsert, catalog, n)
      BY <2>2, <3>1, <3>2 DEF Named, ToFind
    <3> QED
      BY <2>1, <3>1, <3>2, <3>3 DEF HashOK
  <2> QED
    BY <2>2 DEF HashIntelComplete
<1> QED
  BY <1>1, BootstrapAlways, PTL
=============================================================================
