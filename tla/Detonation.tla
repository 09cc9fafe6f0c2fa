----------------------------- MODULE Detonation -----------------------------
(***************************************************************************)
(* Sending a sample to an external sandbox: the two callers of detonate,   *)
(* the detonate_artifact handler and the auto-submit policy of set_opinion,*)
(* their configuration, the audit event, submission and polling, and the   *)
(* rows a report becomes.  Requests fail, answers are lost, handlers are   *)
(* dropped, and the sandbox ends a task in its own time.  A report is the  *)
(* number of its signatures and the list of its ttps, TRUE when one has an *)
(* identifier.                                                             *)
(***************************************************************************)
EXTENDS Integers, Sequences, FiniteSets, FiniteSetsExt

CONSTANTS Submission,    \* calls of detonate
          ArtifactOf,    \* call -> the artifact it sends
          Report,        \* reports the sandbox may give, [signatures, ttps]
          MaxPolls,      \* max_polls
          FindingLimit   \* signatures and ttps taken of a report (25 in the code)

ASSUME DetonationAssumption ==
    /\ DOMAIN ArtifactOf = Submission
    /\ MaxPolls \in Nat /\ FindingLimit \in Nat \ {0}
    /\ Report \subseteq [signatures : Nat, ttps : Seq(BOOLEAN)]

VARIABLES
    denv,    \* environment: [enabled, url, token, noAuth, auto]
    dcall,   \* call -> [pc, by, polls, todo]
    task,    \* call -> task at the sandbox, with its report
    audit,   \* calls with a detonate.submit audit event
    sent,    \* calls whose bytes have left
    run,     \* call -> its analysis_run: none or the findings inserted
    dropped  \* calls that were dropped

DetonationVars == <<denv, dcall, task, audit, sent, run, dropped>>

NoTask == [state |-> "none"]
NoRun == -1

\* from_env: any value of CORPUS_DETONATION_ENABLED enables; of
\* CORPUS_DETONATION_AUTO, the policy.
DetonationEnv == [enabled : BOOLEAN, url : {"unset", "empty", "set"},
                  token : {"unset", "empty", "set"}, noAuth : BOOLEAN, auto : BOOLEAN]
validate(e) == e.enabled => e.url = "set" /\ (e.token = "set" \/ e.noAuth)

\* map_report_to_findings: bounded, and a ttp without identifier is no finding.
map_report_to_findings(r) ==
    Min({FindingLimit, r.signatures})
      + Cardinality({i \in 1..Min({FindingLimit, Len(r.ttps)}) : r.ttps[i]})

Fails(c) == dcall' = [dcall EXCEPT ![c].pc = "error"]

(***************************************************************************)
(* detonate_artifact or the policy, then detonate                          *)
(***************************************************************************)
\* The artifact is looked up, its bytes are read, the configuration checked;
\* no row, an unreadable object or a refused configuration is an error.
detonate_artifact(c) ==
    /\ dcall[c].pc = "idle"
    /\ \/ Fails(c)
       \/ /\ validate(denv) /\ denv.enabled
          /\ dcall' = [dcall EXCEPT ![c].pc = "audit", ![c].by = "handler"]
    /\ UNCHANGED <<denv, task, audit, sent, run, dropped>>

\* A malicious or suspicious verdict, in a task of its own whose errors are
\* only logged.  The policy does not call validate: any URL will do, and no
\* token.  Without artifact row or object nothing happens.
auto_submit(c) ==
    /\ dcall[c].pc = "idle"
    /\ denv.auto /\ denv.enabled /\ denv.url # "unset"
    /\ dcall' = [dcall EXCEPT ![c].pc = "audit", ![c].by = "policy"]
    /\ UNCHANGED <<denv, task, audit, sent, run, dropped>>

\* Mutant: the bytes are sent and the event is written afterwards.
AuditFirst_Later(c) ==
    /\ dcall[c].pc = "audit"
    /\ dcall' = [dcall EXCEPT ![c].pc = "submit"]
    /\ UNCHANGED <<denv, task, audit, sent, run, dropped>>
AuditFirst(c) ==
    /\ dcall[c].pc = "audit"
    /\ \/ audit' = audit \cup {c} /\ dcall' = [dcall EXCEPT ![c].pc = "submit"]
       \/ Fails(c) /\ UNCHANGED audit
    /\ UNCHANGED <<denv, task, sent, run, dropped>>

\* The sandbox gets the bytes or not, never under an empty URL; its answer
\* names the task or is lost.
submit(c) ==
    /\ dcall[c].pc = "submit"
    /\ \/ Fails(c) /\ UNCHANGED <<task, sent>>
       \/ /\ denv.url = "set"
          /\ sent' = sent \cup {c}
          /\ task' = [task EXCEPT ![c] = [state |-> "pending"]]
          /\ Fails(c) \/ dcall' = [dcall EXCEPT ![c].pc = "poll"]
    /\ UNCHANGED <<denv, audit, run, dropped>>

\* One turn of the loop.  An error of either request, a failed task and the
\* last poll without a report end the call; the task is not asked for again.
\* A task is "reported" here in either of the states that read so.
poll(c) ==
    /\ dcall[c].pc = "poll"
    /\ CASE dcall[c].polls >= MaxPolls -> Fails(c)
         [] dcall[c].polls < MaxPolls /\ task[c].state = "pending" ->
              Fails(c) \/ dcall' = [dcall EXCEPT ![c].polls = @ + 1]
         [] dcall[c].polls < MaxPolls /\ task[c].state = "reported" ->
              Fails(c) \/ dcall' = [dcall EXCEPT ![c].pc = "run",
                                        ![c].todo = map_report_to_findings(task[c].report)]
         [] OTHER -> Fails(c)
    /\ UNCHANGED <<denv, task, audit, sent, run, dropped>>

\* The sandbox ends the task.
TaskEnds(c) ==
    /\ task[c].state = "pending"
    /\ \/ task' = [task EXCEPT ![c] = [state |-> "failed"]]
       \/ \E r \in Report : task' = [task EXCEPT ![c] = [state |-> "reported", report |-> r]]
    /\ UNCHANGED <<denv, dcall, audit, sent, run, dropped>>

\* The run is inserted as completed, its findings after it, one by one.  A
\* second run of an artifact breaks the UNIQUE key of analysis_run (the three
\* digests are constant): the call fails and its report is lost.
InsertRun(c) ==
    /\ dcall[c].pc = "run"
    /\ IF \E d \in Submission : ArtifactOf[d] = ArtifactOf[c] /\ run[d] # NoRun
       THEN Fails(c) /\ UNCHANGED run
       ELSE /\ run' = [run EXCEPT ![c] = 0]
            /\ dcall' = [dcall EXCEPT ![c].pc = "findings"]
    /\ UNCHANGED <<denv, task, audit, sent, dropped>>

InsertFinding(c) ==
    /\ dcall[c].pc = "findings"
    /\ IF dcall[c].todo = 0
       THEN dcall' = [dcall EXCEPT ![c].pc = "answered"] /\ UNCHANGED run
       ELSE /\ run' = [run EXCEPT ![c] = @ + 1]
            /\ dcall' = [dcall EXCEPT ![c].todo = @ - 1]
    /\ UNCHANGED <<denv, task, audit, sent, dropped>>

\* An error of a statement, a closed connection, a restart.
DropDetonation(c) ==
    /\ dcall[c].pc \notin {"idle", "error", "answered"}
    /\ Fails(c)
    /\ dropped' = dropped \cup {c}
    /\ UNCHANGED <<denv, task, audit, sent, run>>
----------------------------------------------------------------------------
DetonationInit ==
    /\ denv \in DetonationEnv
    /\ dcall = [c \in Submission |-> [pc |-> "idle", by |-> "none", polls |-> 0, todo |-> 0]]
    /\ task = [c \in Submission |-> NoTask]
    /\ audit = {} /\ sent = {} /\ dropped = {}
    /\ run = [c \in Submission |-> NoRun]

DetonationNext ==
    \E c \in Submission :
        \/ detonate_artifact(c) \/ auto_submit(c) \/ AuditFirst(c) \/ submit(c) \/ poll(c) \/ TaskEnds(c)
        \/ InsertRun(c) \/ InsertFinding(c) \/ DropDetonation(c)
DetonationSpec == DetonationInit /\ [][DetonationNext]_DetonationVars
----------------------------------------------------------------------------
\* No sample leaves without an audit event and a configuration that enables
\* it, whatever fails afterwards: a valid one when the handler sent it, while
\* the policy sends without a token too (although validate is to "fail closed
\* when egress is enabled but CAPE is misconfigured").  Of an artifact there
\* is one run at most; it stands for a report of the sandbox and lacks
\* findings of it only while its call is under way or when the call was
\* dropped, and a call that is answered has stored all of its own.
DetonationAccounted ==
    /\ sent \subseteq audit
    /\ \A c \in sent :
         /\ denv.enabled /\ denv.url = "set"
         /\ validate(denv) \/ (dcall[c].by = "policy" /\ denv.auto)
    /\ \A c \in Submission : run[c] # NoRun =>
         /\ c \in sent /\ task[c].state = "reported"
         /\ \/ run[c] = map_report_to_findings(task[c].report)
            \/ dcall[c].pc = "findings"
            \/ c \in dropped
         /\ \A d \in Submission : run[d] # NoRun /\ ArtifactOf[d] = ArtifactOf[c] => d = c
    /\ \A c \in Submission : dcall[c].pc = "answered" => run[c] = map_report_to_findings(task[c].report)
=============================================================================
