---------------------------- MODULE IngestProofs ----------------------------
(***************************************************************************)
(* Proofs for module Ingest, for any sets of tenants, sessions, handlers,   *)
(* contents and digests.                                                    *)
(***************************************************************************)
EXTENDS Ingest, TLAPS

\* What a handler at each program point looks like.
LEMMA ReqShape ==
    ASSUME TypeOK, NEW r \in Requests
    PROVE  /\ req[r].pc \in {"record", "open"} => req[r] \in AnnounceReq
           /\ req[r].pc = "stage" => req[r] \in StageReq
           /\ req[r].pc \in FinalizePcs => req[r] \in FinalizeReq
  BY DEF TypeOK, Idle, AnnounceReq, StageReq, FinalizeReq, FinalizePcs

\* A handler that returns becomes idle, one that goes on keeps its arguments;
\* the other handlers are not touched.
LEMMA ReturnReq ==
    ASSUME TypeOK, NEW r \in Requests, Return(r)
    PROVE  /\ req'[r] = Idle /\ req'[r].pc = "idle"
           /\ \A q \in Requests : q # r => req'[q] = req[q]
  BY DEF TypeOK, Return, Idle

LEMMA GotoReq ==
    ASSUME TypeOK, NEW r \in Requests, req[r] \in FinalizeReq, NEW pc, Goto(r, pc)
    PROVE  /\ req'[r].pc = pc /\ req'[r].tenant = req[r].tenant
           /\ req'[r].upload = req[r].upload /\ req'[r].args = req[r].args
           /\ req'[r].bytes = req[r].bytes
           /\ \A q \in Requests : q # r => req'[q] = req[q]
  BY DEF TypeOK, Goto, FinalizeReq

\* A request whose scope the server does not know never reaches the commit.
LEMMA ScopeStep ==
    ASSUME TypeOK, [Next]_vars
    PROVE  AcceptedScope'
<1> USE DEF AcceptedScope
<1>0. AcceptedScope
  BY DEF TypeOK
<1>1. ASSUME NEW r \in Requests, req'[r].pc \notin {"exists", "remove", "rename", "commit_tx"},
             \A q \in Requests : q # r => req'[q] = req[q]
      PROVE  AcceptedScope'
  BY <1>0, <1>1
<1>2. ASSUME NEW r \in Requests, Return(r) PROVE AcceptedScope'
  BY <1>1, <1>2, ReturnReq
<1>3. ASSUME NEW r \in Requests, req[r].pc \in {"exists", "remove", "rename", "commit_tx"},
             NEW pc, Goto(r, pc)
      PROVE  AcceptedScope'
  <2>1. req[r] \in FinalizeReq
    BY <1>3, ReqShape DEF FinalizePcs
  <2> QED
    BY <1>0, <1>3, <2>1, GotoReq
<1>4. ASSUME NEW r \in Requests, NEW t \in Tenants, NEW a \in Announces,
             AnnounceSelect(r, t, a)
      PROVE  AcceptedScope'
  BY <1>1, <1>4 DEF AnnounceSelect, TypeOK
<1>5. ASSUME NEW r \in Requests, NEW t \in Tenants, NEW u \in Uploads, NEW b \in Bytes,
             StageSelect(r, t, u, b)
      PROVE  AcceptedScope'
  BY <1>1, <1>5 DEF StageSelect, TypeOK
<1>6. ASSUME NEW r \in Requests, NEW t \in Tenants, NEW u \in Uploads, NEW f \in Finalizes,
             FinalizeSelect(r, t, u, f)
      PROVE  AcceptedScope'
  BY <1>1, <1>6 DEF FinalizeSelect, TypeOK
<1>7. ASSUME NEW r \in Requests, FinalizeRead(r) PROVE AcceptedScope'
  <2>1. req[r] \in FinalizeReq
    BY <1>7, ReqShape DEF FinalizeRead, FinalizePcs
  <2> QED
    BY <1>0, <1>7, <2>1 DEF FinalizeRead, Verdict, TypeOK, Return, Idle, FinalizeReq
<1>8. ASSUME NEW r \in Requests, SizeDiscard(r) \/ MismatchTx(r) PROVE AcceptedScope'
  <2>1. req[r] \in FinalizeReq
    BY <1>8, ReqShape DEF SizeDiscard, MismatchTx, FinalizePcs
  <2> QED
    BY <1>1, <1>8, <2>1, GotoReq DEF SizeDiscard, MismatchTx
<1>9. ASSUME NEW r \in Requests,
             \/ AnnounceRecord(r) \/ AnnounceOpen(r) \/ StageWrite(r) \/ mark_session_failed(r)
             \/ RejectDiscard(r) \/ FinalizeHooks(r) \/ Abort(r)
      PROVE  AcceptedScope'
  BY <1>2, <1>9 DEF AnnounceRecord, AnnounceOpen, StageWrite, mark_session_failed,
     RejectDiscard, FinalizeHooks, Abort
<1>10. ASSUME NEW r \in Requests,
              CommitExists(r) \/ CommitRemove(r) \/ CommitRename(r) \/ FinalizeTx(r)
       PROVE  AcceptedScope'
  BY <1>2, <1>3, <1>10 DEF CommitExists, CommitRemove, CommitRename, FinalizeTx
<1>11. CASE UNCHANGED vars
  BY <1>0, <1>11 DEF vars
<1> QED
  BY <1>4, <1>5, <1>6, <1>7, <1>8, <1>9, <1>10, <1>11 DEF Next

\* Every variable keeps its type: the handlers only write values of the
\* tables' column types.
THEOREM TypeCorrect == Spec => []TypeOK
<1>1. Init => TypeOK
  BY DEF Init, TypeOK, AcceptedScope, Keys, Idle
<1>2. TypeOK /\ [Next]_vars => TypeOK'
  <2> SUFFICES ASSUME TypeOK, [Next]_vars PROVE TypeOK'
    OBVIOUS
  <2>0. AcceptedScope'
    BY ScopeStep
  <2> USE <2>0
  <2>1. ASSUME NEW r \in Requests, NEW t \in Tenants, NEW a \in Announces,
               AnnounceSelect(r, t, a)
        PROVE  TypeOK'
    <3>1. a \in AnnounceInputs
      BY IngestAssumption
    <3> QED
      BY <2>1, <3>1 DEF AnnounceSelect, TypeOK, database, history, AnnounceReq, object_key
  <2>2. ASSUME NEW r \in Requests, AnnounceRecord(r) PROVE TypeOK'
    <3>1. req[r] \in AnnounceReq
      BY <2>2, ReqShape DEF AnnounceRecord
    <3> QED
      BY <2>2, <3>1 DEF AnnounceRecord, TypeOK, history, Return, insert_occurrence,
         insert_capture_attempt, AnnounceReq, AnnounceInputs, OccOpt, Outcomes
  <2>3. ASSUME NEW r \in Requests, AnnounceOpen(r) PROVE TypeOK'
    <3>1. req[r] \in AnnounceReq
      BY <2>3, ReqShape DEF AnnounceOpen
    <3> QED
      BY <2>3, <3>1 DEF AnnounceOpen, TypeOK, history, Return, States, AnnounceReq
  <2>4. ASSUME NEW r \in Requests, NEW t \in Tenants, NEW u \in Uploads, NEW b \in Bytes,
               StageSelect(r, t, u, b)
        PROVE  TypeOK'
    BY <2>4 DEF StageSelect, TypeOK, database, StageReq, Overlap
  <2>5. ASSUME NEW r \in Requests, StageWrite(r) PROVE TypeOK'
    <3>1. req[r] \in StageReq
      BY <2>5, ReqShape DEF StageWrite
    <3> QED
      BY <2>5, <3>1 DEF StageWrite, TypeOK, database, Return, StageReq
  <2>6. ASSUME NEW r \in Requests, NEW t \in Tenants, NEW u \in Uploads, NEW f \in Finalizes,
               FinalizeSelect(r, t, u, f)
        PROVE  TypeOK'
    <3>1. f \in FinalizeInputs
      BY IngestAssumption
    <3> QED
      BY <2>6, <3>1 DEF FinalizeSelect, TypeOK, database, FinalizeReq, FinalizePcs, Overlap
  <2>7. ASSUME NEW r \in Requests, FinalizeRead(r) PROVE TypeOK'
    <3>1. req[r] \in FinalizeReq
      BY <2>7, ReqShape DEF FinalizeRead, FinalizePcs
    <3>2. \A b \in Bytes : Verdict(req[r].args, b) \in FinalizePcs
      BY DEF Verdict, FinalizePcs
    <3> QED
      BY <2>7, <3>1, <3>2 DEF FinalizeRead, TypeOK, database, history, Return, FinalizeReq
  <2>8. ASSUME NEW r \in Requests,
               \/ SizeDiscard(r) \/ mark_session_failed(r) \/ MismatchTx(r)
               \/ RejectDiscard(r) \/ CommitExists(r) \/ CommitRemove(r)
               \/ CommitRename(r) \/ FinalizeTx(r) \/ FinalizeHooks(r)
        PROVE  TypeOK'
    <3>1. req[r] \in FinalizeReq
      BY <2>8, ReqShape DEF SizeDiscard, mark_session_failed, MismatchTx, RejectDiscard,
         CommitExists, CommitRemove, CommitRename, FinalizeTx, FinalizeHooks, FinalizePcs
    <3>2. \A pc \in FinalizePcs : Goto(r, pc) => req' \in
             [Requests -> {Idle} \cup AnnounceReq \cup StageReq \cup FinalizeReq]
      <4> SUFFICES ASSUME NEW pc \in FinalizePcs, Goto(r, pc)
                   PROVE  req' \in
                     [Requests -> {Idle} \cup AnnounceReq \cup StageReq \cup FinalizeReq]
        OBVIOUS
      <4>1. [req[r] EXCEPT !.pc = pc] \in FinalizeReq
        BY <3>1 DEF FinalizeReq
      <4> QED
        BY <4>1 DEF Goto, TypeOK
    <3>3. Return(r) => req' \in
             [Requests -> {Idle} \cup AnnounceReq \cup StageReq \cup FinalizeReq]
      BY DEF Return, TypeOK
    <3> USE <3>1, <3>2, <3>3
    <3>a. CASE SizeDiscard(r)
      BY <3>a DEF SizeDiscard, TypeOK, database, history, discard_staging, FinalizePcs, FinalizeReq
    <3>b. CASE mark_session_failed(r)
      BY <3>b DEF mark_session_failed, TypeOK, history, States, FinalizeReq
    <3>c. CASE MismatchTx(r)
      BY <3>c DEF MismatchTx, TypeOK, history, States, Outcomes, insert_capture_attempt,
         FinalizePcs, FinalizeReq, FinalizeInputs
    <3>d. CASE RejectDiscard(r)
      BY <3>d DEF RejectDiscard, TypeOK, database, history, discard_staging, FinalizeReq
    <3>e. CASE CommitExists(r)
      BY <3>e DEF CommitExists, TypeOK, database, history, FinalizePcs
    <3>f. CASE CommitRemove(r)
      BY <3>f DEF CommitRemove, TypeOK, database, history, discard_staging, FinalizePcs, FinalizeReq
    <3>g. CASE CommitRename(r)
      BY <3>g DEF CommitRename, TypeOK, database, discard_staging, FinalizePcs, FinalizeReq,
         FinalizeInputs, object_key, Keys
    <3>i. CASE FinalizeTx(r)
      BY <3>i DEF FinalizeTx, TypeOK, AcceptedScope, history, insert_occurrence, insert_capture_attempt, States,
         Outcomes, FinalizePcs, FinalizeReq, FinalizeInputs, OccOpt, object_key, Keys
    <3>j. CASE FinalizeHooks(r)
      BY <3>j DEF FinalizeHooks, TypeOK, database, history
    <3> QED
      BY <2>8, <3>a, <3>b, <3>c, <3>d, <3>e, <3>f, <3>g, <3>i, <3>j
  <2>9. ASSUME NEW r \in Requests, Abort(r) PROVE TypeOK'
    BY <2>9 DEF Abort, TypeOK, database, history, Return
  <2>10. CASE UNCHANGED vars
    BY <2>10 DEF vars, TypeOK
  <2> QED
    BY <2>1, <2>2, <2>3, <2>4, <2>5, <2>6, <2>7, <2>8, <2>9, <2>10 DEF Next
<1> QED
  BY <1>1, <1>2, PTL DEF Spec

(***************************************************************************)
(* The inductive invariant                                                  *)
(***************************************************************************)
Key(r) == object_key(req[r].tenant, req[r].args.sha)

\* A session id that is not in use has neither a tenant nor a file.
FreshSessions == \A u \in Uploads : state[u] = None => owner[u] = None /\ staging[u] = None

\* A handler past its lookup works for the tenant that owns the session.
HandlerOwnsSession ==
    \A r \in Requests, u \in Uploads : Busy(r, u) => owner[u] = req[r].tenant

\* A staged file holds bytes its tenant uploaded.
StagedByOwner ==
    \A u \in Uploads : staging[u] # None => <<owner[u], staging[u]>> \in uploaded

OwnershipInv ==
    FreshSessions /\ HandlerOwnsSession /\ StagedByOwner /\ TenantIsolation

\* The object is there before a handler inserts the row over it, and the row
\* is there before a dedup hit is recorded against it.
ObjectFirst ==
    \A r \in Requests :
        /\ req[r].pc \in {"remove", "commit_tx"} => objects[Key(r)] # None
        /\ req[r].pc = "record" => artifact[Key(r)] # None

CommitInv == ObjectFirst /\ StoredArtifacts /\ EvidenceBacked

\* Two handlers work on the same session only if it is marked overlapped.
Exclusive ==
    \A q, r \in Requests, u \in Uploads :
        Busy(q, u) /\ Busy(r, u) /\ u \notin overlapped => q = r

\* What a lone handler knows of its session's state.
ExpectedState(pc) == IF pc = "hooks" THEN "committed"
                     ELSE IF pc = "mismatch_discard" THEN "failed"
                     ELSE "open"
LoneState ==
    \A r \in Requests, u \in Uploads :
        Busy(r, u) /\ u \notin overlapped => state[u] = ExpectedState(req[r].pc)

\* The bytes that passed the digest check are, for a lone handler, still the
\* bytes in the staged file when it is promoted; then the file is gone.
VerifiedAt(r) ==
    /\ req[r].pc \in {"exists", "remove", "rename"} =>
          /\ req[r].bytes \in Bytes
          /\ sha256[req[r].bytes] = req[r].args.sha
          /\ req[r].upload \notin overlapped => staging[req[r].upload] = req[r].bytes
    /\ req[r].pc = "commit_tx" /\ req[r].upload \notin overlapped =>
          staging[req[r].upload] = None
VerifiedBytes == \A r \in Requests : VerifiedAt(r)

IntegrityInv ==
    /\ Exclusive /\ LoneState /\ VerifiedBytes
    /\ DisciplinedIntegrity /\ CommittedSwept

IInv == OwnershipInv /\ CommitInv /\ IntegrityInv

(***************************************************************************)
(* Steps of the inductive invariant                                         *)
(***************************************************************************)
\* Reading one tenant's file into another tenant's namespace would need a
\* handler that works on a session it does not own.
LEMMA OwnershipStep ==
    ASSUME TypeOK, OwnershipInv, [Next]_vars
    PROVE  OwnershipInv'
<1> USE DEF OwnershipInv, FreshSessions, HandlerOwnsSession, StagedByOwner, TenantIsolation,
        Busy, FinalizePcs, database, history
<1>1. ASSUME NEW r \in Requests, NEW t \in Tenants, NEW a \in Announces,
             AnnounceSelect(r, t, a)
      PROVE  OwnershipInv'
  BY <1>1 DEF AnnounceSelect, TypeOK
<1>2. ASSUME NEW r \in Requests, AnnounceRecord(r) PROVE OwnershipInv'
  BY <1>2 DEF AnnounceRecord, TypeOK, Return, Idle
<1>3. ASSUME NEW r \in Requests, AnnounceOpen(r) PROVE OwnershipInv'
  <2>1. req[r] \in AnnounceReq
    BY <1>3, ReqShape DEF AnnounceOpen
  <2>2. PICK u \in Uploads : /\ state[u] = None
                             /\ state' = [state EXCEPT ![u] = "open"]
                             /\ owner' = [owner EXCEPT ![u] = req[r].tenant]
    BY <1>3 DEF AnnounceOpen
  <2>3. \A q \in Requests : Busy(q, u) => req[q].tenant \in Tenants
    BY ReqShape DEF StageReq, FinalizeReq
  <2>4. \A q \in Requests : ~Busy(q, u)
    BY <2>2, <2>3, IngestAssumption
  <2> QED
    BY <1>3, <2>2, <2>4, IngestAssumption DEF AnnounceOpen, TypeOK, Return, Idle, States
<1>4. ASSUME NEW r \in Requests, NEW t \in Tenants, NEW u \in Uploads, NEW b \in Bytes,
             StageSelect(r, t, u, b)
      PROVE  OwnershipInv'
  BY <1>4 DEF StageSelect, TypeOK, FindOpen
<1>5. ASSUME NEW r \in Requests, StageWrite(r) PROVE OwnershipInv'
  <2>1. req[r] \in StageReq
    BY <1>5, ReqShape DEF StageWrite
  <2> QED
    BY <1>5, <2>1, IngestAssumption DEF StageWrite, TypeOK, Return, Idle, StageReq
<1>6. ASSUME NEW r \in Requests, NEW t \in Tenants, NEW u \in Uploads, NEW f \in Finalizes,
             FinalizeSelect(r, t, u, f)
      PROVE  OwnershipInv'
  BY <1>6 DEF FinalizeSelect, TypeOK, FindOpen
<1>7. ASSUME NEW r \in Requests, FinalizeRead(r) PROVE OwnershipInv'
  BY <1>7, ReqShape DEF FinalizeRead, TypeOK, Return, Idle, FinalizeReq
<1>8. ASSUME NEW r \in Requests,
             SizeDiscard(r) \/ RejectDiscard(r) \/ CommitExists(r) \/ CommitRemove(r)
      PROVE  OwnershipInv'
  BY <1>8, ReqShape DEF SizeDiscard, RejectDiscard, CommitExists, CommitRemove, discard_staging,
     TypeOK, Return, Goto, Idle, FinalizeReq
<1>9. ASSUME NEW r \in Requests, mark_session_failed(r) \/ MismatchTx(r) \/ FinalizeTx(r)
      PROVE  OwnershipInv'
  <2>1. req[r] \in FinalizeReq
    BY <1>9, ReqShape DEF mark_session_failed, MismatchTx, FinalizeTx
  <2>2. \A q \in Requests : /\ req'[q].pc = req[q].pc \/ q = r
                            /\ req'[q].pc # "idle" => /\ req'[q].tenant = req[q].tenant
                                                     /\ req'[q].upload = req[q].upload
    BY <1>9, <2>1, ReturnReq, GotoReq DEF mark_session_failed, MismatchTx, FinalizeTx
  <2>3. HandlerOwnsSession'
    BY <1>9, <2>1, <2>2 DEF mark_session_failed, MismatchTx, FinalizeTx, FinalizeReq
  <2>4. FreshSessions'
    BY <1>9, <2>1, IngestAssumption DEF mark_session_failed, MismatchTx, FinalizeTx, TypeOK,
       FinalizeReq, States
  <2>5. StagedByOwner' /\ TenantIsolation'
    BY <1>9 DEF mark_session_failed, MismatchTx, FinalizeTx, object_key
  <2> QED
    BY <2>3, <2>4, <2>5
<1>10. ASSUME NEW r \in Requests, CommitRename(r) PROVE OwnershipInv'
  <2>1. req[r] \in FinalizeReq
    BY <1>10, ReqShape DEF CommitRename
  <2>2. FreshSessions' /\ HandlerOwnsSession' /\ StagedByOwner'
    BY <1>10, <2>1 DEF CommitRename, discard_staging, TypeOK, Return, Goto, Idle, FinalizeReq
  <2>3. TenantIsolation'
    <3>1. CASE staging[req[r].upload] = None
      BY <1>10, <3>1 DEF CommitRename, object_key
    <3>2. CASE staging[req[r].upload] # None
      <4>1. <<req[r].tenant, staging[req[r].upload]>> \in uploaded
        BY <1>10, <2>1, <3>2 DEF CommitRename, FinalizeReq
      <4>2. objects' = [objects EXCEPT ![<<req[r].tenant, req[r].args.sha>>] = staging[req[r].upload]]
        BY <1>10, <3>2 DEF CommitRename, object_key
      <4> QED
        BY <1>10, <4>1, <4>2 DEF CommitRename, object_key, TypeOK, Keys
    <3> QED
      BY <3>1, <3>2
  <2> QED
    BY <2>2, <2>3
<1>11. ASSUME NEW r \in Requests, FinalizeHooks(r) \/ Abort(r) PROVE OwnershipInv'
  BY <1>11 DEF FinalizeHooks, Abort, TypeOK, Return, Idle
<1>12. CASE UNCHANGED vars
  BY <1>12 DEF vars, object_key
<1> QED
  BY <1>1, <1>2, <1>3, <1>4, <1>5, <1>6, <1>7, <1>8, <1>9, <1>10, <1>11, <1>12 DEF Next

\* The order of finalize (object, then row, then evidence) survives every
\* interleaving because nothing ever removes an object or a row.
LEMMA CommitStep ==
    ASSUME TypeOK, CommitInv, [Next]_vars
    PROVE  CommitInv'
<1> USE DEF CommitInv, ObjectFirst, StoredArtifacts, EvidenceBacked, Key,
        object_key, database, history
<1>1. ASSUME NEW r \in Requests, NEW t \in Tenants, NEW a \in Announces,
             AnnounceSelect(r, t, a)
      PROVE  CommitInv'
  BY <1>1 DEF AnnounceSelect, TypeOK
<1>2. ASSUME NEW r \in Requests, AnnounceRecord(r) PROVE CommitInv'
  <2>1. req[r] \in AnnounceReq
    BY <1>2, ReqShape DEF AnnounceRecord
  <2>2. EvidenceBacked'
    BY <1>2, <2>1 DEF AnnounceRecord, insert_occurrence, insert_capture_attempt, TypeOK,
       AnnounceReq, AnnounceInputs, OccOpt
  <2> QED
    BY <1>2, <2>2 DEF AnnounceRecord, TypeOK, Return, Idle
<1>3. ASSUME NEW r \in Requests, AnnounceOpen(r) PROVE CommitInv'
  BY <1>3 DEF AnnounceOpen, TypeOK, Return, Idle
<1>4. ASSUME NEW r \in Requests, NEW t \in Tenants, NEW u \in Uploads, NEW b \in Bytes,
             StageSelect(r, t, u, b)
      PROVE  CommitInv'
  BY <1>4 DEF StageSelect, TypeOK
<1>5. ASSUME NEW r \in Requests, StageWrite(r) PROVE CommitInv'
  BY <1>5 DEF StageWrite, TypeOK, Return, Idle
<1>6. ASSUME NEW r \in Requests, NEW t \in Tenants, NEW u \in Uploads, NEW f \in Finalizes,
             FinalizeSelect(r, t, u, f)
      PROVE  CommitInv'
  BY <1>6 DEF FinalizeSelect, TypeOK
<1>7. ASSUME NEW r \in Requests, FinalizeRead(r) PROVE CommitInv'
  <2>1. req[r] \in FinalizeReq
    BY <1>7, ReqShape DEF FinalizeRead, FinalizePcs
  <2>3. ObjectFirst'
    BY <1>7, <2>1 DEF FinalizeRead, Verdict, TypeOK, Return, Idle, FinalizeReq
  <2> QED
    BY <1>7, <2>3 DEF FinalizeRead
<1>8. ASSUME NEW r \in Requests,
             SizeDiscard(r) \/ RejectDiscard(r) \/ CommitExists(r) \/ CommitRemove(r)
      PROVE  CommitInv'
  <2>1. req[r] \in FinalizeReq
    BY <1>8, ReqShape DEF SizeDiscard, RejectDiscard, CommitExists, CommitRemove, FinalizePcs
  <2>3. ObjectFirst'
    BY <1>8, <2>1, ReturnReq, GotoReq DEF SizeDiscard, RejectDiscard, CommitExists, CommitRemove
  <2> QED
    BY <1>8, <2>3 DEF SizeDiscard, RejectDiscard, CommitExists, CommitRemove
<1>9. ASSUME NEW r \in Requests, mark_session_failed(r) \/ MismatchTx(r)
      PROVE  CommitInv'
  <2>1. req[r] \in FinalizeReq
    BY <1>9, ReqShape DEF mark_session_failed, MismatchTx, FinalizePcs
  <2>2. ObjectFirst'
    BY <1>9, <2>1, ReturnReq, GotoReq DEF mark_session_failed, MismatchTx
  <2>3. StoredArtifacts' /\ EvidenceBacked'
    BY <1>9 DEF mark_session_failed, MismatchTx, insert_capture_attempt
  <2> QED
    BY <2>2, <2>3
<1>10. ASSUME NEW r \in Requests, CommitRename(r) PROVE CommitInv'
  <2>1. req[r] \in FinalizeReq
    BY <1>10, ReqShape DEF CommitRename, FinalizePcs
  <2>2. \A k \in Keys : objects[k] # None => objects'[k] # None
    BY <1>10, <2>1 DEF CommitRename, TypeOK
  <2>3. req'[r] # Idle => objects'[Key(r)] # None
    <3>1. Key(r) \in Keys
      BY <2>1 DEF Keys, FinalizeReq, FinalizeInputs
    <3>2. req'[r] # Idle => staging[req[r].upload] # None
      BY <1>10 DEF CommitRename, TypeOK, Return
    <3> QED
      BY <1>10, <3>1, <3>2 DEF CommitRename, TypeOK
  <2>4. \A q \in Requests : req[q].pc \in {"remove", "commit_tx"} => Key(q) \in Keys
    BY ReqShape DEF FinalizeReq, FinalizeInputs, FinalizePcs, Keys
  <2>6. ObjectFirst'
    <3>1. artifact' = artifact
      BY <1>10 DEF CommitRename
    <3>2. CASE staging[req[r].upload] = None
      BY <1>10, <3>1, <3>2, ReturnReq DEF CommitRename
    <3>3. CASE staging[req[r].upload] # None
      <4>1. Goto(r, "commit_tx")
        BY <1>10, <3>3 DEF CommitRename
      <4> QED
        BY <2>1, <2>2, <2>3, <2>4, <3>1, <4>1, GotoReq DEF Idle
    <3> QED
      BY <3>2, <3>3
  <2>7. StoredArtifacts' /\ EvidenceBacked'
    BY <1>10, <2>2 DEF CommitRename
  <2> QED
    BY <2>6, <2>7
<1>11. ASSUME NEW r \in Requests, FinalizeTx(r) PROVE CommitInv'
  <2>1. req[r] \in FinalizeReq /\ req[r].args.scope \in Scopes
    BY <1>11, ReqShape DEF FinalizeTx, FinalizePcs, TypeOK, AcceptedScope
  <2>2. \A k \in Keys : artifact[k] # None => artifact'[k] # None
    BY <1>11 DEF FinalizeTx, TypeOK
  <2>3. Key(r) \in Keys /\ artifact'[Key(r)] # None
    BY <1>11, <2>1, IngestAssumption DEF FinalizeTx, TypeOK, Keys, FinalizeReq, FinalizeInputs,
       ScopeInputs
  <2>5. ObjectFirst'
    <3>1. \A q \in Requests : req[q].pc = "record" => Key(q) \in Keys
      BY ReqShape DEF AnnounceReq, AnnounceInputs, Keys
    <3> QED
      BY <1>11, <2>1, <2>2, <3>1 DEF FinalizeTx, TypeOK, Goto, FinalizeReq
  <2>6. StoredArtifacts'
    BY <1>11, <2>1 DEF FinalizeTx, TypeOK
  <2>7. EvidenceBacked'
    <3>1. ASSUME NEW t \in Tenants, NEW o \in OccKeys, ledger'[<<t, o>>] # None
          PROVE  artifact'[<<t, ledger'[<<t, o>>]>>] # None
      <4>1. CASE ledger'[<<t, o>>] = ledger[<<t, o>>]
        BY <2>2, <3>1, <4>1 DEF TypeOK, Keys
      <4>2. CASE ledger'[<<t, o>>] # ledger[<<t, o>>]
        BY <1>11, <2>1, <2>3, <4>2 DEF FinalizeTx, insert_occurrence, TypeOK, FinalizeReq,
           FinalizeInputs
      <4> QED
        BY <4>1, <4>2
    <3>2. ASSUME NEW a \in attempts', a.outcome # "HASH_MISMATCH"
          PROVE  artifact'[<<a.tenant, a.sha>>] # None
      <4>1. CASE a \in attempts
        BY <2>2, <3>2, <4>1 DEF TypeOK, Keys
      <4>2. CASE a \notin attempts
        BY <1>11, <2>3, <3>2, <4>2 DEF FinalizeTx, insert_capture_attempt
      <4> QED
        BY <4>1, <4>2
    <3> QED
      BY <3>1, <3>2
  <2> QED
    BY <2>5, <2>6, <2>7
<1>12. ASSUME NEW r \in Requests, FinalizeHooks(r) \/ Abort(r) PROVE CommitInv'
  <2>1. ObjectFirst'
    BY <1>12, ReturnReq DEF FinalizeHooks, Abort
  <2>2. StoredArtifacts' /\ EvidenceBacked'
    BY <1>12 DEF FinalizeHooks, Abort
  <2> QED
    BY <2>1, <2>2
<1>13. CASE UNCHANGED vars
  <2>1. ObjectFirst'
    BY <1>13 DEF vars
  <2>2. StoredArtifacts' /\ EvidenceBacked'
    BY <1>13 DEF vars
  <2> QED
    BY <2>1, <2>2
<1> QED
  BY <1>1, <1>2, <1>3, <1>4, <1>5, <1>6, <1>7, <1>8, <1>9, <1>10, <1>11, <1>12, <1>13 DEF Next

\* A stage or finalize call that starts on a session marks it overlapped when
\* another is in flight; a handler alone on its session is the only one that
\* touches the staged file and the session row.
LEMMA IntegrityStart ==
    ASSUME TypeOK, IntegrityInv, NEW r \in Requests, NEW u \in Uploads,
           req[r] = Idle, state[u] = "open",
           overlapped' = overlapped \cup Overlap(u),
           UNCHANGED <<state, staging, objects, origin>>,
           req'[r].pc \in {"stage", "read"}, req'[r].upload = u,
           \A q \in Requests : q # r => req'[q] = req[q]
    PROVE  IntegrityInv'
<1> USE DEF Busy
<1>1. ~Busy(r, u) /\ ~\E v \in Uploads : Busy(r, v)
  BY DEF Idle, FinalizePcs
<1>2. Exclusive'
  BY <1>1 DEF IntegrityInv, Exclusive, Overlap
<1>3. LoneState'
  BY DEF IntegrityInv, LoneState, ExpectedState, Overlap
<1>4. VerifiedBytes'
  BY DEF IntegrityInv, VerifiedBytes, VerifiedAt
<1>5. DisciplinedIntegrity' /\ CommittedSwept'
  BY DEF IntegrityInv, DisciplinedIntegrity, CommittedSwept
<1> QED
  BY <1>2, <1>3, <1>4, <1>5 DEF IntegrityInv

\* A step of a handler on its own session u.
LEMMA IntegrityLocal ==
    ASSUME TypeOK, IntegrityInv, NEW r \in Requests, NEW u \in Uploads, Busy(r, u),
           overlapped' = overlapped,
           \A q \in Requests : q # r => req'[q] = req[q],
           \A v \in Uploads : v # u => state'[v] = state[v] /\ staging'[v] = staging[v],
           \/ req'[r].pc = "idle"
           \/ /\ req'[r].upload = u
              /\ u \notin overlapped => state'[u] = ExpectedState(req'[r].pc)
              /\ VerifiedAt(r)',
           u \notin overlapped /\ state'[u] = "committed" => staging'[u] = None,
           DisciplinedIntegrity'
    PROVE  IntegrityInv'
<1> USE DEF Busy
<1>1. Exclusive'
  BY DEF IntegrityInv, Exclusive, FinalizePcs
<1>2. ASSUME NEW q \in Requests, q # r, NEW v \in Uploads, Busy(q, v), v \notin overlapped
      PROVE  state'[v] = state[v] /\ staging'[v] = staging[v]
  BY <1>2 DEF IntegrityInv, Exclusive
<1>3. LoneState'
  BY <1>2 DEF IntegrityInv, LoneState, FinalizePcs
<1>4. VerifiedBytes'
  <2>1. ASSUME NEW q \in Requests, q # r PROVE VerifiedAt(q)'
    <3>1. VerifiedAt(q)
      BY DEF IntegrityInv, VerifiedBytes
    <3>2. CASE req[q].pc \in {"exists", "remove", "rename", "commit_tx"}
      <4>1. req[q].upload \in Uploads /\ Busy(q, req[q].upload)
        BY <3>2, ReqShape DEF FinalizeReq, FinalizePcs
      <4> QED
        BY <1>2, <2>1, <3>1, <4>1 DEF VerifiedAt
    <3> QED
      BY <2>1, <3>2 DEF VerifiedAt
  <2>2. VerifiedAt(r)'
    BY DEF VerifiedAt
  <2> QED
    BY <2>1, <2>2 DEF VerifiedBytes
<1>5. CommittedSwept'
  BY DEF IntegrityInv, CommittedSwept
<1> QED
  BY <1>1, <1>3, <1>4, <1>5 DEF IntegrityInv

LEMMA IntegrityStep ==
    ASSUME TypeOK, IntegrityInv, [Next]_vars
    PROVE  IntegrityInv'
<1> USE DEF Busy, database, history
<1>1. ASSUME NEW r \in Requests, req[r].pc \notin FinalizePcs \cup {"stage"},
             req'[r].pc \notin FinalizePcs \cup {"stage"},
             \A q \in Requests : q # r => req'[q] = req[q],
             UNCHANGED <<staging, objects, origin, overlapped>>,
             \A u \in Uploads : state'[u] = state[u] \/ (state[u] = None /\ state'[u] = "open")
      PROVE  IntegrityInv'
  <2>1. Exclusive'
    BY <1>1 DEF IntegrityInv, Exclusive
  <2>2. LoneState'
    BY <1>1, IngestAssumption DEF IntegrityInv, LoneState, ExpectedState, States
  <2>3. VerifiedBytes'
    BY <1>1 DEF IntegrityInv, VerifiedBytes, VerifiedAt, FinalizePcs
  <2>4. DisciplinedIntegrity' /\ CommittedSwept'
    BY <1>1 DEF IntegrityInv, DisciplinedIntegrity, CommittedSwept
  <2> QED
    BY <2>1, <2>2, <2>3, <2>4 DEF IntegrityInv
<1>2. ASSUME NEW r \in Requests, NEW t \in Tenants, NEW a \in Announces,
             AnnounceSelect(r, t, a)
      PROVE  IntegrityInv'
  <2>1. req[r] = Idle /\ req'[r].pc \in {"record", "open"}
    BY <1>2 DEF AnnounceSelect, TypeOK
  <2>2. \A q \in Requests : q # r => req'[q] = req[q]
    BY <1>2 DEF AnnounceSelect, TypeOK
  <2> QED
    BY <1>1, <1>2, <2>1, <2>2 DEF AnnounceSelect, Idle, FinalizePcs
<1>3. ASSUME NEW r \in Requests, AnnounceRecord(r) \/ AnnounceOpen(r) PROVE IntegrityInv'
  <2>1. \A u \in Uploads : state'[u] = state[u] \/ (state[u] = None /\ state'[u] = "open")
    BY <1>3 DEF AnnounceRecord, AnnounceOpen, TypeOK
  <2>2. Return(r) /\ req[r].pc \in {"record", "open"} /\ UNCHANGED <<staging, objects, history>>
    BY <1>3 DEF AnnounceRecord, AnnounceOpen
  <2> QED
    BY <1>1, <2>1, <2>2, ReturnReq DEF FinalizePcs
<1>4. ASSUME NEW r \in Requests, NEW t \in Tenants, NEW u \in Uploads, NEW b \in Bytes,
             StageSelect(r, t, u, b)
      PROVE  IntegrityInv'
  <2>1. req'[r].pc = "stage" /\ req'[r].upload = u /\ \A q \in Requests : q # r => req'[q] = req[q]
    BY <1>4 DEF StageSelect, TypeOK
  <2> QED
    BY <1>4, <2>1, IntegrityStart DEF StageSelect, FindOpen
<1>5. ASSUME NEW r \in Requests, NEW t \in Tenants, NEW u \in Uploads, NEW f \in Finalizes,
             FinalizeSelect(r, t, u, f)
      PROVE  IntegrityInv'
  <2>1. req'[r].pc = "read" /\ req'[r].upload = u /\ \A q \in Requests : q # r => req'[q] = req[q]
    BY <1>5 DEF FinalizeSelect, TypeOK
  <2> QED
    BY <1>5, <2>1, IntegrityStart DEF FinalizeSelect, FindOpen
<1>6. ASSUME NEW r \in Requests, FinalizeHooks(r) \/ Abort(r) PROVE IntegrityInv'
  <2>1. Return(r) /\ UNCHANGED <<state, staging, objects, origin, overlapped>>
    BY <1>6 DEF FinalizeHooks, Abort
  <2>2. Exclusive' /\ LoneState'
    BY <2>1, ReturnReq DEF IntegrityInv, Exclusive, LoneState, FinalizePcs
  <2>3. VerifiedBytes'
    BY <2>1, ReturnReq DEF IntegrityInv, VerifiedBytes, VerifiedAt
  <2>4. DisciplinedIntegrity' /\ CommittedSwept'
    BY <2>1 DEF IntegrityInv, DisciplinedIntegrity, CommittedSwept
  <2> QED
    BY <2>2, <2>3, <2>4 DEF IntegrityInv
<1>7. ASSUME NEW r \in Requests, StageWrite(r) PROVE IntegrityInv'
  <2>1. req[r] \in StageReq
    BY <1>7, ReqShape DEF StageWrite
  <2> DEFINE u == req[r].upload
  <2>2. Busy(r, u) /\ u \in Uploads
    BY <1>7, <2>1 DEF StageWrite, StageReq
  <2>3. u \notin overlapped => state[u] = "open"
    BY <1>7, <2>2 DEF IntegrityInv, LoneState, ExpectedState, StageWrite
  <2>4. DisciplinedIntegrity'
    BY <1>7 DEF StageWrite, IntegrityInv, DisciplinedIntegrity
  <2>5. \A v \in Uploads : v # u => staging'[v] = staging[v]
    BY <1>7 DEF StageWrite, TypeOK
  <2> QED
    BY <1>7, <2>2, <2>3, <2>4, <2>5, ReturnReq, IntegrityLocal DEF StageWrite
<1>8. ASSUME NEW r \in Requests, req[r].pc \in FinalizePcs \ {"hooks"},
             \/ FinalizeRead(r) \/ SizeDiscard(r) \/ mark_session_failed(r) \/ MismatchTx(r)
             \/ RejectDiscard(r) \/ CommitExists(r) \/ CommitRemove(r)
             \/ CommitRename(r) \/ FinalizeTx(r)
      PROVE  IntegrityInv'
  <2> DEFINE u == req[r].upload
  <2>1. req[r] \in FinalizeReq /\ u \in Uploads /\ Busy(r, u)
    BY <1>8, ReqShape DEF FinalizeReq
  <2>2. u \notin overlapped => state[u] = ExpectedState(req[r].pc)
    BY <2>1 DEF IntegrityInv, LoneState
  <2>3. VerifiedAt(r)
    BY DEF IntegrityInv, VerifiedBytes
  <2>4. ~CommitRename(r) => DisciplinedIntegrity'
    BY <1>8 DEF FinalizeRead, SizeDiscard, mark_session_failed, MismatchTx, RejectDiscard,
       CommitExists, CommitRemove, FinalizeTx, IntegrityInv, DisciplinedIntegrity
  <2>5. overlapped' = overlapped
    BY <1>8 DEF FinalizeRead, SizeDiscard, mark_session_failed, MismatchTx, RejectDiscard,
       CommitExists, CommitRemove, CommitRename, FinalizeTx
  <2>6. \A v \in Uploads : v # u => state'[v] = state[v] /\ staging'[v] = staging[v]
    BY <1>8 DEF FinalizeRead, SizeDiscard, mark_session_failed, MismatchTx, RejectDiscard,
       CommitExists, CommitRemove, CommitRename, FinalizeTx, discard_staging, TypeOK
  <2>7. u \in Uploads /\ staging[u] \in Bytes \cup {None}
    BY <2>1 DEF TypeOK
  <2> DEFINE Others == \A q \in Requests : q # r => req'[q] = req[q]
             Own    == \/ req'[r].pc = "idle"
                       \/ /\ req'[r].upload = u
                          /\ u \notin overlapped => state'[u] = ExpectedState(req'[r].pc)
                          /\ VerifiedAt(r)'
             Swept  == u \notin overlapped /\ state'[u] = "committed" => staging'[u] = None
  <2>8. SUFFICES DisciplinedIntegrity' /\ Others /\ Own /\ Swept
    BY <2>1, <2>5, <2>6, IntegrityLocal
  <2> USE <2>1, <2>2, <2>3, <2>4, <2>5, <2>7
  <2>a. CASE FinalizeRead(r)
    <3>1. UNCHANGED <<state, staging>>
      BY <2>a DEF FinalizeRead
    <3>2. u \notin overlapped => state[u] = "open"
      BY <2>a DEF FinalizeRead, ExpectedState
    <3>3. CASE Return(r)
      BY <2>a, <3>1, <3>2, <3>3, ReturnReq DEF FinalizeRead, CommitRename
    <3>4. CASE staging[u] # None /\ req' = [req EXCEPT ![r].pc = Verdict(req[r].args, staging[u]),
                                                      ![r].bytes = staging[u]]
      <4>1. /\ req'[r].pc = Verdict(req[r].args, staging[u]) /\ req'[r].upload = u
            /\ req'[r].bytes = staging[u] /\ req'[r].args = req[r].args
            /\ \A q \in Requests : q # r => req'[q] = req[q]
        BY <3>4 DEF TypeOK, FinalizeReq
      <4>2. VerifiedAt(r)'
        BY <3>1, <3>4, <4>1 DEF VerifiedAt, Verdict, verify_upload
      <4>3. u \notin overlapped => state'[u] = ExpectedState(req'[r].pc)
        BY <3>1, <3>2, <4>1 DEF ExpectedState, Verdict
      <4> QED
        BY <2>a, <3>1, <3>2, <4>1, <4>2, <4>3 DEF FinalizeRead, CommitRename
    <3> QED
      BY <2>a, <3>3, <3>4 DEF FinalizeRead
  <2>b. CASE SizeDiscard(r)
    <3>1. VerifiedAt(r)' /\ (u \notin overlapped => state'[u] = ExpectedState(req'[r].pc))
      BY <2>b, GotoReq DEF SizeDiscard, VerifiedAt, ExpectedState
    <3> QED
      BY <2>b, <3>1, GotoReq DEF SizeDiscard, ExpectedState, CommitRename
  <2>c. CASE mark_session_failed(r)
    BY <2>c, ReturnReq DEF mark_session_failed, CommitRename, TypeOK
  <2>d. CASE MismatchTx(r)
    <3>1. VerifiedAt(r)' /\ (u \notin overlapped => state'[u] = ExpectedState(req'[r].pc))
      BY <2>d, GotoReq DEF MismatchTx, VerifiedAt, ExpectedState, TypeOK
    <3> QED
      BY <2>d, <3>1, GotoReq DEF MismatchTx, ExpectedState, CommitRename, TypeOK
  <2>e. CASE RejectDiscard(r)
    BY <2>e, ReturnReq DEF RejectDiscard, ExpectedState, discard_staging, CommitRename, TypeOK
  <2>f. CASE CommitExists(r)
    <3>1. VerifiedAt(r)' /\ (u \notin overlapped => state'[u] = ExpectedState(req'[r].pc))
      BY <2>f, GotoReq DEF CommitExists, VerifiedAt, ExpectedState
    <3> QED
      BY <2>f, <3>1, GotoReq DEF CommitExists, ExpectedState, CommitRename
  <2>g. CASE CommitRemove(r)
    <3>1. VerifiedAt(r)' /\ (u \notin overlapped => state'[u] = ExpectedState(req'[r].pc))
      BY <2>g, GotoReq DEF CommitRemove, VerifiedAt, ExpectedState, discard_staging, TypeOK
    <3> QED
      BY <2>g, <3>1, GotoReq DEF CommitRemove, ExpectedState, CommitRename
  <2>h. CASE CommitRename(r)
    <3>1. CASE staging[u] = None
      <4>1. DisciplinedIntegrity'
        BY <2>h, <3>1 DEF CommitRename, IntegrityInv, DisciplinedIntegrity
      <4> QED
        BY <2>h, <3>1, <4>1, ReturnReq DEF CommitRename, ExpectedState
    <3>2. CASE staging[u] # None
      <4>1. /\ objects' = [objects EXCEPT ![Key(r)] = staging[u]]
            /\ origin' = [origin EXCEPT ![Key(r)] = u]
            /\ Goto(r, "commit_tx") /\ state' = state /\ staging' = [staging EXCEPT ![u] = None]
        BY <2>h, <3>2 DEF CommitRename, Key, discard_staging
      <4>2. Key(r) \in Keys /\ Key(r)[2] = req[r].args.sha
        BY DEF Key, object_key, Keys, FinalizeReq, FinalizeInputs
      <4>3. DisciplinedIntegrity'
        BY <2>h, <4>1, <4>2 DEF CommitRename, IntegrityInv, DisciplinedIntegrity, VerifiedAt, TypeOK
      <4>4. VerifiedAt(r)' /\ (u \notin overlapped => state'[u] = ExpectedState(req'[r].pc))
        BY <2>h, <4>1, GotoReq DEF CommitRename, VerifiedAt, ExpectedState, TypeOK
      <4> QED
        BY <4>1, <4>3, <4>4, GotoReq DEF TypeOK
    <3> QED
      BY <3>1, <3>2
  <2>i. CASE FinalizeTx(r)
    <3>1. VerifiedAt(r)' /\ (u \notin overlapped => state'[u] = ExpectedState(req'[r].pc))
      BY <2>i, GotoReq DEF FinalizeTx, VerifiedAt, ExpectedState, TypeOK
    <3>2. u \notin overlapped => staging'[u] = None
      BY <2>i DEF FinalizeTx, VerifiedAt
    <3> QED
      BY <2>i, <3>1, <3>2, GotoReq DEF FinalizeTx, CommitRename
  <2> QED
    BY <1>8, <2>a, <2>b, <2>c, <2>d, <2>e, <2>f, <2>g, <2>h, <2>i
<1>9. CASE UNCHANGED vars
  <2>1. Exclusive' /\ LoneState'
    BY <1>9 DEF vars, IntegrityInv, Exclusive, LoneState
  <2>2. VerifiedBytes' /\ DisciplinedIntegrity' /\ CommittedSwept'
    BY <1>9 DEF vars, IntegrityInv, VerifiedBytes, VerifiedAt, DisciplinedIntegrity, CommittedSwept
  <2> QED
    BY <2>1, <2>2 DEF IntegrityInv
<1>10. ASSUME NEW r \in Requests,
             \/ FinalizeRead(r) \/ SizeDiscard(r) \/ mark_session_failed(r) \/ MismatchTx(r)
             \/ RejectDiscard(r) \/ CommitExists(r) \/ CommitRemove(r)
             \/ CommitRename(r) \/ FinalizeTx(r)
      PROVE  req[r].pc \in FinalizePcs \ {"hooks"}
  BY <1>10 DEF FinalizeRead, SizeDiscard, mark_session_failed, MismatchTx, RejectDiscard,
     CommitExists, CommitRemove, CommitRename, FinalizeTx, FinalizePcs
<1> QED
  BY <1>2, <1>3, <1>4, <1>5, <1>6, <1>7, <1>8, <1>9, <1>10 DEF Next

(***************************************************************************)
(* Results                                                                  *)
(***************************************************************************)
\* The inductive invariant holds throughout.
THEOREM Invariance == Spec => [](TypeOK /\ IInv)
<1>1. Init => IInv
  <2> SUFFICES ASSUME Init PROVE IInv
    OBVIOUS
  <2> USE DEF Init, Idle
  <2>1. OwnershipInv
    BY DEF OwnershipInv, FreshSessions, HandlerOwnsSession, StagedByOwner, TenantIsolation,
       Busy, FinalizePcs, Keys, object_key
  <2>2. CommitInv
    BY DEF CommitInv, ObjectFirst, StoredArtifacts, EvidenceBacked
  <2>3. IntegrityInv
    BY IngestAssumption DEF IntegrityInv, Exclusive, LoneState, VerifiedBytes, VerifiedAt,
       DisciplinedIntegrity, CommittedSwept, Busy, FinalizePcs, States
  <2> QED
    BY <2>1, <2>2, <2>3 DEF IInv
<1>2. TypeOK /\ IInv /\ [Next]_vars => IInv'
  BY OwnershipStep, CommitStep, IntegrityStep DEF IInv
<1> QED
  BY <1>1, <1>2, TypeCorrect, PTL DEF Spec

\* Every artifact row has its bytes in the store, for any clients and at every
\* point where handlers are dropped (finalize promotes before it inserts).
THEOREM ArtifactsStored == Spec => []StoredArtifacts
  BY Invariance, PTL DEF IInv, CommitInv

\* Occurrences and attempts only name artifacts of their own tenant.
THEOREM EvidenceIsBacked == Spec => []EvidenceBacked
  BY Invariance, PTL DEF IInv, CommitInv

\* No interleaving of stage and finalize moves bytes between tenants.
THEOREM TenantsIsolated == Spec => []TenantIsolation
  BY Invariance, PTL DEF IInv, OwnershipInv

\* An object that came from a session whose calls did not overlap hashes to
\* its key, whatever other sessions do.
THEOREM ObjectsVerified == Spec => []DisciplinedIntegrity
  BY Invariance, PTL DEF IInv, IntegrityInv

\* A committed session whose calls did not overlap left no staged file.
THEOREM StagingSwept == Spec => []CommittedSwept
  BY Invariance, PTL DEF IInv, IntegrityInv

\* committed and failed are final for a session whose calls do not overlap:
\* its only handler found it open and is the only one to write its row.
THEOREM SessionsTerminal == Spec => TerminalSessions
<1> DEFINE Stable == \A u \in Uploads :
        state[u] \in {"committed", "failed"} /\ u \notin overlapped' => state'[u] = state[u]
<1>1. TypeOK /\ IInv /\ [Next]_vars => Stable
  <2> SUFFICES ASSUME TypeOK, IntegrityInv, [Next]_vars, NEW u \in Uploads,
                      state[u] \in {"committed", "failed"}, state'[u] # state[u]
               PROVE  u \in overlapped'
    BY DEF IInv
  <2>1. \A r \in Requests : ~AnnounceOpen(r)
    BY IngestAssumption DEF AnnounceOpen, TypeOK, States
  <2>2. PICK r \in Requests : mark_session_failed(r) \/ MismatchTx(r) \/ FinalizeTx(r)
    BY <2>1 DEF Next, vars, database, AnnounceSelect, AnnounceRecord, StageSelect, StageWrite,
       FinalizeSelect, FinalizeRead, SizeDiscard, RejectDiscard, CommitExists, CommitRemove,
       CommitRename, FinalizeHooks, Abort
  <2>3. Busy(r, u) /\ req[r].pc \in {"mark_failed", "mismatch_tx", "commit_tx"}
    BY <2>2 DEF mark_session_failed, MismatchTx, FinalizeTx, TypeOK, Busy, FinalizePcs
  <2>4. u \in overlapped
    BY <2>3 DEF IntegrityInv, LoneState, ExpectedState
  <2> QED
    BY <2>2, <2>4 DEF mark_session_failed, MismatchTx, FinalizeTx, history
<1> QED
  BY <1>1, Invariance, PTL DEF Spec, TerminalSessions

\* Ingest implements ContentStore: a rename puts an object, the transaction of
\* finalize commits it, a dedup hit observes it, and no other step is visible.
THEOREM Refinement == Spec => ImplementsContentStore
<1> USE DEF Keys, Store!Keys
<1>1. Init => Store!Init
  BY DEF Init, Store!Init
<1>2. TypeOK /\ CommitInv /\ [Next]_vars => [Store!Next]_(Store!vars)
  <2> SUFFICES ASSUME TypeOK, CommitInv, [Next]_vars PROVE [Store!Next]_(Store!vars)
    OBVIOUS
  <2>1. ASSUME UNCHANGED <<objects, artifact, ledger>> PROVE UNCHANGED Store!vars
    BY <2>1 DEF Store!vars
  <2>2. ASSUME NEW r \in Requests, AnnounceRecord(r) PROVE Store!Next
    <3>1. req[r] \in AnnounceReq
      BY <2>2, ReqShape DEF AnnounceRecord
    <3> DEFINE t == req[r].tenant  h == req[r].args.sha  o == req[r].args.occ
    <3>2. t \in Tenants /\ h \in Hashes /\ o \in OccKeys \cup {None}
      BY <3>1 DEF AnnounceReq, AnnounceInputs, OccOpt
    <3>3. Store!Observe(t, h, o)
      BY <2>2 DEF AnnounceRecord, Store!Observe, Store!Record, insert_occurrence, CommitInv,
         ObjectFirst, Key, object_key
    <3> QED
      BY <3>2, <3>3 DEF Store!Next
  <2>3. ASSUME NEW r \in Requests, FinalizeTx(r) PROVE Store!Next
    <3>1. req[r] \in FinalizeReq
      BY <2>3, ReqShape DEF FinalizeTx, FinalizePcs
    <3> DEFINE t == req[r].tenant  h == req[r].args.sha  o == req[r].args.occ
               s == req[r].args.scope
    <3>2. t \in Tenants /\ h \in Hashes /\ o \in OccKeys \cup {None} /\ s \in Store!Scopes
      BY <2>3, <3>1 DEF FinalizeTx, FinalizeReq, FinalizeInputs, OccOpt, TypeOK, AcceptedScope,
         Scopes, Store!Scopes
    <3>3. <<t, h>> \in {k \in Keys : objects[k] # None}
      BY <2>3, <3>2 DEF FinalizeTx, CommitInv, ObjectFirst, Key, object_key
    <3>4. Store!Commit(t, h, s, o)
      BY <2>3, <3>3 DEF FinalizeTx, Store!Commit, Store!Record, insert_occurrence, object_key
    <3> QED
      BY <3>2, <3>4 DEF Store!Next
  <2>4. ASSUME NEW r \in Requests, CommitRename(r) PROVE [Store!Next]_(Store!vars)
    <3>1. req[r] \in FinalizeReq
      BY <2>4, ReqShape DEF CommitRename, FinalizePcs
    <3>2. Key(r) \in Keys
      BY <3>1 DEF Key, object_key, FinalizeReq, FinalizeInputs
    <3>3. CASE staging[req[r].upload] = None
      BY <2>1, <2>4, <3>3 DEF CommitRename, database
    <3>4. CASE staging[req[r].upload] # None
      <4>1. objects' = [objects EXCEPT ![Key(r)] = staging[req[r].upload]]
        BY <2>4, <3>4 DEF CommitRename, Key
      <4>2. {k \in Keys : objects'[k] # None} = {k \in Keys : objects[k] # None} \cup {Key(r)}
        BY <3>2, <3>4, <4>1 DEF TypeOK
      <4>3. Store!Put(Key(r))
        BY <2>4, <4>2 DEF CommitRename, Store!Put, database
      <4> QED
        BY <3>2, <4>3 DEF Store!Next, Store!Put
    <3> QED
      BY <3>3, <3>4
  <2>5. CASE UNCHANGED vars
    BY <2>1, <2>5 DEF vars
  <2>6. ASSUME NEW r \in Requests,
               \/ \E t \in Tenants, a \in Announces : AnnounceSelect(r, t, a)
               \/ AnnounceOpen(r)
               \/ \E t \in Tenants, u \in Uploads, b \in Bytes : StageSelect(r, t, u, b)
               \/ StageWrite(r)
               \/ \E t \in Tenants, u \in Uploads, f \in Finalizes : FinalizeSelect(r, t, u, f)
               \/ FinalizeRead(r) \/ SizeDiscard(r) \/ mark_session_failed(r) \/ MismatchTx(r)
               \/ RejectDiscard(r) \/ CommitExists(r) \/ CommitRemove(r) \/ FinalizeHooks(r)
               \/ Abort(r)
        PROVE  UNCHANGED <<objects, artifact, ledger>>
    BY <2>6 DEF database, AnnounceSelect, AnnounceOpen, StageSelect, StageWrite, FinalizeSelect,
       FinalizeRead, SizeDiscard, mark_session_failed, MismatchTx, RejectDiscard, CommitExists,
       CommitRemove, FinalizeHooks, Abort
  <2> QED
    BY <2>1, <2>2, <2>3, <2>4, <2>5, <2>6 DEF Next
<1> QED
  BY <1>1, <1>2, Invariance, PTL DEF Spec, ImplementsContentStore, Store!Spec, IInv
=============================================================================
