---------------------------- MODULE ContentStore ----------------------------
(***************************************************************************)
(* What ingest promises to the rest of the system, as one atomic store: the *)
(* objects that can be read, the artifact rows over them and the ledger of  *)
(* occurrences.  Nothing is ever removed or rewritten.                      *)
(***************************************************************************)
CONSTANTS Tenants, Hashes, OccKeys, None

VARIABLES
    stored,     \* the keys whose object can be read
    artifact,   \* the scope of each committed <<tenant, digest>>
    ledger      \* the digest of each <<tenant, occurrence key>>

vars == <<stored, artifact, ledger>>

Keys   == Tenants \X Hashes
Scopes == {"endpoint", "intel"}

Init ==
    /\ stored = {}
    /\ artifact = [k \in Keys |-> None]
    /\ ledger = [o \in Tenants \X OccKeys |-> None]

\* The first writer of an occurrence key wins; None is "no occurrence".
Record(tenant, occ, sha) ==
    ledger' = IF occ = None \/ ledger[<<tenant, occ>>] # None THEN ledger
              ELSE [ledger EXCEPT ![<<tenant, occ>>] = sha]

\* Bytes appear in the store.
Put(key) ==
    /\ stored' = stored \cup {key}
    /\ UNCHANGED <<artifact, ledger>>

\* A stored object becomes an artifact; a row that exists is adopted.
Commit(tenant, sha, scope, occ) ==
    /\ <<tenant, sha>> \in stored
    /\ artifact' = IF artifact[<<tenant, sha>>] # None THEN artifact
                   ELSE [artifact EXCEPT ![<<tenant, sha>>] = scope]
    /\ Record(tenant, occ, sha)
    /\ UNCHANGED stored

\* A new sighting of an artifact the tenant already has.
Observe(tenant, sha, occ) ==
    /\ artifact[<<tenant, sha>>] # None
    /\ Record(tenant, occ, sha)
    /\ UNCHANGED <<stored, artifact>>

Next ==
    \/ \E k \in Keys : Put(k)
    \/ \E t \in Tenants, h \in Hashes, o \in OccKeys \cup {None} :
          \/ \E s \in Scopes : Commit(t, h, s, o)
          \/ Observe(t, h, o)

Spec == Init /\ [][Next]_vars
=============================================================================
