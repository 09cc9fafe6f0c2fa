--------------------------- MODULE CaptureProofs ---------------------------
(***************************************************************************)
(* Proofs for module Capture, for any numbers of files, rows, tasks,        *)
(* occurrences, crashes and damaged spool files.                            *)
(***************************************************************************)
EXTENDS Capture, TLAPS

Kept == {"present", "damaged"}
Evidence(r, entries) == \E e \in entries : e[3] = r.path /\ e[4] = r.sha

\* The program points from which the digest of the task's copy is sent or
\* written about, and those at which its occurrence is in the ledger.
Sent  == {"sequence", "announce", "announced", "upload_required", "uploading", "read_spool", "upload",
          "finalizing", "final_sequence", "finalize", "dedup_hit", "occurrence_queued", "complete"}
Proven == {"dedup_hit", "occurrence_queued", "complete"}

\* The states a row can be in while its only task is at a program point.
StatesAt(pc) ==
    {s \in States :
        /\ pc # "remove" => s \notin Terminal
        /\ pc = "remove" => s = "complete"
        /\ pc = "copy" => s \in {"opening", "copying_and_hashing"}
        /\ pc \in {"read", "read_full", "hashed", "defer"} => s = "copying_and_hashing"
        /\ pc = "reload" => s \in Upload \cup {"dedup_hit", "occurrence_queued"}
        /\ pc \in Sent \ {"occurrence_queued", "complete"} => s \in Upload
        /\ pc = "occurrence_queued" => s \in Upload \cup {"dedup_hit"}
        /\ pc = "complete" => s \in {"dedup_hit", "occurrence_queued"}}

\* What holds of every task v and the row r it works on, also when another
\* task works on the same row.
TaskAnyway(v, r, gapRows) ==
    /\ r # None
    /\ v.snap.path = r.path
    /\ v.pc \in Sent \ Proven => v.snap.sha # None
    /\ v.pc = "finish_gap" => v.id \in gapRows

\* What holds of a task v that has its row r to itself.
TaskAlone(v, r, entries, files) ==
    /\ r.state \in StatesAt(v.pc)
    /\ v.pc = "open" => v.snap = r
    /\ v.pc = "hashed" => v.snap.file # None /\ files[v.snap.file] \in Kept
    /\ v.pc \in Sent => v.snap.sha = r.sha
    /\ v.pc \in Proven \/ (v.pc = "announced" /\ v.hit) => Evidence(r, entries)

\* What holds of a row that has never been leased twice.
RowAlone(r, entries, files) ==
    /\ r.state \in {"dedup_hit", "occurrence_queued", "complete"} => Evidence(r, entries)
    /\ r.state \in Upload => r.file # None /\ files[r.file] \in Kept

Alone(t) == task[t] # Idle /\ task[t].id \notin doubled

TaskInv ==
    /\ \A t \in Tasks : task[t] # Idle => TaskAnyway(task[t], row[task[t].id], gaps)
    /\ \A t \in Tasks : Alone(t) => TaskAlone(task[t], row[task[t].id], ledger, spool)
    /\ \A t, u \in Tasks : Alone(t) /\ task[u] # Idle /\ task[u].id = task[t].id => t = u
RowInv ==
    \A c \in Rows : row[c] # None =>
        /\ c \notin doubled => RowAlone(row[c], ledger, spool)
        /\ row[c].state = "gap_recorded" => c \in gaps
HeldInv ==
    held # None =>
        /\ row[held.id] # None
        /\ held.snap.path = row[held.id].path
        /\ held.id \notin doubled =>
             /\ held.snap = row[held.id] /\ Active(held.id)
             /\ \A t \in Tasks : ~Working(t, held.id)

\* Every spool file belongs to one row: whoever refers to it works on that row.
OwnedBy(owner) ==
    /\ \A c \in Rows : row[c] # None /\ row[c].file # None =>
         owner[row[c].file] = c /\ spool[row[c].file] # "new"
    /\ \A t \in Tasks : task[t] # Idle /\ task[t].snap.file # None =>
         owner[task[t].snap.file] = task[t].id /\ spool[task[t].snap.file] # "new"
    /\ held # None /\ held.snap.file # None =>
         owner[held.snap.file] = held.id /\ spool[held.snap.file] # "new"
FileInv == \E owner \in [Files -> Nat] : OwnedBy(owner)

\* A call that is about to record an occurrence has a number of its own.
Calling(t) == task[t] # Idle /\ task[t].pc \in {"announce", "finalize"}
SequenceInv ==
    /\ boot <= crashes
    /\ \A e \in ledger : e[1] <= boot /\ (e[1] = boot => e[2] <= sequence)
    /\ \A t \in Tasks : Calling(t) =>
         /\ task[t].seq <= sequence
         /\ \A e \in ledger : e[1] = boot => e[2] # task[t].seq
    /\ \A t, u \in Tasks : Calling(t) /\ Calling(u) /\ t # u => task[t].seq # task[u].seq

CaptureInv == TypeOK /\ TaskInv /\ RowInv /\ HeldInv /\ FileInv /\ SequenceInv

(***************************************************************************)
(* One task moves on                                                       *)
(***************************************************************************)
LEMMA GotoValue ==
    ASSUME NEW w \in Task, NEW pc \in Pcs
    PROVE  /\ [w EXCEPT !.pc = pc] \in Task
           /\ [w EXCEPT !.pc = pc].pc = pc
           /\ [w EXCEPT !.pc = pc].id = w.id
           /\ [w EXCEPT !.pc = pc].snap = w.snap
           /\ [w EXCEPT !.pc = pc].hit = w.hit
           /\ [w EXCEPT !.pc = pc].seq = w.seq
  BY DEF Task

LEMMA StateValue ==
    ASSUME NEW r \in Row, NEW s \in States
    PROVE  /\ [r EXCEPT !.state = s] \in Row
           /\ [r EXCEPT !.state = s].state = s
           /\ [r EXCEPT !.state = s].path = r.path
           /\ [r EXCEPT !.state = s].sha = r.sha
           /\ [r EXCEPT !.state = s].file = r.file
           /\ [r EXCEPT !.state = s].attempts = r.attempts
  BY DEF Row

LEMMA TaskShape ==
    ASSUME TypeOK, NEW t \in Tasks
    PROVE  /\ task[t] # Idle => task[t] \in Task
           /\ task[t].pc \in Pcs => task[t] # Idle
  BY DEF TypeOK, Idle, Pcs, Transitions

LEMMA TaskNotIdle ==
    ASSUME NEW v \in Task
    PROVE  v # Idle
  BY DEF Task, Idle, Pcs, Transitions

LEMMA RowShape ==
    ASSUME TypeOK, NEW c \in Rows, row[c] # None
    PROVE  row[c] \in Row
  BY DEF TypeOK

\* Task t takes on the value v and its row the value r; it may remove its own
\* spool file.
TaskMoves(t, v, r) ==
    /\ task' = [task EXCEPT ![t] = v]
    /\ row' = [row EXCEPT ![task[t].id] = r]
    /\ held' = held /\ doubled' = doubled /\ crashes' = crashes
    /\ v = Idle \/ (v \in Task /\ v.id = task[t].id)
    /\ r \in Row /\ r.path = row[task[t].id].path
    /\ r.state \notin Terminal => Active(task[t].id) \/ Unique(task[t].id)
    /\ due' \subseteq Rows
    /\ gaps \subseteq gaps' /\ gaps' \subseteq Rows
    /\ ledger \subseteq ledger'
    /\ spool' \in [Files -> {"new", "present", "damaged", "gone"}]
    /\ \A f \in Files : /\ spool[f] # "new" => spool'[f] # "new"
                        /\ spool[f] \in Kept => spool'[f] \in Kept \/ f = task[t].snap.file

\* What the new values have to satisfy.
TaskFits(t, v, r) ==
    /\ v # Idle => TaskAnyway(v, r, gaps')
    /\ r.state = "gap_recorded" => task[t].id \in gaps'
    /\ task[t].id \notin doubled =>
         /\ v # Idle => TaskAlone(v, r, ledger', spool')
         /\ RowAlone(r, ledger', spool')

LEMMA EvidenceStays ==
    ASSUME NEW r, NEW L, NEW M, L \subseteq M, Evidence(r, L)
    PROVE  Evidence(r, M)
  BY DEF Evidence

\* The files of other rows stay.
LEMMA OthersFiles ==
    ASSUME TypeOK, FileInv, NEW t \in Tasks, task[t] \in Task, NEW v, NEW r, TaskMoves(t, v, r)
    PROVE  /\ \A c \in Rows \ {task[t].id} : row[c] # None /\ row[c].file # None =>
                row[c].file \in Files /\ row[c].file # task[t].snap.file
           /\ \A u \in Tasks : task[u] # Idle /\ task[u].id # task[t].id /\ task[u].snap.file # None =>
                task[u].snap.file \in Files /\ task[u].snap.file # task[t].snap.file
<1>1. PICK owner \in [Files -> Nat] : OwnedBy(owner)
  BY DEF FileInv
<1>2. task[t] # Idle /\ task[t].id \in Rows
  BY TaskNotIdle DEF Task
<1>3. ASSUME NEW c \in Rows \ {task[t].id}, row[c] # None, row[c].file # None
      PROVE  row[c].file \in Files /\ row[c].file # task[t].snap.file
  <2>1. row[c].file \in Files
    BY <1>3, RowShape DEF Row
  <2> QED
    BY <1>1, <1>2, <1>3, <2>1 DEF OwnedBy
<1>4. ASSUME NEW u \in Tasks, task[u] # Idle, task[u].id # task[t].id, task[u].snap.file # None
      PROVE  task[u].snap.file \in Files /\ task[u].snap.file # task[t].snap.file
  <2>1. task[u].snap.file \in Files
    BY <1>4, TaskShape DEF Task, Row
  <2> QED
    BY <1>1, <1>2, <1>4, <2>1 DEF OwnedBy
<1> QED
  BY <1>3, <1>4

LEMMA MoveRows ==
    ASSUME TypeOK, TaskInv, RowInv, FileInv, NEW t \in Tasks, task[t] \in Task,
           NEW v, NEW r, TaskMoves(t, v, r), TaskFits(t, v, r)
    PROVE  RowInv'
<1> SUFFICES ASSUME NEW c \in Rows, row'[c] # None
             PROVE  /\ c \notin doubled' => RowAlone(row'[c], ledger', spool')
                    /\ row'[c].state = "gap_recorded" => c \in gaps'
  BY DEF RowInv
<1>0. doubled' = doubled /\ row' = [row EXCEPT ![task[t].id] = r] /\ row \in [Rows -> Row \cup {None}]
  BY DEF TaskMoves, TypeOK
<1>1. CASE c = task[t].id
  <2>1. row'[c] = r
    BY <1>0, <1>1
  <2> QED
    BY <1>0, <1>1, <2>1 DEF TaskFits
<1>2. CASE c # task[t].id
  <2>1. row'[c] = row[c]
    BY <1>0, <1>2
  <2>2. row[c].state = "gap_recorded" => c \in gaps'
    BY <2>1 DEF RowInv, TaskMoves
  <2>3. c \notin doubled => RowAlone(row[c], ledger, spool)
    BY <2>1 DEF RowInv
  <2>4. ASSUME RowAlone(row[c], ledger, spool)
        PROVE  RowAlone(row[c], ledger', spool')
    <3>1. ledger \subseteq ledger'
      BY DEF TaskMoves
    <3>2. row[c].state \in {"dedup_hit", "occurrence_queued", "complete"} => Evidence(row[c], ledger')
      BY <2>4, <3>1, EvidenceStays DEF RowAlone
    <3>3. row[c].state \in Upload => row[c].file # None /\ spool'[row[c].file] \in Kept
      BY <2>1, <2>4, <1>2, OthersFiles DEF RowAlone, TaskMoves
    <3> QED
      BY <3>2, <3>3 DEF RowAlone
  <2> QED
    BY <1>0, <2>1, <2>2, <2>3, <2>4
<1> QED
  BY <1>1, <1>2

LEMMA MoveTasks ==
    ASSUME TypeOK, TaskInv, RowInv, FileInv, NEW t \in Tasks, task[t] \in Task,
           NEW v, NEW r, TaskMoves(t, v, r), TaskFits(t, v, r)
    PROVE  TaskInv'
<1>0. /\ task' = [task EXCEPT ![t] = v] /\ row' = [row EXCEPT ![task[t].id] = r] /\ doubled' = doubled
      /\ task \in [Tasks -> {Idle} \cup Task] /\ row \in [Rows -> Row \cup {None}]
      /\ gaps \subseteq gaps' /\ ledger \subseteq ledger'
  BY DEF TaskMoves, TypeOK
<1>1. task'[t] = v /\ (v # Idle => v.id = task[t].id) /\ \A u \in Tasks \ {t} : task'[u] = task[u]
  BY <1>0 DEF TaskMoves
<1>2. task[t] # Idle /\ task[t].id \in Rows
  BY TaskNotIdle DEF Task
<1>3. row'[task[t].id] = r /\ \A c \in Rows \ {task[t].id} : row'[c] = row[c]
  BY <1>0, <1>2
<1>4. ASSUME NEW u \in Tasks, task'[u] # Idle
      PROVE  TaskAnyway(task'[u], row'[task'[u].id], gaps')
  <2>1. CASE u = t
    BY <2>1, <1>1, <1>3, <1>4 DEF TaskFits
  <2>2. CASE u # t
    <3>1. task'[u] = task[u] /\ task[u] # Idle /\ task[u] \in Task /\ task[u].id \in Rows
      BY <2>2, <1>1, <1>4, TaskShape DEF Task
    <3>2. TaskAnyway(task[u], row[task[u].id], gaps)
      BY <3>1 DEF TaskInv
    <3>3. row'[task[u].id].path = row[task[u].id].path /\ row'[task[u].id] # None
      BY <3>1, <3>2, <1>3, NoneAssumption DEF TaskMoves, TaskAnyway
    <3> QED
      BY <3>1, <3>2, <3>3, <1>0 DEF TaskAnyway
  <2> QED
    BY <2>1, <2>2
<1>5. ASSUME NEW u \in Tasks, u # t, task[u] # Idle, task[u].id \notin doubled
      PROVE  task[u].id # task[t].id
  BY <1>2, <1>5 DEF TaskInv, Alone
<1>6. ASSUME NEW u \in Tasks, task'[u] # Idle, task'[u].id \notin doubled
      PROVE  TaskAlone(task'[u], row'[task'[u].id], ledger', spool')
  <2>1. CASE u = t
    BY <2>1, <1>1, <1>3, <1>6 DEF TaskFits
  <2>2. CASE u # t
    <3>1. task'[u] = task[u] /\ task[u] # Idle /\ task[u] \in Task /\ task[u].id \in Rows
      BY <2>2, <1>1, <1>6, TaskShape DEF Task
    <3>2. TaskAlone(task[u], row[task[u].id], ledger, spool)
      BY <3>1, <1>6 DEF TaskInv, Alone
    <3>3. task[u].id # task[t].id
      BY <2>2, <3>1, <1>5, <1>6
    <3>4. row'[task[u].id] = row[task[u].id]
      BY <3>1, <3>3, <1>3
    <3>5. task[u].pc = "hashed" => spool'[task[u].snap.file] \in Kept
      BY <3>1, <3>2, <3>3, OthersFiles DEF TaskAlone, TaskMoves
    <3>6. Evidence(row[task[u].id], ledger) => Evidence(row[task[u].id], ledger')
      BY <1>0, EvidenceStays
    <3> QED
      BY <3>1, <3>2, <3>4, <3>5, <3>6 DEF TaskAlone
  <2> QED
    BY <2>1, <2>2
<1>7. ASSUME NEW s \in Tasks, NEW u \in Tasks, task'[s] # Idle, task'[s].id \notin doubled,
             task'[u] # Idle, task'[u].id = task'[s].id
      PROVE  s = u
  <2>1. task[s] # Idle /\ task[u] # Idle /\ task[s].id = task'[s].id /\ task[u].id = task'[u].id
    BY <1>1, <1>2, <1>7
  <2> QED
    BY <1>7, <2>1 DEF TaskInv, Alone
<1> QED
  BY <1>0, <1>4, <1>6, <1>7 DEF TaskInv, Alone

LEMMA MoveHeld ==
    ASSUME TypeOK, HeldInv, NEW t \in Tasks, task[t] \in Task,
           NEW v, NEW r, TaskMoves(t, v, r)
    PROVE  HeldInv'
<1>0. /\ task' = [task EXCEPT ![t] = v] /\ row' = [row EXCEPT ![task[t].id] = r] /\ doubled' = doubled /\ held' = held
      /\ task \in [Tasks -> {Idle} \cup Task] /\ row \in [Rows -> Row \cup {None}]
  BY DEF TaskMoves, TypeOK
<1>1. task'[t] = v /\ (v # Idle => v.id = task[t].id) /\ \A u \in Tasks \ {t} : task'[u] = task[u]
  BY <1>0 DEF TaskMoves
<1>2. task[t] # Idle /\ task[t].id \in Rows
  BY TaskNotIdle DEF Task
<1>3. row'[task[t].id] = r /\ \A c \in Rows \ {task[t].id} : row'[c] = row[c]
  BY <1>0, <1>2
<1> SUFFICES ASSUME held # None
             PROVE  /\ row'[held.id] # None
                    /\ held.snap.path = row'[held.id].path
                    /\ held.id \notin doubled =>
                         /\ held.snap = row'[held.id] /\ row'[held.id] # None /\ row'[held.id].state \notin Terminal
                         /\ \A u \in Tasks : ~(task'[u] # Idle /\ task'[u].id = held.id)
  BY <1>0 DEF HeldInv, Active, Working
<1>4. held.id \in Rows
  BY DEF TypeOK
<1>5. row[held.id] # None /\ held.snap.path = row[held.id].path
  BY DEF HeldInv
<1>6. row'[held.id] # None /\ row'[held.id].path = row[held.id].path
  BY <1>3, <1>4, <1>5, NoneAssumption DEF TaskMoves
<1>7. ASSUME held.id \notin doubled
      PROVE  /\ held.snap = row'[held.id] /\ row'[held.id] # None /\ row'[held.id].state \notin Terminal
             /\ \A u \in Tasks : ~(task'[u] # Idle /\ task'[u].id = held.id)
  <2>1. /\ held.snap = row[held.id] /\ row[held.id].state \notin Terminal
        /\ \A u \in Tasks : ~(task[u] # Idle /\ task[u].id = held.id)
    BY <1>7 DEF HeldInv, Active, Working
  <2>2. held.id # task[t].id
    BY <1>2, <2>1
  <2>3. row'[held.id] = row[held.id]
    BY <1>3, <1>4, <2>2
  <2> QED
    BY <1>1, <1>6, <2>1, <2>2, <2>3
<1> QED
  BY <1>5, <1>6, <1>7

\* The task and its row refer to the files they referred to before.
SameFiles(t, v, r) ==
    /\ v # Idle /\ v.snap.file # None => v.snap.file \in {task[t].snap.file, row[task[t].id].file}
    /\ r.file # None => r.file \in {task[t].snap.file, row[task[t].id].file}

LEMMA MoveFiles ==
    ASSUME TypeOK, TaskInv, FileInv, NEW t \in Tasks, task[t] \in Task,
           NEW v, NEW r, TaskMoves(t, v, r), SameFiles(t, v, r)
    PROVE  FileInv'
<1>1. PICK owner \in [Files -> Nat] : OwnedBy(owner)
  BY DEF FileInv
<1>2. /\ task' = [task EXCEPT ![t] = v] /\ row' = [row EXCEPT ![task[t].id] = r] /\ held' = held
      /\ task \in [Tasks -> {Idle} \cup Task] /\ row \in [Rows -> Row \cup {None}]
  BY DEF TaskMoves, TypeOK
<1>3. task'[t] = v /\ (v # Idle => v.id = task[t].id) /\ \A u \in Tasks \ {t} : task'[u] = task[u]
  BY <1>2 DEF TaskMoves
<1>4. task[t] # Idle /\ task[t].id \in Rows /\ task[t].snap.file \in Files \cup {None}
  BY TaskNotIdle DEF Task, Row
<1>5. row[task[t].id] # None
  BY <1>4 DEF TaskInv, TaskAnyway
<1>6. row[task[t].id].file \in Files \cup {None}
  BY <1>4, <1>5, RowShape DEF Row
<1>7. row'[task[t].id] = r /\ \A c \in Rows \ {task[t].id} : row'[c] = row[c]
  BY <1>2, <1>4
<1>8. \A f \in {task[t].snap.file, row[task[t].id].file} \ {None} :
        owner[f] = task[t].id /\ spool[f] # "new"
  BY <1>1, <1>4, <1>5 DEF OwnedBy
<1>9. \A f \in Files : spool[f] # "new" => spool'[f] # "new"
  BY DEF TaskMoves
<1>10. ASSUME NEW c \in Rows, row'[c] # None, row'[c].file # None
       PROVE  owner[row'[c].file] = c /\ spool'[row'[c].file] # "new"
  <2>1. CASE c = task[t].id
    BY <2>1, <1>4, <1>6, <1>7, <1>8, <1>9, <1>10 DEF SameFiles
  <2>2. CASE c # task[t].id
    <3>1. row'[c] = row[c] /\ row[c].file \in Files
      BY <2>2, <1>7, <1>10, RowShape DEF Row
    <3> QED
      BY <3>1, <1>1, <1>9, <1>10 DEF OwnedBy
  <2> QED
    BY <2>1, <2>2
<1>11. ASSUME NEW u \in Tasks, task'[u] # Idle, task'[u].snap.file # None
       PROVE  owner[task'[u].snap.file] = task'[u].id /\ spool'[task'[u].snap.file] # "new"
  <2>1. CASE u = t
    BY <2>1, <1>3, <1>4, <1>6, <1>8, <1>9, <1>11 DEF SameFiles
  <2>2. CASE u # t
    <3>1. task'[u] = task[u] /\ task[u].snap.file \in Files
      BY <2>2, <1>3, <1>11, TaskShape DEF Task, Row
    <3> QED
      BY <3>1, <1>1, <1>9, <1>11 DEF OwnedBy
  <2> QED
    BY <2>1, <2>2
<1>12. ASSUME held # None, held.snap.file # None
       PROVE  owner[held.snap.file] = held.id /\ spool'[held.snap.file] # "new"
  <2>1. held.snap.file \in Files
    BY <1>12 DEF TypeOK, Row
  <2> QED
    BY <2>1, <1>1, <1>9, <1>12 DEF OwnedBy
<1>13. OwnedBy(owner)'
  BY <1>2, <1>10, <1>11, <1>12 DEF OwnedBy
<1> QED
  BY <1>1, <1>13 DEF FileInv

\* At most one active row per path, as the partial unique index has it.
OnePerPath == \A b, c \in Rows : Active(b) /\ Active(c) /\ row[b].path = row[c].path => b = c

LEMMA MoveTypes ==
    ASSUME TypeOK, TaskInv, NEW t \in Tasks, task[t] \in Task, NEW v, NEW r, TaskMoves(t, v, r),
           boot' \in 0..MaxCrashes, sequence' \in 0..MaxSequence, stored' \subseteq Hashes,
           ledger' \subseteq (0..MaxCrashes) \X Nat \X Paths \X Hashes
    PROVE  TypeOK'
<1>1. task' \in [Tasks -> {Idle} \cup Task]
  BY DEF TypeOK, TaskMoves
<1>2. row' \in [Rows -> Row \cup {None}]
  BY DEF TypeOK, TaskMoves
<1>3. task[t].id \in Rows /\ row[task[t].id] # None
  BY TaskNotIdle DEF Task, TaskInv, TaskAnyway
<1>4. row'[task[t].id] = r /\ \A c \in Rows \ {task[t].id} : row'[c] = row[c]
  BY <1>3 DEF TaskMoves, TypeOK
<1>5. \A b, c \in Rows : Active(b) /\ Active(c) /\ row[b].path = row[c].path => b = c
  BY DEF TypeOK
<1>6. ASSUME NEW b \in Rows, NEW c \in Rows, Active(b)', Active(c)', row'[b].path = row'[c].path
      PROVE  b = c
  <2>1. CASE b # task[t].id /\ c # task[t].id
    BY <2>1, <1>4, <1>5, <1>6 DEF Active
  <2>2. CASE b = task[t].id /\ c # task[t].id
    <3>1. Active(c) /\ row[c].path = row[b].path
      BY <2>2, <1>4, <1>6 DEF Active, TaskMoves
    <3>2. Active(b) \/ Unique(b)
      BY <2>2, <1>4, <1>6 DEF Active, TaskMoves
    <3> QED
      BY <3>1, <3>2, <1>5 DEF Unique
  <2>3. CASE b # task[t].id /\ c = task[t].id
    <3>1. Active(b) /\ row[b].path = row[c].path
      BY <2>3, <1>4, <1>6 DEF Active, TaskMoves
    <3>2. Active(c) \/ Unique(c)
      BY <2>3, <1>4, <1>6 DEF Active, TaskMoves
    <3> QED
      BY <3>1, <3>2, <1>5 DEF Unique
  <2> QED
    BY <2>1, <2>2, <2>3
<1>7. /\ due' \subseteq Rows /\ gaps' \subseteq Rows
      /\ spool' \in [Files -> {"new", "present", "damaged", "gone"}]
      /\ held' = held /\ doubled' = doubled /\ crashes' = crashes
  BY DEF TaskMoves
<1> QED
  BY <1>1, <1>2, <1>6, <1>7 DEF TypeOK

\* Nothing is recorded and no number is taken.
LEMMA MoveQuiet ==
    ASSUME TypeOK, SequenceInv, NEW t \in Tasks, NEW v,
           task' = [task EXCEPT ![t] = v], v.pc \notin {"announce", "finalize"},
           UNCHANGED <<boot, sequence, ledger, crashes>>
    PROVE  SequenceInv'
<1>1. task'[t] = v /\ \A u \in Tasks \ {t} : task'[u] = task[u]
  BY DEF TypeOK
<1>2. ASSUME NEW u \in Tasks, Calling(u)'
      PROVE  Calling(u) /\ task'[u] = task[u]
  BY <1>1, <1>2 DEF Calling
<1> QED
  BY <1>1, <1>2 DEF SequenceInv

\* A step of a task that neither records an occurrence nor takes a number.
LEMMA QuietStep ==
    ASSUME CaptureInv, NEW t \in Tasks, task[t] \in Task, NEW v, NEW r,
           TaskMoves(t, v, r), TaskFits(t, v, r), SameFiles(t, v, r),
           v.pc \notin {"announce", "finalize"}, UNCHANGED <<boot, sequence, server>>
    PROVE  CaptureInv'
<1>1. TaskInv' /\ RowInv' /\ HeldInv' /\ FileInv'
  BY MoveTasks, MoveRows, MoveHeld, MoveFiles DEF CaptureInv
<1>2. /\ boot' \in 0..MaxCrashes /\ sequence' \in 0..MaxSequence /\ stored' \subseteq Hashes
      /\ ledger' \subseteq (0..MaxCrashes) \X Nat \X Paths \X Hashes
  BY DEF CaptureInv, TypeOK, server
<1>3. TypeOK'
  BY <1>2, MoveTypes DEF CaptureInv
<1>4. task' = [task EXCEPT ![t] = v] /\ crashes' = crashes /\ ledger' = ledger
  BY DEF TaskMoves, server
<1>5. SequenceInv'
  BY <1>4, MoveQuiet DEF CaptureInv
<1> QED
  BY <1>1, <1>3, <1>5 DEF CaptureInv

\* What is known of a task that is at work, and of its row.
LEMMA AtWork ==
    ASSUME CaptureInv, NEW t \in Tasks, task[t].pc \in Pcs
    PROVE  /\ task[t] \in Task /\ task[t] # Idle
           /\ task[t].id \in Rows /\ task[t].snap \in Row
           /\ row[task[t].id] \in Row /\ row[task[t].id] # None
           /\ TaskAnyway(task[t], row[task[t].id], gaps)
           /\ row[task[t].id].state = "gap_recorded" => task[t].id \in gaps
           /\ task[t].id \notin doubled => /\ TaskAlone(task[t], row[task[t].id], ledger, spool)
                                           /\ RowAlone(row[task[t].id], ledger, spool)
<1>1. task[t] \in Task /\ task[t] # Idle
  BY TaskShape DEF CaptureInv
<1>2. task[t].id \in Rows /\ task[t].snap \in Row
  BY <1>1 DEF Task
<1>3. TaskAnyway(task[t], row[task[t].id], gaps)
  BY <1>1 DEF CaptureInv, TaskInv
<1>4. row[task[t].id] \in Row /\ row[task[t].id] # None
  BY <1>2, <1>3, RowShape DEF CaptureInv, TaskAnyway
<1>5. /\ row[task[t].id].state = "gap_recorded" => task[t].id \in gaps
      /\ task[t].id \notin doubled => RowAlone(row[task[t].id], ledger, spool)
  BY <1>2, <1>4 DEF CaptureInv, RowInv
<1>6. task[t].id \notin doubled => TaskAlone(task[t], row[task[t].id], ledger, spool)
  BY <1>1 DEF CaptureInv, TaskInv, Alone
<1> QED
  BY <1>1, <1>2, <1>3, <1>4, <1>5, <1>6

\* A step that leaves the row as it is.
LEMMA StayStep ==
    ASSUME CaptureInv, NEW t \in Tasks, task[t].pc \in Pcs, NEW v,
           task' = [task EXCEPT ![t] = v], v = Idle \/ (v \in Task /\ v.id = task[t].id),
           UNCHANGED <<row, spool, held, doubled, crashes, boot, sequence, server>>,
           due' \subseteq Rows, gaps \subseteq gaps', gaps' \subseteq Rows,
           v # Idle => /\ v.snap = task[t].snap \/ v.snap = row[task[t].id]
                       /\ TaskAnyway(v, row[task[t].id], gaps')
                       /\ task[t].id \notin doubled => TaskAlone(v, row[task[t].id], ledger, spool),
           v.pc \notin {"announce", "finalize"}
    PROVE  CaptureInv'
<1> DEFINE r == row[task[t].id]
<1>1. /\ task[t] \in Task /\ task[t].id \in Rows /\ r \in Row /\ r # None
      /\ r.state = "gap_recorded" => task[t].id \in gaps
      /\ task[t].id \notin doubled => RowAlone(r, ledger, spool)
  BY AtWork
<1>2. row' = [row EXCEPT ![task[t].id] = r]
  BY <1>1 DEF CaptureInv, TypeOK
<1>3. TaskMoves(t, v, r)
  <2>1. spool' \in [Files -> {"new", "present", "damaged", "gone"}]
    BY DEF CaptureInv, TypeOK
  <2>2. r.state \notin Terminal => Active(task[t].id)
    BY <1>1 DEF Active
  <2>3. ledger \subseteq ledger'
    BY DEF server
  <2> QED
    BY <1>1, <1>2, <2>1, <2>2, <2>3 DEF TaskMoves
<1>4. TaskFits(t, v, r)
  BY <1>1 DEF TaskFits, server
<1>5. SameFiles(t, v, r)
  BY DEF SameFiles
<1> QED
  BY <1>1, <1>3, <1>4, <1>5, QuietStep

\* The state column is written, or the unique index refuses it.
LEMMA TransitionStep ==
    ASSUME CaptureInv, NEW t \in Tasks, task[t].pc \in Pcs, NEW s \in States, NEW next \in Pcs,
           transition(t, s, next), UNCHANGED <<due, gaps, boot, sequence, spool, held, server, history>>,
           s # "gap_recorded", next \notin {"announce", "finalize", "open", "hashed", "finish_gap"},
           next \in Sent \ Proven => task[t].snap.sha # None,
           task[t].id \notin doubled =>
             /\ row[task[t].id].state \notin Terminal
             /\ s \in StatesAt(next)
             /\ next \in Sent => task[t].snap.sha = row[task[t].id].sha
             /\ next \in Proven \/ (next = "announced" /\ task[t].hit) \/ s \in Proven =>
                  Evidence(row[task[t].id], ledger)
             /\ s \in Upload => row[task[t].id].file # None /\ spool[row[task[t].id].file] \in Kept
    PROVE  CaptureInv'
<1> DEFINE c == task[t].id
<1>1. /\ task[t] \in Task /\ task[t] # Idle /\ c \in Rows /\ row[c] \in Row /\ row[c] # None
      /\ TaskAnyway(task[t], row[c], gaps)
  BY AtWork
<1>u. UNCHANGED <<spool, held, doubled, crashes, boot, sequence, server>> /\ due' \subseteq Rows
      /\ gaps \subseteq gaps' /\ gaps' \subseteq Rows
  BY DEF history, CaptureInv, TypeOK
<1>t. task \in [Tasks -> {Idle} \cup Task] /\ row \in [Rows -> Row \cup {None}]
  BY DEF CaptureInv, TypeOK
<1>2. CASE s \in Terminal \/ Unique(c)
  <2> DEFINE v == [task[t] EXCEPT !.pc = next]
             r == [row[c] EXCEPT !.state = s]
  <2>1. /\ v \in Task /\ v.pc = next /\ v.id = c /\ v.snap = task[t].snap /\ v.hit = task[t].hit
        /\ v # Idle
    BY <1>1, GotoValue, TaskNotIdle
  <2>2. r \in Row /\ r.state = s /\ r.path = row[c].path /\ r.sha = row[c].sha /\ r.file = row[c].file
    BY <1>1, StateValue
  <2>3. task' = [task EXCEPT ![t] = v]
    BY <1>2, <1>t DEF transition, Goto
  <2>4. row' = [row EXCEPT ![c] = r]
    BY <1>1, <1>2, <1>t DEF transition
  <2>5. r # None
    BY <2>2, NoneAssumption
  <2>6. Evidence(r, ledger) <=> Evidence(row[c], ledger)
    BY <2>2 DEF Evidence
  <2> HIDE DEF v, r
  <2>7. TaskMoves(t, v, r)
    <3>1. spool' \in [Files -> {"new", "present", "damaged", "gone"}]
      BY <1>u DEF CaptureInv, TypeOK
    <3>2. ledger \subseteq ledger'
      BY <1>u DEF server
    <3> QED
      BY <1>1, <1>2, <1>u, <2>1, <2>2, <2>3, <2>4, <3>1, <3>2 DEF TaskMoves
  <2>8. TaskAnyway(v, r, gaps')
    BY <1>1, <1>u, <2>1, <2>2, <2>5 DEF TaskAnyway
  <2>9. ASSUME c \notin doubled
        PROVE  TaskAlone(v, r, ledger', spool') /\ RowAlone(r, ledger', spool')
    <3>1. ledger' = ledger /\ spool' = spool
      BY <1>u DEF server
    <3>2. TaskAlone(v, r, ledger, spool)
      BY <2>1, <2>2, <2>6, <2>9 DEF TaskAlone
    <3>3. RowAlone(r, ledger, spool)
      BY <2>2, <2>6, <2>9 DEF RowAlone, Proven
    <3> QED
      BY <3>1, <3>2, <3>3
  <2>10. TaskFits(t, v, r)
    BY <2>2, <2>8, <2>9 DEF TaskFits
  <2>11. SameFiles(t, v, r)
    BY <2>1, <2>2 DEF SameFiles
  <2> QED
    BY <1>1, <1>u, <2>1, <2>7, <2>10, <2>11, QuietStep
<1>3. CASE ~(s \in Terminal \/ Unique(c))
  <2> DEFINE v == [task[t] EXCEPT !.pc = "retry"]
  <2>1. /\ v \in Task /\ v.pc = "retry" /\ v.id = c /\ v.snap = task[t].snap
        /\ v # Idle
    BY <1>1, GotoValue, TaskNotIdle DEF Pcs
  <2>3. task' = [task EXCEPT ![t] = v] /\ row' = row
    BY <1>3, <1>t DEF transition, Goto
  <2> HIDE DEF v
  <2>4. TaskAnyway(v, row[c], gaps')
    BY <1>1, <1>u, <2>1 DEF TaskAnyway, Sent
  <2>5. c \notin doubled => TaskAlone(v, row[c], ledger, spool)
    BY <1>1, <2>1 DEF TaskAlone, StatesAt, Sent, Proven, Row
  <2> QED
    BY <1>1, <1>u, <2>1, <2>3, <2>4, <2>5, StayStep
<1> QED
  BY <1>2, <1>3

LEMMA GotoStep ==
    ASSUME CaptureInv, NEW t \in Tasks, task[t].pc \in Pcs, NEW next \in Pcs, Goto(t, next),
           UNCHANGED <<row, spool, held, doubled, crashes, boot, sequence, server>>,
           due' \subseteq Rows, gaps \subseteq gaps', gaps' \subseteq Rows,
           next \notin {"announce", "finalize", "open", "hashed"},
           next \in Sent \ Proven => task[t].snap.sha # None,
           next = "finish_gap" => task[t].id \in gaps',
           task[t].id \notin doubled =>
             /\ row[task[t].id].state \in StatesAt(next)
             /\ next \in Sent => task[t].snap.sha = row[task[t].id].sha
             /\ next \in Proven \/ (next = "announced" /\ task[t].hit) => Evidence(row[task[t].id], ledger)
    PROVE  CaptureInv'
<1> DEFINE c == task[t].id
           v == [task[t] EXCEPT !.pc = next]
<1>1. /\ task[t] \in Task /\ c \in Rows /\ row[c] \in Row /\ row[c] # None
      /\ TaskAnyway(task[t], row[c], gaps)
  BY AtWork
<1>2. /\ v \in Task /\ v.pc = next /\ v.id = c /\ v.snap = task[t].snap /\ v.hit = task[t].hit
  BY <1>1, GotoValue
<1>3. task' = [task EXCEPT ![t] = v]
  BY DEF Goto, CaptureInv, TypeOK
<1> HIDE DEF v
<1>4. TaskAnyway(v, row[c], gaps')
  BY <1>1, <1>2 DEF TaskAnyway
<1>5. c \notin doubled => TaskAlone(v, row[c], ledger, spool)
  BY <1>1, <1>2 DEF TaskAlone
<1> QED
  BY <1>1, <1>2, <1>3, <1>4, <1>5, StayStep

LEMMA ReturnStep ==
    ASSUME CaptureInv, NEW t \in Tasks, task[t].pc \in Pcs, Return(t),
           UNCHANGED <<row, gaps, spool, held, doubled, crashes, boot, sequence, server>>, due' \subseteq Rows
    PROVE  CaptureInv'
<1>1. task' = [task EXCEPT ![t] = Idle] /\ Idle.pc \notin {"announce", "finalize"}
  BY DEF Return, Idle
<1>2. gaps \subseteq gaps' /\ gaps' \subseteq Rows
  BY DEF CaptureInv, TypeOK
<1> QED
  BY <1>1, <1>2, StayStep

\* retry_or_fail may be called while the row is active.
LEMMA RetryPc ==
    ASSUME NEW t \in Tasks
    PROVE  retry_or_fail(t) \in {"gap", "retry"}
  BY DEF retry_or_fail

LEMMA GiveUpStep ==
    ASSUME CaptureInv, NEW t \in Tasks, task[t].pc \in Pcs, NEW next \in {"gap", "retry"}, Goto(t, next),
           UNCHANGED <<row, due, gaps, spool, held, doubled, crashes, boot, sequence, server>>,
           task[t].pc # "remove"
    PROVE  CaptureInv'
<1>1. row[task[t].id] \in Row /\ (task[t].id \notin doubled => TaskAlone(task[t], row[task[t].id], ledger, spool))
  BY AtWork
<1>2. task[t].id \notin doubled => row[task[t].id].state \in StatesAt(next)
  BY <1>1 DEF TaskAlone, StatesAt, Sent, Row
<1>3. /\ next \in Pcs /\ next \notin {"announce", "finalize", "open", "hashed"}
      /\ next \notin Sent /\ next \notin Proven /\ next # "announced" /\ next # "finish_gap"
  BY DEF Pcs, Sent, Proven
<1>4. due' \subseteq Rows /\ gaps \subseteq gaps' /\ gaps' \subseteq Rows
  BY DEF CaptureInv, TypeOK
<1> QED
  BY <1>2, <1>3, <1>4, GotoStep

(***************************************************************************)
(* The steps of a task, one lemma each for the longer ones                 *)
(***************************************************************************)
LEMMA OpenStep ==
    ASSUME CaptureInv, NEW t \in Tasks, Open(t)
    PROVE  CaptureInv'
<1>0. task[t].pc = "open" /\ task[t].pc \in Pcs
  BY DEF Open, Pcs
<1>1. /\ row[task[t].id] \in Row
      /\ task[t].id \notin doubled =>
           /\ row[task[t].id].state \notin Terminal
           /\ task[t].snap.state = row[task[t].id].state
  BY <1>0, AtWork DEF TaskAlone, StatesAt
<1>s. task[t].snap.state \in States
  BY <1>0, AtWork DEF Row
<1>2. CASE task[t].snap.state \in {"debouncing", "observed"} /\ transition(t, "opening", "copy")
  <2>1. "opening" \in StatesAt("copy") /\ "opening" \in States /\ "copy" \in Pcs
    BY DEF StatesAt, States, Terminal, Sent, Pcs
  <2>2. "copy" \notin Sent /\ "copy" \notin Proven /\ "opening" \notin Proven /\ "opening" \notin Upload
    BY DEF Sent, Proven, Upload
  <2>3. UNCHANGED <<due, gaps, boot, sequence, spool, held, server, history>>
    BY DEF Open
  <2> QED
    BY <1>0, <1>1, <1>2, <2>1, <2>2, <2>3, TransitionStep
<1>3. CASE /\ task[t].snap.state \notin {"debouncing", "observed"}
           /\ Goto(t, IF task[t].snap.state \in {"opening", "copying_and_hashing"} THEN "copy" ELSE "reload")
           /\ UNCHANGED row
  <2>1. PICK next \in {"copy", "reload"} :
          /\ Goto(t, next)
          /\ next = "copy" => task[t].snap.state \in {"opening", "copying_and_hashing"}
          /\ next = "reload" => task[t].snap.state \notin {"opening", "copying_and_hashing"}
    BY <1>3
  <2>2. task[t].id \notin doubled => row[task[t].id].state \in StatesAt(next)
    BY <1>1, <1>s, <1>3, <2>1 DEF StatesAt, States, Terminal, Upload, Sent
  <2>3. next \in Pcs /\ next \notin Sent /\ next \notin Proven
    BY DEF Pcs, Sent, Proven
  <2>4. UNCHANGED <<row, spool, held, doubled, crashes, boot, sequence, server>> /\ due' \subseteq Rows
        /\ gaps \subseteq gaps' /\ gaps' \subseteq Rows
    BY <1>3 DEF Open, history, CaptureInv, TypeOK
  <2> QED
    BY <1>0, <2>1, <2>2, <2>3, <2>4, GotoStep
<1> QED
  BY <1>2, <1>3 DEF Open

LEMMA CopyStep ==
    ASSUME CaptureInv, NEW t \in Tasks, Copy(t)
    PROVE  CaptureInv'
<1>0. task[t].pc = "copy" /\ task[t].pc \in Pcs
  BY DEF Copy, Pcs
<1>1. task[t].id \notin doubled => row[task[t].id].state \notin Terminal
  BY <1>0, AtWork DEF TaskAlone, StatesAt
<1>2. PICK next \in {"read", "read_full"} : transition(t, "copying_and_hashing", next)
  BY DEF Copy
<1>3. "copying_and_hashing" \in StatesAt(next) /\ "copying_and_hashing" \in States /\ next \in Pcs
  BY DEF StatesAt, States, Terminal, Sent, Pcs
<1>4. /\ next \notin Sent /\ next \notin Proven /\ "copying_and_hashing" \notin Proven
      /\ "copying_and_hashing" \notin Upload
  BY DEF Sent, Proven, Upload
<1>5. UNCHANGED <<due, gaps, boot, sequence, spool, held, server, history>>
  BY DEF Copy
<1> QED
  BY <1>0, <1>1, <1>2, <1>3, <1>4, <1>5, TransitionStep

LEMMA ReadFailStep ==
    ASSUME CaptureInv, NEW t \in Tasks, ReadFail(t)
    PROVE  CaptureInv'
<1>0. task[t].pc \in {"read", "read_full"} /\ task[t].pc \in Pcs
  BY DEF ReadFail, Pcs
<1>u. UNCHANGED <<row, due, gaps, spool, held, doubled, crashes, boot, sequence, server>>
  BY DEF ReadFail, db, history
<1>1. CASE Goto(t, "gap") \/ Goto(t, retry_or_fail(t))
  <2>1. PICK next \in {"gap", "retry"} : Goto(t, next)
    BY <1>1, RetryPc
  <2> QED
    BY <1>0, <1>u, <2>1, GiveUpStep
<1>2. CASE task[t].pc = "read_full" /\ Goto(t, "defer")
  <2>1. row[task[t].id] \in Row /\ (task[t].id \notin doubled => TaskAlone(task[t], row[task[t].id], ledger, spool))
    BY <1>0, AtWork
  <2>2. task[t].id \notin doubled => row[task[t].id].state \in StatesAt("defer")
    BY <1>2, <2>1 DEF TaskAlone, StatesAt, Sent, Row
  <2>3. "defer" \in Pcs /\ "defer" \notin Sent /\ "defer" \notin Proven
    BY DEF Pcs, Sent, Proven
  <2>4. due' \subseteq Rows /\ gaps \subseteq gaps' /\ gaps' \subseteq Rows
    BY <1>u DEF CaptureInv, TypeOK
  <2> QED
    BY <1>0, <1>u, <1>2, <2>2, <2>3, <2>4, GotoStep
<1> QED
  BY <1>1, <1>2 DEF ReadFail

LEMMA AdvanceStep ==
    ASSUME CaptureInv, NEW t \in Tasks, Advance(t)
    PROVE  CaptureInv'
<1> DEFINE c == task[t].id
           pc == task[t].pc
<1>0. pc \in Transitions /\ pc \in Pcs /\ transition(t, pc, Then(t))
  BY DEF Advance, Pcs
<1>u. UNCHANGED <<due, gaps, boot, sequence, spool, held, server, history>>
  BY DEF Advance
<1>1. /\ TaskAnyway(task[t], row[c], gaps) /\ row[c] \in Row
      /\ c \notin doubled => TaskAlone(task[t], row[c], ledger, spool) /\ RowAlone(row[c], ledger, spool)
  BY <1>0, AtWork
<1>2. PICK next : next = Then(t)
  OBVIOUS
<1>3. /\ pc = "announced" => next = IF task[t].hit THEN "dedup_hit" ELSE "upload_required"
      /\ pc = "dedup_hit" => next = "occurrence_queued"
      /\ pc = "upload_required" => next = "uploading"
      /\ pc = "uploading" => next = "read_spool"
      /\ pc = "finalizing" => next = "final_sequence"
      /\ pc = "occurrence_queued" => next = "complete"
      /\ pc = "complete" => next = "remove"
  BY <1>0, <1>2 DEF Then, Transitions
<1>4. pc \in {"announced", "dedup_hit", "upload_required", "uploading", "finalizing", "occurrence_queued", "complete"}
  BY <1>0 DEF Transitions
<1>5. /\ next \in {"dedup_hit", "upload_required", "occurrence_queued", "uploading", "read_spool",
                   "final_sequence", "complete", "remove"}
  BY <1>3, <1>4
<1>6. /\ next \in Pcs /\ pc \in States /\ pc # "gap_recorded"
      /\ next \notin {"announce", "finalize", "open", "hashed", "finish_gap"}
  BY <1>4, <1>5 DEF Pcs, Transitions, States, Upload, Terminal
<1>7. pc \in Sent
  BY <1>4 DEF Sent
<1>8. next \in Sent \ Proven => task[t].snap.sha # None
  <2>1. next \in Sent \ Proven => pc \notin Proven
    BY <1>3, <1>4, <1>5 DEF Proven, Sent
  <2> QED
    BY <1>1, <1>7, <2>1 DEF TaskAnyway
<1>9. ASSUME c \notin doubled
      PROVE  /\ row[c].state \notin Terminal
             /\ pc \in StatesAt(next)
             /\ task[t].snap.sha = row[c].sha
             /\ next \in Proven \/ (next = "announced" /\ task[t].hit) \/ pc \in Proven => Evidence(row[c], ledger)
             /\ pc \in Upload => row[c].file # None /\ spool[row[c].file] \in Kept
  <2>1. TaskAlone(task[t], row[c], ledger, spool) /\ RowAlone(row[c], ledger, spool)
    BY <1>1, <1>9
  <2>2. row[c].state \in StatesAt(pc)
    BY <2>1 DEF TaskAlone
  <2>3. row[c].state \notin Terminal
    BY <2>2, <1>4 DEF StatesAt
  <2>4. pc \in StatesAt(next)
    BY <1>3, <1>4, <1>5 DEF StatesAt, States, Terminal, Upload, Sent
  <2>5. next \in Proven \/ (next = "announced" /\ task[t].hit) \/ pc \in Proven =>
          pc \in Proven \/ (pc = "announced" /\ task[t].hit)
    BY <1>3, <1>4, <1>5 DEF Proven
  <2>6. pc \in Upload => row[c].state \in Upload
    BY <2>2, <1>4 DEF StatesAt, Upload, Sent
  <2> QED
    BY <2>1, <2>3, <2>4, <2>5, <2>6, <1>7 DEF TaskAlone, RowAlone
<1> HIDE DEF pc
<1>10. transition(t, pc, next)
  BY <1>0, <1>2
<1> QED
  BY <1>0, <1>u, <1>6, <1>8, <1>9, <1>10, TransitionStep DEF pc

LEMMA SetHashedStep ==
    ASSUME CaptureInv, NEW t \in Tasks, set_hashed(t)
    PROVE  CaptureInv'
<1> DEFINE c == task[t].id
<1>0. task[t].pc = "hashed" /\ task[t].pc \in Pcs
  BY DEF set_hashed, Pcs
<1>1. /\ task[t] \in Task /\ task[t] # Idle /\ c \in Rows /\ row[c] \in Row /\ row[c] # None /\ task[t].snap \in Row
      /\ TaskAnyway(task[t], row[c], gaps)
      /\ c \notin doubled => TaskAlone(task[t], row[c], ledger, spool) /\ RowAlone(row[c], ledger, spool)
  BY <1>0, AtWork
<1>u. UNCHANGED <<due, gaps, spool, held, doubled, crashes, boot, sequence, server>>
  BY DEF set_hashed, history
<1>t. task \in [Tasks -> {Idle} \cup Task] /\ row \in [Rows -> Row \cup {None}]
  BY DEF CaptureInv, TypeOK
<1>2. CASE Unique(c)
  <2> DEFINE v == [task[t] EXCEPT !.pc = "reload"]
             r == [row[c] EXCEPT !.state = "hashed", !.sha = task[t].snap.sha, !.file = task[t].snap.file]
  <2>1. /\ v \in Task /\ v.pc = "reload" /\ v.id = c /\ v.snap = task[t].snap
        /\ v # Idle
    BY <1>1, GotoValue, TaskNotIdle DEF Pcs
  <2>2. /\ r \in Row /\ r.state = "hashed" /\ r.path = row[c].path
        /\ r.sha = task[t].snap.sha /\ r.file = task[t].snap.file
    BY <1>1 DEF Row, States, Upload
  <2>3. task' = [task EXCEPT ![t] = v]
    BY <1>2, <1>t DEF set_hashed, Goto
  <2>4. row' = [row EXCEPT ![c] = r]
    BY <1>1, <1>2, <1>t DEF set_hashed
  <2>5. r # None
    BY <2>2, NoneAssumption
  <2> HIDE DEF v, r
  <2>7. TaskMoves(t, v, r)
    <3>1. spool' \in [Files -> {"new", "present", "damaged", "gone"}] /\ due' \subseteq Rows /\ gaps' \subseteq Rows
      BY <1>u DEF CaptureInv, TypeOK
    <3>2. ledger \subseteq ledger'
      BY <1>u DEF server
    <3> QED
      BY <1>1, <1>2, <1>u, <2>1, <2>2, <2>3, <2>4, <3>1, <3>2 DEF TaskMoves
  <2>8. TaskAnyway(v, r, gaps')
    BY <1>1, <1>u, <2>1, <2>2, <2>5 DEF TaskAnyway, Sent
  <2>9. ASSUME c \notin doubled
        PROVE  TaskAlone(v, r, ledger', spool') /\ RowAlone(r, ledger', spool')
    <3>1. ledger' = ledger /\ spool' = spool
      BY <1>u DEF server
    <3>2. TaskAlone(v, r, ledger, spool)
      BY <2>1, <2>2 DEF TaskAlone, StatesAt, States, Upload, Terminal, Sent, Proven
    <3>3. RowAlone(r, ledger, spool)
      BY <1>0, <1>1, <2>2, <2>9 DEF RowAlone, TaskAlone
    <3> QED
      BY <3>1, <3>2, <3>3
  <2>10. TaskFits(t, v, r)
    BY <2>2, <2>8, <2>9 DEF TaskFits
  <2>11. SameFiles(t, v, r)
    BY <2>1, <2>2 DEF SameFiles
  <2> QED
    BY <1>1, <1>u, <2>1, <2>7, <2>10, <2>11, QuietStep
<1>3. CASE ~Unique(c)
  BY <1>0, <1>u, <1>3, GiveUpStep DEF set_hashed
<1> QED
  BY <1>2, <1>3

LEMMA ReloadStep ==
    ASSUME CaptureInv, NEW t \in Tasks, reload(t)
    PROVE  CaptureInv'
<1> DEFINE c == task[t].id
<1>0. task[t].pc = "reload" /\ task[t].pc \in Pcs
  BY DEF reload, Pcs
<1>1. /\ task[t] \in Task /\ task[t] # Idle /\ c \in Rows /\ row[c] \in Row /\ row[c] # None
      /\ TaskAnyway(task[t], row[c], gaps)
      /\ c \notin doubled => TaskAlone(task[t], row[c], ledger, spool) /\ RowAlone(row[c], ledger, spool)
  BY <1>0, AtWork
<1>u. /\ UNCHANGED <<row, due, gaps, spool, held, doubled, crashes, boot, sequence, server>>
      /\ due' \subseteq Rows /\ gaps \subseteq gaps' /\ gaps' \subseteq Rows
  BY DEF reload, db, history, CaptureInv, TypeOK
<1>t. task \in [Tasks -> {Idle} \cup Task] /\ row \in [Rows -> Row \cup {None}]
  BY DEF CaptureInv, TypeOK
<1>2. ASSUME NEW next \in {"complete", "retry", "sequence"},
             task' = [task EXCEPT ![t].snap = row[c], ![t].pc = next],
             next = "complete" => row[c].state \in {"dedup_hit", "occurrence_queued"},
             next = "sequence" => row[c].state \in Upload /\ row[c].sha # None
      PROVE  CaptureInv'
  <2> DEFINE v == [task[t] EXCEPT !.snap = row[c], !.pc = next]
  <2>1. v \in Task /\ v.pc = next /\ v.id = c /\ v.snap = row[c]
    BY <1>1 DEF Task, Pcs, Transitions
  <2>2. task' = [task EXCEPT ![t] = v]
    BY <1>2, <1>t
  <2> HIDE DEF v
  <2>3. TaskAnyway(v, row[c], gaps')
    BY <1>1, <1>2, <2>1 DEF TaskAnyway, Proven, Sent
  <2>4. ASSUME c \notin doubled
        PROVE  TaskAlone(v, row[c], ledger, spool)
    <3>1. row[c].state \in States /\ row[c].state \in Upload \cup {"dedup_hit", "occurrence_queued"}
      BY <1>0, <1>1, <2>4 DEF TaskAlone, StatesAt
    <3>2. row[c].state \in StatesAt(next)
      BY <1>2, <3>1 DEF StatesAt, Upload, Terminal, Sent
    <3>3. next = "complete" => Evidence(row[c], ledger)
      BY <1>1, <1>2, <2>4 DEF RowAlone
    <3> QED
      BY <2>1, <3>2, <3>3 DEF TaskAlone, Proven
  <2> QED
    BY <1>0, <1>1, <1>u, <2>1, <2>2, <2>3, <2>4, StayStep
<1>3. CASE task' = [task EXCEPT ![t] = Idle]
  BY <1>0, <1>u, <1>3, ReturnStep DEF Return
<1> QED
  BY <1>2, <1>3 DEF reload

LEMMA ReadSpoolStep ==
    ASSUME CaptureInv, NEW t \in Tasks, ReadSpool(t) \/ UploadCall(t)
    PROVE  CaptureInv'
<1> DEFINE c == task[t].id
<1>0. task[t].pc \in {"read_spool", "upload"} /\ task[t].pc \in Pcs
  BY DEF ReadSpool, UploadCall, Pcs
<1>1. /\ row[c] \in Row /\ TaskAnyway(task[t], row[c], gaps)
      /\ c \notin doubled => TaskAlone(task[t], row[c], ledger, spool)
  BY <1>0, AtWork
<1>u. /\ UNCHANGED <<row, due, gaps, spool, held, doubled, crashes, boot, sequence, server>>
      /\ due' \subseteq Rows /\ gaps \subseteq gaps' /\ gaps' \subseteq Rows
  BY DEF ReadSpool, UploadCall, db, history, CaptureInv, TypeOK
<1>2. PICK next \in {"gap", "retry", "upload", "finalizing"} : Goto(t, next)
  BY RetryPc DEF ReadSpool, UploadCall
<1>3. CASE next \in {"gap", "retry"}
  BY <1>0, <1>u, <1>2, <1>3, GiveUpStep
<1>4. CASE next \in {"upload", "finalizing"}
  <2>1. next \in Pcs /\ next \in Sent /\ next \notin Proven /\ task[t].pc \in Sent \ Proven
    BY <1>0, <1>4 DEF Pcs, Transitions, Sent, Proven
  <2>2. c \notin doubled => row[c].state \in StatesAt(next)
    BY <1>0, <1>1, <1>4 DEF TaskAlone, StatesAt, Sent
  <2>3. task[t].snap.sha # None /\ (c \notin doubled => task[t].snap.sha = row[c].sha)
    BY <1>1, <2>1 DEF TaskAnyway, TaskAlone
  <2> QED
    BY <1>0, <1>u, <1>2, <1>4, <2>1, <2>2, <2>3, GotoStep
<1> QED
  BY <1>3, <1>4

LEMMA RemoveStep ==
    ASSUME CaptureInv, NEW t \in Tasks, Remove(t)
    PROVE  CaptureInv'
<1> DEFINE c == task[t].id
<1>0. task[t].pc = "remove" /\ task[t].pc \in Pcs
  BY DEF Remove, Pcs
<1>1. /\ task[t] \in Task /\ c \in Rows /\ row[c] \in Row /\ row[c] # None
      /\ row[c].state = "gap_recorded" => c \in gaps
      /\ c \notin doubled => TaskAlone(task[t], row[c], ledger, spool) /\ RowAlone(row[c], ledger, spool)
  BY <1>0, AtWork
<1>u. /\ UNCHANGED <<row, due, gaps, held, doubled, crashes, boot, sequence, server>>
      /\ due' \subseteq Rows /\ gaps \subseteq gaps' /\ gaps' \subseteq Rows
      /\ task' = [task EXCEPT ![t] = Idle]
      /\ spool' = [f \in Files |-> IF f = task[t].snap.file THEN "gone" ELSE spool[f]]
  BY DEF Remove, Return, db, history, CaptureInv, TypeOK
<1>2. row' = [row EXCEPT ![c] = row[c]]
  BY <1>1, <1>u DEF CaptureInv, TypeOK
<1>3. TaskMoves(t, Idle, row[c])
  <2>1. /\ spool' \in [Files -> {"new", "present", "damaged", "gone"}]
        /\ \A f \in Files : /\ spool[f] # "new" => spool'[f] # "new"
                            /\ spool[f] \in Kept => spool'[f] \in Kept \/ f = task[t].snap.file
    BY <1>u DEF CaptureInv, TypeOK
  <2>2. row[c].state \notin Terminal => Active(c)
    BY <1>1 DEF Active
  <2>3. ledger \subseteq ledger'
    BY <1>u DEF server
  <2> QED
    BY <1>1, <1>2, <1>u, <2>1, <2>2, <2>3 DEF TaskMoves
<1>4. TaskFits(t, Idle, row[c])
  <2>1. ASSUME c \notin doubled PROVE RowAlone(row[c], ledger', spool')
    <3>1. row[c].state = "complete" /\ Evidence(row[c], ledger)
      BY <1>0, <1>1, <2>1 DEF TaskAlone, StatesAt, RowAlone
    <3> QED
      BY <1>u, <3>1 DEF RowAlone, server, Upload
  <2> QED
    BY <1>1, <1>u, <2>1 DEF TaskFits
<1>5. SameFiles(t, Idle, row[c])
  BY DEF SameFiles
<1>6. Idle.pc \notin {"announce", "finalize"}
  BY DEF Idle
<1> QED
  BY <1>1, <1>u, <1>3, <1>4, <1>5, <1>6, QuietStep

LEMMA DeferStep ==
    ASSUME CaptureInv, NEW t \in Tasks, Defer(t)
    PROVE  CaptureInv'
<1>1. task[t].pc \in Pcs
  BY DEF Defer, Pcs
<1>2. due' \subseteq Rows
  BY DEF Defer, CaptureInv, TypeOK
<1> QED
  BY <1>1, <1>2, ReturnStep DEF Defer, history

LEMMA SetRetryStep ==
    ASSUME CaptureInv, NEW t \in Tasks, set_retry(t)
    PROVE  CaptureInv'
<1> DEFINE c == task[t].id
<1>0. task[t].pc = "retry" /\ task[t].pc \in Pcs
  BY DEF set_retry, Pcs
<1>1. /\ task[t] \in Task /\ c \in Rows /\ row[c] \in Row /\ row[c] # None
      /\ row[c].state = "gap_recorded" => c \in gaps
      /\ c \notin doubled => RowAlone(row[c], ledger, spool)
  BY <1>0, AtWork
<1>u. /\ UNCHANGED <<gaps, spool, held, doubled, crashes, boot, sequence, server>>
      /\ due' \subseteq Rows /\ gaps \subseteq gaps' /\ gaps' \subseteq Rows
      /\ task' = [task EXCEPT ![t] = Idle]
  BY DEF set_retry, Return, history, CaptureInv, TypeOK
<1>2. PICK n \in 0..(MaxAttempts + 1) : n = IF row[c].attempts > MaxAttempts THEN row[c].attempts ELSE row[c].attempts + 1
  <2>1. row[c].attempts \in 0..(MaxAttempts + 1) /\ MaxAttempts \in Nat
    BY <1>1, CaptureAssumption DEF Row
  <2> QED
    BY <2>1
<1> DEFINE r == [row[c] EXCEPT !.attempts = n]
<1>3. /\ r \in Row /\ r.path = row[c].path /\ r.state = row[c].state /\ r.sha = row[c].sha
      /\ r.file = row[c].file
  BY <1>1 DEF Row
<1>4. row' = [row EXCEPT ![c] = r]
  BY <1>1, <1>2 DEF set_retry, CaptureInv, TypeOK
<1> HIDE DEF r
<1>5. TaskMoves(t, Idle, r)
  <2>1. spool' \in [Files -> {"new", "present", "damaged", "gone"}]
    BY <1>u DEF CaptureInv, TypeOK
  <2>2. r.state \notin Terminal => Active(c)
    BY <1>1, <1>3 DEF Active
  <2>3. ledger \subseteq ledger'
    BY <1>u DEF server
  <2> QED
    BY <1>1, <1>3, <1>4, <1>u, <2>1, <2>2, <2>3 DEF TaskMoves
<1>6. TaskFits(t, Idle, r)
  BY <1>1, <1>3, <1>u DEF TaskFits, RowAlone, Evidence, server
<1>7. SameFiles(t, Idle, r)
  BY <1>3 DEF SameFiles
<1>8. Idle.pc \notin {"announce", "finalize"}
  BY DEF Idle
<1> QED
  BY <1>1, <1>u, <1>5, <1>6, <1>7, <1>8, QuietStep

LEMMA RecordGapStep ==
    ASSUME CaptureInv, NEW t \in Tasks, record_gap(t)
    PROVE  CaptureInv'
<1> DEFINE c == task[t].id
<1>0. task[t].pc = "gap" /\ task[t].pc \in Pcs
  BY DEF record_gap, Pcs
<1>1. /\ row[c] \in Row /\ c \in Rows
      /\ c \notin doubled => TaskAlone(task[t], row[c], ledger, spool)
  BY <1>0, AtWork
<1>u. /\ UNCHANGED <<row, due, spool, held, doubled, crashes, boot, sequence, server>>
      /\ due' \subseteq Rows /\ gaps \subseteq gaps' /\ gaps' \subseteq Rows /\ c \in gaps'
      /\ Goto(t, "finish_gap")
  BY <1>1 DEF record_gap, history, CaptureInv, TypeOK
<1>2. "finish_gap" \in Pcs /\ "finish_gap" \notin Sent /\ "finish_gap" \notin Proven
  BY DEF Pcs, Sent, Proven
<1>3. c \notin doubled => row[c].state \in StatesAt("finish_gap")
  BY <1>0, <1>1 DEF TaskAlone, StatesAt, Sent
<1> QED
  BY <1>0, <1>u, <1>2, <1>3, GotoStep

LEMMA FinishGapStep ==
    ASSUME CaptureInv, NEW t \in Tasks, finish_gap(t)
    PROVE  CaptureInv'
<1> DEFINE c == task[t].id
<1>0. task[t].pc = "finish_gap" /\ task[t].pc \in Pcs
  BY DEF finish_gap, Pcs
<1>1. /\ task[t] \in Task /\ c \in Rows /\ row[c] \in Row /\ row[c] # None
      /\ c \in gaps
  BY <1>0, AtWork DEF TaskAnyway
<1>u. /\ UNCHANGED <<due, gaps, spool, held, doubled, crashes, boot, sequence, server>>
      /\ due' \subseteq Rows /\ gaps \subseteq gaps' /\ gaps' \subseteq Rows
      /\ task' = [task EXCEPT ![t] = Idle]
  BY DEF finish_gap, Return, history, CaptureInv, TypeOK
<1> DEFINE r == [row[c] EXCEPT !.state = "gap_recorded"]
<1>3. r \in Row /\ r.path = row[c].path /\ r.state = "gap_recorded" /\ r.file = row[c].file
  BY <1>1, StateValue DEF States, Terminal
<1>4. row' = [row EXCEPT ![c] = r]
  BY <1>1 DEF finish_gap, CaptureInv, TypeOK
<1> HIDE DEF r
<1>5. TaskMoves(t, Idle, r)
  <2>1. spool' \in [Files -> {"new", "present", "damaged", "gone"}]
    BY <1>u DEF CaptureInv, TypeOK
  <2>2. r.state \in Terminal
    BY <1>3 DEF Terminal
  <2>3. ledger \subseteq ledger'
    BY <1>u DEF server
  <2> QED
    BY <1>1, <1>3, <1>4, <1>u, <2>1, <2>2, <2>3 DEF TaskMoves
<1>6. TaskFits(t, Idle, r)
  BY <1>1, <1>3, <1>u DEF TaskFits, RowAlone, Upload
<1>7. SameFiles(t, Idle, r)
  BY <1>3 DEF SameFiles
<1>8. Idle.pc \notin {"announce", "finalize"}
  BY DEF Idle
<1> QED
  BY <1>1, <1>u, <1>5, <1>6, <1>7, <1>8, QuietStep

\* The spool file of a good read is new, so that nobody refers to it.
LEMMA ReadOkStep ==
    ASSUME CaptureInv, NEW t \in Tasks, ReadOk(t)
    PROVE  CaptureInv'
<1> DEFINE c == task[t].id
<1>0. task[t].pc = "read" /\ task[t].pc \in Pcs
  BY DEF ReadOk, Pcs
<1>1. /\ task[t] \in Task /\ task[t] # Idle /\ c \in Rows /\ row[c] \in Row /\ row[c] # None /\ task[t].snap \in Row
      /\ TaskAnyway(task[t], row[c], gaps)
      /\ row[c].state = "gap_recorded" => c \in gaps
      /\ c \notin doubled => TaskAlone(task[t], row[c], ledger, spool) /\ RowAlone(row[c], ledger, spool)
  BY <1>0, AtWork
<1>u. /\ UNCHANGED <<row, due, gaps, held, doubled, crashes, boot, sequence, server>>
      /\ due' \subseteq Rows /\ gaps' \subseteq Rows
  BY DEF ReadOk, db, history, CaptureInv, TypeOK
<1>t. /\ task \in [Tasks -> {Idle} \cup Task] /\ row \in [Rows -> Row \cup {None}]
      /\ spool \in [Files -> {"new", "present", "damaged", "gone"}]
  BY DEF CaptureInv, TypeOK
<1>2. PICK h \in Hashes, f \in Files :
        /\ spool[f] = "new" /\ spool' = [spool EXCEPT ![f] = "present"]
        /\ task' = [task EXCEPT ![t].pc = "hashed", ![t].snap.sha = h, ![t].snap.file = f]
  BY DEF ReadOk
<1> DEFINE s == [task[t].snap EXCEPT !.sha = h, !.file = f]
           v == [task[t] EXCEPT !.pc = "hashed", !.snap = s]
<1>3. s \in Row /\ s.path = task[t].snap.path /\ s.file = f
  BY <1>1 DEF Row
<1>4. v \in Task /\ v.pc = "hashed" /\ v.id = c /\ v.snap = s
  <2> HIDE DEF s
  <2> QED
    BY <1>1, <1>3 DEF Task, Pcs
<1>5. task' = [task EXCEPT ![t] = v]
  BY <1>1, <1>2, <1>t
<1>6. f # None /\ v # Idle
  BY <1>4, NoneAssumption, TaskNotIdle
<1>7. row' = [row EXCEPT ![c] = row[c]]
  BY <1>1, <1>u, <1>t
<1> HIDE DEF s, v
<1>8. TaskMoves(t, v, row[c])
  <2>1. /\ spool' \in [Files -> {"new", "present", "damaged", "gone"}]
        /\ \A g \in Files : /\ spool[g] # "new" => spool'[g] # "new"
                            /\ spool[g] \in Kept => spool'[g] \in Kept
    BY <1>2, <1>t DEF Kept
  <2>2. row[c].state \notin Terminal => Active(c)
    BY <1>1 DEF Active
  <2>3. ledger \subseteq ledger'
    BY <1>u DEF server
  <2> QED
    BY <1>1, <1>4, <1>5, <1>7, <1>u, <2>1, <2>2, <2>3 DEF TaskMoves
<1>9. TaskFits(t, v, row[c])
  <2>1. TaskAnyway(v, row[c], gaps')
    BY <1>1, <1>3, <1>4, <1>u DEF TaskAnyway, Sent
  <2>2. ASSUME c \notin doubled
        PROVE  TaskAlone(v, row[c], ledger', spool') /\ RowAlone(row[c], ledger', spool')
    <3>1. row[c].state = "copying_and_hashing"
      BY <1>0, <1>1, <2>2 DEF TaskAlone, StatesAt
    <3>2. spool'[f] \in Kept
      BY <1>2, <1>t DEF Kept
    <3>3. row[c].state \in StatesAt("hashed")
      BY <3>1 DEF StatesAt, States, Terminal, Sent
    <3>4. TaskAlone(v, row[c], ledger', spool')
      BY <1>3, <1>4, <1>6, <3>2, <3>3 DEF TaskAlone, Sent, Proven
    <3> QED
      BY <3>1, <3>4 DEF RowAlone, Upload
  <2> QED
    BY <1>1, <1>u, <2>1, <2>2 DEF TaskFits
<1>10. TaskInv' /\ RowInv' /\ HeldInv'
  BY <1>1, <1>8, <1>9, MoveTasks, MoveRows, MoveHeld DEF CaptureInv
<1>11. FileInv'
  <2>1. PICK owner \in [Files -> Nat] : OwnedBy(owner)
    BY DEF CaptureInv, FileInv
  <2>2. PICK mine \in [Files -> Nat] : mine[f] = c /\ \A g \in Files \ {f} : mine[g] = owner[g]
    <3>1. c \in Nat
      BY <1>1 DEF Rows
    <3>2. [owner EXCEPT ![f] = c] \in [Files -> Nat]
      BY <3>1
    <3> QED
      BY <3>2
  <2>3. \A g \in Files \ {f} : spool'[g] = spool[g]
    BY <1>2, <1>t
  <2>4. spool'[f] # "new"
    BY <1>2, <1>t
  <2>5. ASSUME NEW d \in Rows, row[d] # None, row[d].file # None
        PROVE  mine[row[d].file] = d /\ spool'[row[d].file] # "new"
    <3>1. row[d].file \in Files
      BY <2>5, RowShape DEF CaptureInv, Row
    <3> QED
      BY <2>1, <2>2, <2>3, <2>5, <3>1, <1>2 DEF OwnedBy
  <2>6. ASSUME NEW u \in Tasks, task'[u] # Idle, task'[u].snap.file # None
        PROVE  mine[task'[u].snap.file] = task'[u].id /\ spool'[task'[u].snap.file] # "new"
    <3>1. CASE u = t
      <4>1. task'[u].snap.file = f /\ task'[u].id = c
        BY <3>1, <1>3, <1>4, <1>5, <1>t
      <4> QED
        BY <4>1, <2>2, <2>4
    <3>2. CASE u # t
      <4>1. task'[u] = task[u]
        BY <3>2, <1>5, <1>t
      <4>2. task[u].snap.file \in Files
        BY <2>6, <4>1, TaskShape DEF CaptureInv, Task, Row
      <4> QED
        BY <2>1, <2>2, <2>3, <2>6, <4>1, <4>2, <1>2 DEF OwnedBy
    <3> QED
      BY <3>1, <3>2
  <2>7. ASSUME held # None, held.snap.file # None
        PROVE  mine[held.snap.file] = held.id /\ spool'[held.snap.file] # "new"
    <3>1. held.snap.file \in Files
      BY <2>7 DEF CaptureInv, TypeOK, Row
    <3> QED
      BY <2>1, <2>2, <2>3, <2>7, <3>1, <1>2 DEF OwnedBy
  <2>8. OwnedBy(mine)'
    BY <1>u, <2>5, <2>6, <2>7 DEF OwnedBy
  <2> QED
    BY <2>8 DEF FileInv
<1>12. TypeOK'
  <2>1. /\ boot' \in 0..MaxCrashes /\ sequence' \in 0..MaxSequence /\ stored' \subseteq Hashes
        /\ ledger' \subseteq (0..MaxCrashes) \X Nat \X Paths \X Hashes
    BY <1>u DEF CaptureInv, TypeOK, server
  <2> QED
    BY <1>1, <1>8, <2>1, MoveTypes DEF CaptureInv
<1>13. SequenceInv'
  BY <1>4, <1>5, <1>u, MoveQuiet DEF CaptureInv, server
<1> QED
  BY <1>10, <1>11, <1>12, <1>13 DEF CaptureInv

LEMMA NextSequenceStep ==
    ASSUME CaptureInv, NEW t \in Tasks, next_sequence(t)
    PROVE  CaptureInv'
<1> DEFINE c == task[t].id
<1>0. task[t].pc \in {"sequence", "final_sequence"} /\ task[t].pc \in Pcs
  BY DEF next_sequence, Pcs
<1>1. /\ task[t] \in Task /\ task[t] # Idle /\ c \in Rows /\ row[c] \in Row /\ row[c] # None
      /\ TaskAnyway(task[t], row[c], gaps)
      /\ row[c].state = "gap_recorded" => c \in gaps
      /\ c \notin doubled => TaskAlone(task[t], row[c], ledger, spool) /\ RowAlone(row[c], ledger, spool)
  BY <1>0, AtWork
<1>u. /\ UNCHANGED <<row, due, gaps, spool, held, doubled, crashes, boot, server>>
      /\ due' \subseteq Rows /\ gaps' \subseteq Rows
      /\ sequence' = sequence + 1 /\ sequence' \in 0..MaxSequence /\ sequence \in Nat
  BY CaptureAssumption DEF next_sequence, history, CaptureInv, TypeOK
<1>t. task \in [Tasks -> {Idle} \cup Task] /\ row \in [Rows -> Row \cup {None}]
  BY DEF CaptureInv, TypeOK
<1>2. PICK next \in {"announce", "finalize"} : next = IF task[t].pc = "sequence" THEN "announce" ELSE "finalize"
  OBVIOUS
<1> DEFINE w == [task[t] EXCEPT !.seq = sequence + 1]
           v == [w EXCEPT !.pc = next]
<1>3. /\ v \in Task /\ v.pc = next /\ v.id = c /\ v.snap = task[t].snap /\ v.seq = sequence + 1 /\ v # Idle
  <2>1. w \in Task /\ w.id = c /\ w.snap = task[t].snap /\ w.seq = sequence + 1
    BY <1>1, <1>u DEF Task
  <2>2. next \in Pcs
    BY DEF Pcs
  <2> HIDE DEF w
  <2> QED
    BY <2>1, <2>2, GotoValue, TaskNotIdle
<1>4. task' = [task EXCEPT ![t] = v]
  BY <1>2, <1>t DEF next_sequence
<1>5. row' = [row EXCEPT ![c] = row[c]]
  BY <1>1, <1>u, <1>t
<1> HIDE DEF v
<1>6. TaskMoves(t, v, row[c])
  <2>1. spool' \in [Files -> {"new", "present", "damaged", "gone"}]
    BY <1>u DEF CaptureInv, TypeOK
  <2>2. row[c].state \notin Terminal => Active(c)
    BY <1>1 DEF Active
  <2>3. ledger \subseteq ledger'
    BY <1>u DEF server
  <2> QED
    BY <1>1, <1>3, <1>4, <1>5, <1>u, <2>1, <2>2, <2>3 DEF TaskMoves
<1>7. TaskFits(t, v, row[c])
  <2>1. task[t].pc \in Sent \ Proven /\ next \in Sent \ Proven /\ next # "announced" /\ next # "open" /\ next # "hashed"
    BY <1>0, <1>2 DEF Sent, Proven
  <2>2. TaskAnyway(v, row[c], gaps')
    BY <1>1, <1>3, <1>u, <2>1 DEF TaskAnyway
  <2>3. ASSUME c \notin doubled
        PROVE  TaskAlone(v, row[c], ledger', spool')
    <3>1. row[c].state \in StatesAt(next)
      BY <1>0, <1>1, <1>2, <2>3 DEF TaskAlone, StatesAt, Sent
    <3> QED
      BY <1>1, <1>3, <2>1, <2>3, <3>1 DEF TaskAlone
  <2> QED
    BY <1>1, <1>u, <2>2, <2>3 DEF TaskFits, server
<1>8. SameFiles(t, v, row[c])
  BY <1>3 DEF SameFiles
<1>9. TaskInv' /\ RowInv' /\ HeldInv' /\ FileInv'
  BY <1>1, <1>6, <1>7, <1>8, MoveTasks, MoveRows, MoveHeld, MoveFiles DEF CaptureInv
<1>10. TypeOK'
  <2>1. /\ boot' \in 0..MaxCrashes /\ stored' \subseteq Hashes
        /\ ledger' \subseteq (0..MaxCrashes) \X Nat \X Paths \X Hashes
    BY <1>u DEF CaptureInv, TypeOK, server
  <2> QED
    BY <1>1, <1>6, <1>u, <2>1, MoveTypes DEF CaptureInv
<1>11. SequenceInv'
  <2>1. task'[t] = v /\ \A u \in Tasks \ {t} : task'[u] = task[u]
    BY <1>4, <1>t
  <2>2. boot' = boot /\ ledger' = ledger /\ crashes' = crashes /\ boot \in Nat
    BY <1>u DEF server, CaptureInv, TypeOK
  <2>3. \A e \in ledger : e[1] \in Nat /\ e[2] \in Nat
    BY DEF CaptureInv, TypeOK
  <2>4. \A u \in Tasks : Calling(u) => task[u].seq \in Nat
    BY TaskShape DEF CaptureInv, Calling, Task
  <2>5. \A e \in ledger : e[1] <= boot /\ (e[1] = boot => e[2] <= sequence /\ e[2] <= sequence')
    BY <1>u, <2>3 DEF CaptureInv, SequenceInv
  <2>6. ASSUME NEW u \in Tasks \ {t}, Calling(u)'
        PROVE  /\ Calling(u) /\ task'[u].seq = task[u].seq /\ task[u].seq <= sequence
               /\ \A e \in ledger : e[1] = boot => e[2] # task[u].seq
    BY <2>1, <2>6 DEF Calling, CaptureInv, SequenceInv
  <2>7. ASSUME NEW u \in Tasks, Calling(u)'
        PROVE  task'[u].seq <= sequence' /\ \A e \in ledger' : e[1] = boot' => e[2] # task'[u].seq
    <3>1. CASE u = t
      BY <3>1, <1>3, <1>u, <2>1, <2>2, <2>3, <2>5
    <3>2. CASE u # t
      BY <3>2, <1>u, <2>2, <2>4, <2>6, <2>7
    <3> QED
      BY <3>1, <3>2
  <2>8. ASSUME NEW s \in Tasks, NEW u \in Tasks, Calling(s)', Calling(u)', s # u
        PROVE  task'[s].seq # task'[u].seq
    <3>1. CASE s # t /\ u # t
      BY <3>1, <2>6, <2>8 DEF CaptureInv, SequenceInv
    <3>2. CASE s = t
      BY <3>2, <1>3, <1>u, <2>1, <2>4, <2>6, <2>8
    <3>3. CASE u = t
      BY <3>3, <1>3, <1>u, <2>1, <2>4, <2>6, <2>8
    <3> QED
      BY <3>1, <3>2, <3>3
  <2>9. boot' <= crashes'
    BY <2>2 DEF CaptureInv, SequenceInv
  <2> QED
    BY <2>2, <2>5, <2>7, <2>8, <2>9 DEF SequenceInv
<1> QED
  BY <1>9, <1>10, <1>11 DEF CaptureInv

\* A call is over; it may have recorded the occurrence.
LEMMA RecordStep ==
    ASSUME CaptureInv, NEW t \in Tasks, task[t].pc \in {"announce", "finalize"}, NEW v \in Task,
           task' = [task EXCEPT ![t] = v], v.id = task[t].id, v.snap = task[t].snap,
           v.pc \in {"announced", "occurrence_queued", "gap", "retry"},
           UNCHANGED <<db, spool, held, history>>, stored' \subseteq Hashes,
           ledger' = ledger \/ insert_occurrence(t),
           v.pc = "occurrence_queued" \/ (v.pc = "announced" /\ v.hit) => insert_occurrence(t)
    PROVE  CaptureInv'
<1> DEFINE c == task[t].id
           e0 == <<boot, task[t].seq, task[t].snap.path, task[t].snap.sha>>
<1>0. task[t].pc \in Pcs
  BY DEF Pcs
<1>1. /\ task[t] \in Task /\ task[t] # Idle /\ c \in Rows /\ row[c] \in Row /\ row[c] # None /\ task[t].snap \in Row
      /\ TaskAnyway(task[t], row[c], gaps)
      /\ row[c].state = "gap_recorded" => c \in gaps
      /\ c \notin doubled => TaskAlone(task[t], row[c], ledger, spool) /\ RowAlone(row[c], ledger, spool)
  BY <1>0, AtWork
<1>u. /\ UNCHANGED <<row, due, gaps, boot, sequence, spool, held, doubled, crashes>>
      /\ due' \subseteq Rows /\ gaps' \subseteq Rows
  BY DEF db, history, CaptureInv, TypeOK
<1>t. task \in [Tasks -> {Idle} \cup Task] /\ row \in [Rows -> Row \cup {None}] /\ boot \in 0..MaxCrashes
  BY DEF CaptureInv, TypeOK
<1>2. Calling(t)
  BY <1>1 DEF Calling
<1>3. \A e \in ledger : e[1] = boot => e[2] # task[t].seq
  BY <1>2 DEF CaptureInv, SequenceInv
<1>4. insert_occurrence(t) => ledger' = ledger \cup {e0}
  BY <1>3 DEF insert_occurrence
<1>5. ledger \subseteq ledger' /\ ledger' \subseteq ledger \cup {e0}
  BY <1>4
<1>6. task[t].pc \in Sent \ Proven
  BY DEF Sent, Proven
<1>7. task[t].snap.sha \in Hashes /\ task[t].snap.path \in Paths /\ task[t].snap.path = row[c].path
      /\ task[t].seq \in Nat
  BY <1>1, <1>6 DEF TaskAnyway, Row, Task
<1>8. e0 \in (0..MaxCrashes) \X Nat \X Paths \X Hashes
  BY <1>7, <1>t
<1>9. e0[1] = boot /\ e0[2] = task[t].seq /\ e0[3] = row[c].path /\ e0[4] = task[t].snap.sha
  BY <1>7
<1> HIDE DEF e0
<1>10. ledger' \subseteq (0..MaxCrashes) \X Nat \X Paths \X Hashes
  BY <1>5, <1>8 DEF CaptureInv, TypeOK
<1>11. v # Idle /\ row' = [row EXCEPT ![c] = row[c]]
  BY <1>1, <1>u, <1>t, TaskNotIdle
<1>12. TaskMoves(t, v, row[c])
  <2>1. spool' \in [Files -> {"new", "present", "damaged", "gone"}]
    BY <1>u DEF CaptureInv, TypeOK
  <2>2. row[c].state \notin Terminal => Active(c)
    BY <1>1 DEF Active
  <2> QED
    BY <1>1, <1>5, <1>11, <1>u, <2>1, <2>2 DEF TaskMoves
<1>13. TaskFits(t, v, row[c])
  <2>1. TaskAnyway(v, row[c], gaps')
    BY <1>1, <1>6, <1>u DEF TaskAnyway
  <2>2. ASSUME c \notin doubled
        PROVE  TaskAlone(v, row[c], ledger', spool') /\ RowAlone(row[c], ledger', spool')
    <3>1. row[c].state \in States /\ row[c].state \in Upload /\ task[t].snap.sha = row[c].sha
      BY <1>1, <1>6, <2>2 DEF TaskAlone, StatesAt, Sent, Proven
    <3>2. row[c].state \in StatesAt(v.pc)
      BY <3>1 DEF StatesAt, Upload, Terminal, Sent
    <3>3. insert_occurrence(t) => Evidence(row[c], ledger')
      BY <1>4, <1>9, <3>1 DEF Evidence
    <3>4. TaskAlone(v, row[c], ledger', spool')
      BY <3>1, <3>2, <3>3 DEF TaskAlone, Proven
    <3>5. RowAlone(row[c], ledger', spool')
      BY <1>1, <1>5, <1>u, <2>2, EvidenceStays DEF RowAlone
    <3> QED
      BY <3>4, <3>5
  <2> QED
    BY <1>1, <1>u, <2>1, <2>2 DEF TaskFits
<1>14. SameFiles(t, v, row[c])
  BY DEF SameFiles
<1>15. TaskInv' /\ RowInv' /\ HeldInv' /\ FileInv'
  BY <1>1, <1>12, <1>13, <1>14, MoveTasks, MoveRows, MoveHeld, MoveFiles DEF CaptureInv
<1>16. TypeOK'
  <2>1. boot' \in 0..MaxCrashes /\ sequence' \in 0..MaxSequence
    BY <1>u DEF CaptureInv, TypeOK
  <2> QED
    BY <1>1, <1>10, <1>12, <2>1, MoveTypes DEF CaptureInv
<1>17. SequenceInv'
  <2>1. task'[t] = v /\ \A u \in Tasks \ {t} : task'[u] = task[u]
    BY <1>t
  <2>2. ASSUME NEW u \in Tasks, Calling(u)'
        PROVE  u # t /\ Calling(u) /\ task'[u] = task[u] /\ task[u].seq # task[t].seq
    <3>1. u # t
      BY <2>1, <2>2 DEF Calling
    <3>2. Calling(u) /\ task'[u] = task[u]
      BY <2>1, <2>2, <3>1 DEF Calling
    <3> QED
      BY <1>2, <3>1, <3>2 DEF CaptureInv, SequenceInv
  <2>3. boot <= boot /\ task[t].seq <= sequence /\ boot <= crashes
    BY <1>2, <1>t DEF CaptureInv, SequenceInv
  <2>4. \A e \in ledger' : e[1] <= boot' /\ (e[1] = boot' => e[2] <= sequence')
    BY <1>5, <1>9, <1>u, <2>3 DEF CaptureInv, SequenceInv
  <2>5. ASSUME NEW u \in Tasks, Calling(u)'
        PROVE  task'[u].seq <= sequence' /\ \A e \in ledger' : e[1] = boot' => e[2] # task'[u].seq
    BY <1>5, <1>9, <1>u, <2>2, <2>5 DEF CaptureInv, SequenceInv
  <2>6. \A s, u \in Tasks : Calling(s)' /\ Calling(u)' /\ s # u => task'[s].seq # task'[u].seq
    BY <2>2 DEF CaptureInv, SequenceInv
  <2> QED
    BY <1>u, <2>3, <2>4, <2>5, <2>6 DEF SequenceInv
<1> QED
  BY <1>15, <1>16, <1>17 DEF CaptureInv

LEMMA AnnounceStep ==
    ASSUME CaptureInv, NEW t \in Tasks, Announce(t)
    PROVE  CaptureInv'
<1>0. task[t].pc = "announce" /\ task[t].pc \in Pcs
  BY DEF Announce, Pcs
<1>1. task[t] \in Task
  BY <1>0, AtWork
<1>2. PICK d \in Deliveries :
        /\ IF d # "lost" /\ task[t].snap.sha \in stored THEN insert_occurrence(t) ELSE UNCHANGED ledger
        /\ task' = [task EXCEPT ![t].hit = task[t].snap.sha \in stored,
                                ![t].pc = IF d = "answered" THEN "announced" ELSE retry_or_fail(t)]
  BY DEF Announce
<1>3. PICK next \in {"announced", "gap", "retry"} :
        /\ next = IF d = "answered" THEN "announced" ELSE retry_or_fail(t)
        /\ next = "announced" => d = "answered"
  BY RetryPc
<1>4. PICK hit \in BOOLEAN : hit = (task[t].snap.sha \in stored)
  <2>1. (task[t].snap.sha \in stored) \in BOOLEAN
    OBVIOUS
  <2> QED
    BY <2>1, Zenon
<1> DEFINE w == [task[t] EXCEPT !.hit = hit]
           v == [w EXCEPT !.pc = next]
<1>5. w \in Task /\ w.id = task[t].id /\ w.snap = task[t].snap /\ w.hit = hit
  BY <1>1 DEF Task
<1>6. v \in Task /\ v.pc = next /\ v.id = task[t].id /\ v.snap = task[t].snap /\ v.hit = hit
  <2> HIDE DEF w
  <2>1. next \in Pcs
    BY DEF Pcs, Transitions
  <2> QED
    BY <1>5, <2>1, GotoValue
<1>7. task' = [task EXCEPT ![t] = v]
  BY <1>2, <1>3, <1>4 DEF CaptureInv, TypeOK
<1> HIDE DEF v
<1>8. v.pc = "announced" /\ v.hit => insert_occurrence(t)
  BY <1>2, <1>3, <1>4, <1>6
<1>9. ledger' = ledger \/ insert_occurrence(t)
  BY <1>2
<1>10. UNCHANGED <<db, spool, held, history>> /\ stored' \subseteq Hashes
  BY DEF Announce, CaptureInv, TypeOK
<1> QED
  BY <1>0, <1>6, <1>7, <1>8, <1>9, <1>10, RecordStep

LEMMA FinalizeStep ==
    ASSUME CaptureInv, NEW t \in Tasks, Finalize(t)
    PROVE  CaptureInv'
<1>0. task[t].pc = "finalize" /\ task[t].pc \in Pcs
  BY DEF Finalize, Pcs
<1>1. task[t] \in Task /\ TaskAnyway(task[t], row[task[t].id], gaps) /\ task[t].snap \in Row
  BY <1>0, AtWork
<1>s. task[t].snap.sha \in Hashes
  BY <1>0, <1>1 DEF TaskAnyway, Row, Sent, Proven
<1>2. PICK d \in Deliveries :
        /\ IF d # "lost" THEN stored' = stored \cup {task[t].snap.sha} /\ insert_occurrence(t)
           ELSE UNCHANGED <<stored, ledger>>
        /\ Goto(t, IF d = "answered" THEN "occurrence_queued" ELSE retry_or_fail(t))
  BY DEF Finalize
<1>3. PICK next \in {"occurrence_queued", "gap", "retry"} :
        Goto(t, next) /\ (next = "occurrence_queued" => d = "answered")
  BY <1>2, RetryPc
<1> DEFINE v == [task[t] EXCEPT !.pc = next]
<1>6. v \in Task /\ v.pc = next /\ v.id = task[t].id /\ v.snap = task[t].snap
  <2>1. next \in Pcs
    BY DEF Pcs, Transitions
  <2> QED
    BY <1>1, <2>1, GotoValue
<1>7. task' = [task EXCEPT ![t] = v]
  BY <1>3 DEF CaptureInv, TypeOK, Goto
<1> HIDE DEF v
<1>8. v.pc = "occurrence_queued" => insert_occurrence(t)
  BY <1>2, <1>3, <1>6
<1>9. ledger' = ledger \/ insert_occurrence(t)
  BY <1>2
<1>10. UNCHANGED <<db, spool, held, history>> /\ stored' \subseteq Hashes
  BY <1>2, <1>s DEF Finalize, CaptureInv, TypeOK
<1> QED
  BY <1>0, <1>6, <1>7, <1>8, <1>9, <1>10, RecordStep

(***************************************************************************)
(* The loop, the sensors, time, the disk and crashes                       *)
(***************************************************************************)
LEMMA DueStep ==
    ASSUME CaptureInv, due' \subseteq Rows,
           UNCHANGED <<row, gaps, boot, sequence, spool, held, task, server, history>>
    PROVE  CaptureInv'
<1>1. UNCHANGED <<stored, ledger, doubled, crashes>>
  BY DEF server, history
<1>2. TypeOK'
  BY <1>1 DEF CaptureInv, TypeOK, Active
<1>3. TaskInv'
  BY <1>1 DEF CaptureInv, TaskInv, Alone
<1>4. RowInv'
  BY <1>1 DEF CaptureInv, RowInv
<1>5. HeldInv'
  BY <1>1 DEF CaptureInv, HeldInv, Active, Working
<1>6. FileInv'
  BY <1>1 DEF CaptureInv, FileInv, OwnedBy
<1>7. SequenceInv'
  BY <1>1 DEF CaptureInv, SequenceInv, Calling
<1> QED
  BY <1>2, <1>3, <1>4, <1>5, <1>6, <1>7 DEF CaptureInv

LEMMA EnqueueStep ==
    ASSUME CaptureInv, NEW p \in Paths, NEW debounced \in BOOLEAN, enqueue(p, debounced)
    PROVE  CaptureInv'
<1> DEFINE s == IF debounced THEN "debouncing" ELSE "observed"
           r == [path |-> p, state |-> s, attempts |-> 0, sha |-> None, file |-> None]
<1>1. PICK c \in Rows : /\ row[c] = None
                        /\ row' = [row EXCEPT ![c] = r]
                        /\ due' = IF debounced THEN due ELSE due \cup {c}
  BY DEF enqueue
<1>u. UNCHANGED <<gaps, boot, sequence, spool, held, task, stored, ledger, doubled, crashes>>
  BY DEF enqueue, server, history
<1>2. s \in {"debouncing", "observed"}
  OBVIOUS
<1>3. r \in Row /\ r.path = p /\ r.state = s /\ r.file = None
  BY CaptureAssumption DEF Row, States
<1>4. r # None
  BY <1>3, NoneAssumption
<1> HIDE DEF r, s
<1>5. s \notin Terminal /\ s \notin Upload /\ s # "gap_recorded" /\ s \notin {"dedup_hit", "occurrence_queued", "complete"}
  BY <1>2 DEF Terminal, Upload
<1>6. row \in [Rows -> Row \cup {None}]
  BY DEF CaptureInv, TypeOK
<1>7. row'[c] = r /\ \A d \in Rows \ {c} : row'[d] = row[d]
  BY <1>1, <1>6
<1>8. \A t \in Tasks : task[t] # Idle => task[t].id \in Rows /\ task[t].id # c
  BY <1>1, TaskShape DEF CaptureInv, TaskInv, TaskAnyway, Task
<1>9. held # None => held.id \in Rows /\ held.id # c
  BY <1>1 DEF CaptureInv, HeldInv, TypeOK
<1>10. TypeOK'
  <2>1. row' \in [Rows -> Row \cup {None}] /\ due' \subseteq Rows
    BY <1>1, <1>3, <1>6 DEF CaptureInv, TypeOK
  <2>2. \A d \in Rows : Active(d) => row[d].path # p
    BY DEF enqueue
  <2>3. \A b, d \in Rows : Active(b) /\ Active(d) /\ row[b].path = row[d].path => b = d
    BY DEF CaptureInv, TypeOK
  <2>4. ASSUME NEW b \in Rows, NEW d \in Rows, Active(b)', Active(d)', row'[b].path = row'[d].path
        PROVE  b = d
    BY <1>3, <1>7, <2>2, <2>3, <2>4 DEF Active
  <2> QED
    BY <1>u, <2>1, <2>4 DEF CaptureInv, TypeOK
<1>11. TaskInv'
  BY <1>u, <1>7, <1>8 DEF CaptureInv, TaskInv, Alone
<1>12. RowInv'
  <2>1. RowAlone(r, ledger, spool)
    BY <1>3, <1>5 DEF RowAlone
  <2> QED
    BY <1>u, <1>3, <1>5, <1>7, <2>1 DEF CaptureInv, RowInv
<1>13. HeldInv'
  BY <1>u, <1>7, <1>9 DEF CaptureInv, HeldInv, Active, Working
<1>14. FileInv'
  BY <1>u, <1>3, <1>7 DEF CaptureInv, FileInv, OwnedBy
<1>15. SequenceInv'
  BY <1>u DEF CaptureInv, SequenceInv, Calling
<1> QED
  BY <1>10, <1>11, <1>12, <1>13, <1>14, <1>15 DEF CaptureInv

LEMMA DamageStep ==
    ASSUME CaptureInv, NEW f \in Files, Damage(f)
    PROVE  CaptureInv'
<1>u. UNCHANGED <<row, due, gaps, boot, sequence, held, task, stored, ledger, doubled, crashes>>
  BY DEF Damage, db, server, history
<1>1. spool[f] = "present" /\ spool' = [spool EXCEPT ![f] = "damaged"]
      /\ spool \in [Files -> {"new", "present", "damaged", "gone"}]
  BY DEF Damage, CaptureInv, TypeOK
<1>2. \A g \in Files : (spool[g] # "new" => spool'[g] # "new") /\ (spool[g] \in Kept => spool'[g] \in Kept)
  BY <1>1 DEF Kept
<1>3. TypeOK'
  BY <1>u, <1>1 DEF CaptureInv, TypeOK, Active
<1>4. TaskInv'
  <2>1. ASSUME NEW t \in Tasks, Alone(t)
        PROVE  TaskAlone(task[t], row[task[t].id], ledger, spool')
    <3>1. task[t].snap.file \in Files \cup {None}
      BY <2>1, TaskShape DEF CaptureInv, Alone, Task, Row
    <3>2. TaskAlone(task[t], row[task[t].id], ledger, spool)
      BY <2>1 DEF CaptureInv, TaskInv
    <3> QED
      BY <1>2, <3>1, <3>2 DEF TaskAlone
  <2> QED
    BY <1>u, <2>1 DEF CaptureInv, TaskInv, Alone
<1>5. RowInv'
  <2>1. ASSUME NEW c \in Rows, row[c] # None, c \notin doubled
        PROVE  RowAlone(row[c], ledger, spool')
    <3>1. row[c].file \in Files \cup {None}
      BY <2>1, RowShape DEF CaptureInv, Row
    <3>2. RowAlone(row[c], ledger, spool)
      BY <2>1 DEF CaptureInv, RowInv
    <3> QED
      BY <1>2, <3>1, <3>2 DEF RowAlone
  <2> QED
    BY <1>u, <2>1 DEF CaptureInv, RowInv
<1>6. HeldInv'
  BY <1>u DEF CaptureInv, HeldInv, Active, Working
<1>7. FileInv'
  <2>1. PICK owner \in [Files -> Nat] : OwnedBy(owner)
    BY DEF CaptureInv, FileInv
  <2>2. \A c \in Rows : row[c] # None => row[c].file \in Files \cup {None}
    BY RowShape DEF CaptureInv, Row
  <2>3. \A t \in Tasks : task[t] # Idle => task[t].snap.file \in Files \cup {None}
    BY TaskShape DEF CaptureInv, Task, Row
  <2>4. held # None => held.snap.file \in Files \cup {None}
    BY DEF CaptureInv, TypeOK, Row
  <2>5. OwnedBy(owner)'
    BY <1>u, <1>2, <2>1, <2>2, <2>3, <2>4 DEF OwnedBy
  <2> QED
    BY <2>5 DEF FileInv
<1>8. SequenceInv'
  BY <1>u DEF CaptureInv, SequenceInv, Calling
<1> QED
  BY <1>3, <1>4, <1>5, <1>6, <1>7, <1>8 DEF CaptureInv

LEMMA LeaseStep ==
    ASSUME CaptureInv, NEW c \in Rows, lease_next_due(c)
    PROVE  CaptureInv'
<1>u. UNCHANGED <<row, gaps, boot, sequence, spool, task, stored, ledger, crashes>>
  BY DEF lease_next_due, server
<1>1. /\ Active(c) /\ due' = due \ {c} /\ held' = [id |-> c, snap |-> row[c]]
      /\ doubled' = IF \E t \in Tasks : Working(t, c) THEN doubled \cup {c} ELSE doubled
  BY DEF lease_next_due
<1>2. row[c] # None /\ row[c].state \notin Terminal /\ row[c] \in Row
  BY <1>1, RowShape DEF CaptureInv, Active
<1>3. held' \in [id : Rows, snap : Row] /\ held' # None /\ held'.id = c /\ held'.snap = row[c]
  BY <1>1, <1>2, NoneAssumption
<1>4. doubled \subseteq doubled' /\ doubled' \subseteq doubled \cup {c}
  BY <1>1
<1>5. c \notin doubled' => \A t \in Tasks : ~(task[t] # Idle /\ task[t].id = c)
  BY <1>1 DEF Working
<1>6. TypeOK'
  BY <1>u, <1>1, <1>3, <1>4 DEF CaptureInv, TypeOK, Active
<1>7. TaskInv'
  BY <1>u, <1>4 DEF CaptureInv, TaskInv, Alone
<1>8. RowInv'
  BY <1>u, <1>4 DEF CaptureInv, RowInv
<1>9. HeldInv'
  BY <1>u, <1>2, <1>3, <1>5 DEF HeldInv, Active, Working
<1>10. FileInv'
  BY <1>u, <1>2, <1>3 DEF CaptureInv, FileInv, OwnedBy
<1>11. SequenceInv'
  BY <1>u DEF CaptureInv, SequenceInv, Calling
<1> QED
  BY <1>6, <1>7, <1>8, <1>9, <1>10, <1>11 DEF CaptureInv

LEMMA SpawnStep ==
    ASSUME CaptureInv, NEW t \in Tasks, Spawn(t)
    PROVE  CaptureInv'
<1> DEFINE v == [pc |-> "open", id |-> held.id, snap |-> held.snap, hit |-> FALSE, seq |-> 0]
           c == held.id
<1>u. UNCHANGED <<row, due, gaps, boot, sequence, spool, stored, ledger, doubled, crashes>>
  BY DEF Spawn, db, server, history
<1>1. held # None /\ task[t] = Idle /\ task' = [task EXCEPT ![t] = v] /\ held' = None
  BY DEF Spawn
<1>2. held.id \in Rows /\ held.snap \in Row
  BY <1>1 DEF CaptureInv, TypeOK
<1>3. v \in Task /\ v.pc = "open" /\ v.id = c /\ v.snap = held.snap
  BY <1>2 DEF Task, Pcs
<1>4. v # Idle
  BY <1>3, TaskNotIdle
<1> HIDE DEF v
<1>5. task \in [Tasks -> {Idle} \cup Task]
  BY DEF CaptureInv, TypeOK
<1>6. task'[t] = v /\ \A u \in Tasks \ {t} : task'[u] = task[u]
  BY <1>1, <1>5
<1>7. row[c] # None /\ held.snap.path = row[c].path
  BY <1>1 DEF CaptureInv, HeldInv
<1>8. c \notin doubled => /\ held.snap = row[c] /\ row[c].state \notin Terminal
                          /\ \A u \in Tasks : ~(task[u] # Idle /\ task[u].id = c)
  BY <1>1 DEF CaptureInv, HeldInv, Active, Working
<1>9. TypeOK'
  BY <1>u, <1>1, <1>3, <1>5 DEF CaptureInv, TypeOK, Active
<1>10. TaskInv'
  <2>1. TaskAnyway(v, row[c], gaps)
    BY <1>3, <1>7 DEF TaskAnyway, Sent
  <2>2. ASSUME c \notin doubled PROVE TaskAlone(v, row[c], ledger, spool)
    <3>1. row[c].state \in StatesAt("open")
      BY <1>2, <1>7, <1>8, <2>2, RowShape DEF CaptureInv, StatesAt, Row, Sent
    <3> QED
      BY <1>3, <1>8, <2>2, <3>1 DEF TaskAlone, Sent, Proven
  <2>3. ASSUME NEW u \in Tasks, task'[u] # Idle
        PROVE  TaskAnyway(task'[u], row[task'[u].id], gaps)
    BY <1>3, <1>6, <2>1, <2>3 DEF CaptureInv, TaskInv
  <2>4. ASSUME NEW u \in Tasks, task'[u] # Idle, task'[u].id \notin doubled
        PROVE  TaskAlone(task'[u], row[task'[u].id], ledger, spool)
    BY <1>3, <1>6, <2>2, <2>4 DEF CaptureInv, TaskInv, Alone
  <2>5. ASSUME NEW s \in Tasks, NEW u \in Tasks, task'[s] # Idle, task'[s].id \notin doubled,
               task'[u] # Idle, task'[u].id = task'[s].id
        PROVE  s = u
    BY <1>3, <1>6, <1>8, <2>5 DEF CaptureInv, TaskInv, Alone
  <2> QED
    BY <1>u, <2>3, <2>4, <2>5 DEF TaskInv, Alone
<1>11. RowInv'
  BY <1>u DEF CaptureInv, RowInv
<1>12. HeldInv'
  BY <1>1 DEF HeldInv
<1>13. FileInv'
  <2>1. PICK owner \in [Files -> Nat] : OwnedBy(owner)
    BY DEF CaptureInv, FileInv
  <2>2. OwnedBy(owner)'
    BY <1>u, <1>1, <1>3, <1>6, <2>1 DEF OwnedBy
  <2> QED
    BY <2>2 DEF FileInv
<1>14. SequenceInv'
  BY <1>u, <1>1, <1>3, MoveQuiet DEF CaptureInv
<1> QED
  BY <1>9, <1>10, <1>11, <1>12, <1>13, <1>14 DEF CaptureInv

LEMMA CrashStep ==
    ASSUME CaptureInv, Crash
    PROVE  CaptureInv'
<1>u. UNCHANGED <<row, due, gaps, spool, stored, ledger, doubled>>
  BY DEF Crash, server
<1>1. /\ crashes < MaxCrashes /\ crashes' = crashes + 1 /\ held' = None
      /\ task' = [t \in Tasks |-> Idle]
      /\ \/ boot' = boot /\ sequence' = sequence
         \/ boot' = boot + 1 /\ sequence' = 0
  BY DEF Crash
<1>2. /\ boot \in Nat /\ crashes \in Nat /\ sequence \in Nat /\ boot <= crashes /\ MaxCrashes \in Nat
      /\ MaxSequence \in Nat /\ sequence <= MaxSequence
      /\ \A e \in ledger : e[1] \in Nat /\ e[2] \in Nat
  BY CaptureAssumption DEF CaptureInv, TypeOK, SequenceInv
<1>3. boot' \in 0..MaxCrashes /\ crashes' \in 0..MaxCrashes /\ sequence' \in 0..MaxSequence /\ boot' <= crashes'
  BY <1>1, <1>2
<1>4. \A t \in Tasks : task'[t] = Idle
  BY <1>1
<1>5. TypeOK'
  BY <1>u, <1>1, <1>3 DEF CaptureInv, TypeOK, Active
<1>6. TaskInv'
  BY <1>4 DEF TaskInv, Alone
<1>7. RowInv'
  BY <1>u DEF CaptureInv, RowInv
<1>8. HeldInv'
  BY <1>1 DEF HeldInv
<1>9. FileInv'
  <2>1. PICK owner \in [Files -> Nat] : OwnedBy(owner)
    BY DEF CaptureInv, FileInv
  <2>2. OwnedBy(owner)'
    BY <1>u, <1>1, <1>4, <2>1 DEF OwnedBy
  <2> QED
    BY <2>2 DEF FileInv
<1>10. SequenceInv'
  <2>1. \A e \in ledger : e[1] <= boot /\ (e[1] = boot => e[2] <= sequence)
    BY DEF CaptureInv, SequenceInv
  <2>2. \A e \in ledger' : e[1] <= boot' /\ (e[1] = boot' => e[2] <= sequence')
    BY <1>u, <1>1, <1>2, <2>1
  <2>3. \A t \in Tasks : ~Calling(t)'
    BY <1>4 DEF Calling
  <2> QED
    BY <1>3, <2>2, <2>3 DEF SequenceInv
<1> QED
  BY <1>5, <1>6, <1>7, <1>8, <1>9, <1>10 DEF CaptureInv

LEMMA CaptureStep ==
    ASSUME CaptureInv, [Next]_vars
    PROVE  CaptureInv'
<1>1. ASSUME NEW p \in Paths, NEW b \in BOOLEAN, enqueue(p, b) PROVE CaptureInv'
  BY <1>1, EnqueueStep
<1>2. ASSUME NEW c \in Rows, Elapse(c) PROVE CaptureInv'
  <2>1. due' \subseteq Rows
    BY <1>2 DEF Elapse, CaptureInv, TypeOK
  <2> QED
    BY <1>2, <2>1, DueStep DEF Elapse
<1>3. ASSUME NEW c \in Rows, lease_next_due(c) PROVE CaptureInv'
  BY <1>3, LeaseStep
<1>4. ASSUME NEW f \in Files, Damage(f) PROVE CaptureInv'
  BY <1>4, DamageStep
<1>5. ASSUME NEW t \in Tasks, Spawn(t) PROVE CaptureInv'
  BY <1>5, SpawnStep
<1>6. ASSUME NEW t \in Tasks, renew_lease(t) PROVE CaptureInv'
  <2>1. due' \subseteq Rows
    BY <1>6 DEF renew_lease, CaptureInv, TypeOK
  <2> QED
    BY <1>6, <2>1, DueStep DEF renew_lease
<1>7. ASSUME NEW t \in Tasks, TaskStep(t) PROVE CaptureInv'
  BY <1>7, OpenStep, CopyStep, ReadOkStep, ReadFailStep, SetHashedStep, ReloadStep, NextSequenceStep,
     AnnounceStep, AdvanceStep, ReadSpoolStep, FinalizeStep, RemoveStep, DeferStep, SetRetryStep,
     RecordGapStep, FinishGapStep DEF TaskStep
<1>8. CASE Crash
  BY <1>8, CrashStep
<1>9. CASE UNCHANGED vars
  <2>1. due' \subseteq Rows /\ UNCHANGED <<row, gaps, boot, sequence, spool, held, task, server, history>>
    BY <1>9 DEF vars, db, CaptureInv, TypeOK
  <2> QED
    BY <2>1, DueStep
<1> QED
  BY <1>1, <1>2, <1>3, <1>4, <1>5, <1>6, <1>7, <1>8, <1>9 DEF Next

LEMMA CaptureInvariant == Spec => []CaptureInv
<1>1. Init => CaptureInv
  <2> SUFFICES ASSUME Init PROVE CaptureInv
    OBVIOUS
  <2>1. TypeOK
    BY CaptureAssumption DEF Init, TypeOK, Active
  <2>2. TaskInv /\ RowInv /\ HeldInv
    BY DEF Init, TaskInv, RowInv, HeldInv, Alone
  <2>3. FileInv
    <3>1. [f \in Files |-> 0] \in [Files -> Nat]
      OBVIOUS
    <3>2. OwnedBy([f \in Files |-> 0])
      BY DEF Init, OwnedBy
    <3> QED
      BY <3>1, <3>2 DEF FileInv
  <2>4. SequenceInv
    BY DEF Init, SequenceInv, Calling
  <2> QED
    BY <2>1, <2>2, <2>3, <2>4 DEF CaptureInv
<1>2. CaptureInv /\ [Next]_vars => CaptureInv'
  BY CaptureStep
<1> QED
  BY <1>1, <1>2, PTL DEF Spec

(***************************************************************************)
(* Results                                                                 *)
(***************************************************************************)
\* state.rs: the candidate table and the tasks keep their types, and a path
\* never has two active rows, whatever the tasks write.
THEOREM CaptureTypes == Spec => []TypeOK
  BY CaptureInvariant, PTL DEF CaptureInv

\* process_candidate: a candidate that is done, or that a restart would finish
\* without a call, has its occurrence in the server's ledger.
THEOREM EvidenceKept == Spec => []CompleteHasEvidence
<1>1. CaptureInv => CompleteHasEvidence
  BY DEF CaptureInv, RowInv, RowAlone, Evidence, CompleteHasEvidence
<1> QED
  BY <1>1, CaptureInvariant, PTL

\* record_gap, finish_gap: a candidate given up as a gap has its pending_gap
\* row, a candidate leased twice included.
THEOREM GapsRecorded == Spec => []GapHasRecord
<1>1. CaptureInv => GapHasRecord
  BY DEF CaptureInv, RowInv, GapHasRecord
<1> QED
  BY <1>1, CaptureInvariant, PTL

\* process_candidate: a candidate that may still have to be uploaded keeps its
\* spool file.
THEOREM SpoolKept == Spec => []SpoolBacked
<1>1. CaptureInv => SpoolBacked
  BY DEF CaptureInv, RowInv, RowAlone, SpoolBacked, Kept
<1> QED
  BY <1>1, CaptureInvariant, PTL

\* transition: no step reopens a terminal row or changes its digest, unless
\* the row has been leased twice.
THEOREM TerminalKept == Spec => TerminalFinal
<1> DEFINE Stays(c) == row[c] # None /\ row[c].state \in Terminal =>
                         row'[c].state = row[c].state /\ row'[c].sha = row[c].sha
<1>1. CaptureInv /\ [Next]_vars => [\A c \in Rows \ doubled' : Stays(c)]_row
  <2> SUFFICES ASSUME CaptureInv, Next, NEW c \in Rows \ doubled', row' # row
               PROVE  Stays(c)
    BY DEF vars, db
  <2>0. row \in [Rows -> Row \cup {None}]
    BY DEF CaptureInv, TypeOK
  <2>1. ASSUME NEW p \in Paths, NEW b \in BOOLEAN, enqueue(p, b) PROVE Stays(c)
    BY <2>0, <2>1 DEF enqueue
  <2>2. ASSUME NEW t \in Tasks, doubled' = doubled, task[t].pc \in Pcs \ {"remove"},
               \A d \in Rows \ {task[t].id} : row'[d] = row[d]
        PROVE  Stays(c)
    <3>1. CASE c = task[t].id
      BY <2>2, <3>1, AtWork DEF TaskAlone, StatesAt
    <3>2. CASE c # task[t].id
      BY <2>2, <3>2
    <3> QED
      BY <3>1, <3>2
  <2>3. ASSUME NEW t \in Tasks, TaskStep(t)
        PROVE  /\ doubled' = doubled /\ task[t].pc \in Pcs \ {"remove"}
               /\ \A d \in Rows \ {task[t].id} : row'[d] = row[d]
    <3>1. CASE Open(t)
      BY <3>1, <2>0 DEF Open, transition, Pcs, history
    <3>2. CASE Copy(t)
      BY <3>2, <2>0 DEF Copy, transition, Pcs, history
    <3>3. CASE set_hashed(t)
      BY <3>3, <2>0 DEF set_hashed, Pcs, history
    <3>4. CASE Advance(t)
      BY <3>4, <2>0 DEF Advance, transition, Pcs, Transitions, history
    <3>5. CASE set_retry(t)
      BY <3>5, <2>0 DEF set_retry, Pcs, history
    <3>6. CASE finish_gap(t)
      BY <3>6, <2>0 DEF finish_gap, Pcs, history
    <3>7. CASE \/ ReadOk(t) \/ ReadFail(t) \/ reload(t) \/ next_sequence(t) \/ Announce(t) \/ ReadSpool(t)
               \/ UploadCall(t) \/ Finalize(t) \/ Remove(t) \/ Defer(t) \/ record_gap(t)
      BY <3>7 DEF ReadOk, ReadFail, reload, next_sequence, Announce, ReadSpool, UploadCall, Finalize,
                  Remove, Defer, record_gap, db
    <3> QED
      BY <2>3, <3>1, <3>2, <3>3, <3>4, <3>5, <3>6, <3>7 DEF TaskStep
  <2>4. ASSUME NEW t \in Tasks, Spawn(t) \/ renew_lease(t) PROVE row' = row
    BY <2>4 DEF Spawn, renew_lease, db
  <2>5. ASSUME NEW d \in Rows, Elapse(d) \/ lease_next_due(d) PROVE row' = row
    BY <2>5 DEF Elapse, lease_next_due
  <2>6. ASSUME NEW f \in Files, Damage(f) PROVE row' = row
    BY <2>6 DEF Damage, db
  <2>7. CASE Crash
    BY <2>7 DEF Crash
  <2> QED
    BY <2>1, <2>2, <2>3, <2>4, <2>5, <2>6, <2>7 DEF Next
<1> QED
  BY <1>1, CaptureInvariant, PTL DEF Spec, TerminalFinal
=============================================================================
