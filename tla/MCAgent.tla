------------------------------- MODULE MCAgent -------------------------------
(***************************************************************************)
(* The parts of the agent that share no state in the model, explored side  *)
(* by side: a behaviour is one of the part it starts with, and the others  *)
(* stay in an initial state.                                               *)
(***************************************************************************)
EXTENDS Capture, Sensors, Reports, TLC

CONSTANTS p1, p2, h1, h2, t1, r1, r2

VARIABLE part

\* An executed file goes before one the baseline found.
MCPriority == (p1 :> 1) @@ (p2 :> 5)

MCDirOf == [f \in {"a"} |-> "d"]

AgentVars == <<part, vars, SensorsVars, ReportsVars>>

\* Bound: the baseline on Windows is explored from a disk with the file.
WindowsBaseline == agentCfg.os = "windows" /\ agentCfg.baseline => \A f \in File : disk.ver[f] = 1

\* Bound: two candidates of one path, with a crash or a damaged spool file;
\* or three of two paths that compete for the permit, where a row can be
\* leased twice, with one content and one failed call, of the first of two
\* rows.  What the code does of itself, a retry it is forced to included, is
\* never cut off.
Damaged == {f \in Files : spool[f] = "damaged"}
Retried == {c \in Rows : row[c] # None /\ row[c].attempts > 0}
           \cup {task[t].id : t \in {t \in Tasks : task[t].pc = "retry"}}
OnePath == row[3] = None /\ \A c \in Rows : row[c] # None => row[c].path = p1
OneContent == /\ \A c \in Rows : row[c] # None => row[c].sha # h2
              /\ \A t \in Tasks : task[t] # Idle => task[t].snap.sha # h2
CallFails == \E t \in Tasks : /\ task[t].pc \in {"read", "read_full", "announce", "upload", "finalize"}
                              /\ task'[t].pc = "retry"
OneRetry ==
    /\ CallFails => Retried = {} /\ Retried' = {1} /\ row[3] = None
    /\ OnePath => Retried = {} \/ (Retried = {1} /\ row[1].attempts <= 1)
    /\ row[3] = None /\ row'[3] # None => Retried = {}
CaptureBound ==
    \/ OnePath' /\ crashes' + Cardinality(Damaged') <= 1
    \/ OneContent' /\ OneRetry /\ crashes' = 0 /\ Damaged' = {}

\* Bound: the agent crashes, or meets an error of the file system, not both.
\* The USN journal is lost only where there is no baseline.
SensorsBound ==
    /\ hist.crashes + hist.skips + hist.spurious <= 1
    /\ agentCfg.baseline => disk.journal.id = 1 /\ disk.journal.first = 0

AgentInit ==
    /\ part \in {"capture", "sensors", "reports"}
    /\ Init
    /\ \/ part = "sensors"
       \/ /\ agentCfg = [os |-> "linux", excluded |-> {}, baseline |-> FALSE]
          /\ disk = [ver |-> [f \in File |-> 0], key |-> [f \in File |-> 0], kq |-> <<>>,
                     journal |-> [id |-> 1, first |-> 0, next |-> 0]]
    /\ SensorsInit
    /\ WindowsBaseline
    /\ ReportsInit

AgentNext ==
    \/ part = "capture" /\ Next /\ CaptureBound /\ UNCHANGED <<part, SensorsVars, ReportsVars>>
    \/ part = "sensors" /\ SensorsNext /\ SensorsBound' /\ UNCHANGED <<part, vars, ReportsVars>>
    \/ part = "reports" /\ ReportsNext /\ UNCHANGED <<part, vars, SensorsVars>>

CaptureDoes(A) == part = "capture" /\ A /\ UNCHANGED <<part, SensorsVars, ReportsVars>>
SensorsDo(A)   == part = "sensors" /\ A /\ UNCHANGED <<part, vars, ReportsVars>>
ReportsDo(A)   == part = "reports" /\ A /\ UNCHANGED <<part, vars, SensorsVars>>

\* The fairness of Capture, Sensors and Reports.  As part never changes, their
\* conjuncts are taken together: each formula below is, in the behaviours of
\* a part, the conjunct of that part (there is one task, one file, and rows 1 to 3).
AgentFairness ==
    /\ WF_AgentVars(\/ CaptureDoes(\E t \in Tasks : TaskStep(t))
                    \/ SensorsDo(StartUp)
                    \/ ReportsDo(Beat))
    /\ WF_AgentVars(\/ CaptureDoes(\E t \in Tasks : Spawn(t))
                    \/ SensorsDo(LiveSensor)
                    \/ ReportsDo(Flush))
    /\ WF_AgentVars(CaptureDoes(\E c \in Rows : lease_next_due(c)) \/ SensorsDo(PollScan))
    /\ WF_AgentVars(CaptureDoes(Elapse(1)) \/ SensorsDo(Reconcile("startup")))
    /\ WF_AgentVars(CaptureDoes(Elapse(2)) \/ SensorsDo(Reconcile("poll")))
    /\ WF_AgentVars(CaptureDoes(Elapse(3)) \/ SensorsDo(\E f \in File : CaptureRead(f)))
    /\ WF_AgentVars(SensorsDo(\E f \in File : CaptureEnd(f)))

AgentSpec == AgentInit /\ [][AgentNext]_AgentVars /\ AgentFairness
=============================================================================
