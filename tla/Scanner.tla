------------------------------- MODULE Scanner -------------------------------
(***************************************************************************)
(* One scan: the isolation tier and its minimum, the scanner process and   *)
(* its parent, and what becomes of output that is late, missing, too long  *)
(* or not JSON.  A sample either matches the rules or not; the rules       *)
(* compile or not; the bytes of a stored object lie under its digest.      *)
(***************************************************************************)
EXTENDS Integers, FiniteSets

VARIABLES
    host,    \* environment and tools of the server's host
    sample,  \* [matches, compiles, readable]: the truth about sample and rules
    scan,    \* [caller, pc, verdict, at]: the call, and the tier it ran at
    child    \* [pc, out]: the scanner process

ScannerVars == <<host, sample, scan, child>>

Tiers == {"inprocess", "subprocess", "gvisor"}
Rank(tier) == CASE tier = "inprocess" -> 1 [] tier = "subprocess" -> 2 [] tier = "gvisor" -> 3
ScanStatus == {"clean", "matched", "timeout", "error"}
NoChild == [pc |-> "none", out |-> "empty"]

Hosts == [tier : {"inprocess", "subprocess", "gvisor", "unset", "other"},
          min : {"subprocess", "gvisor", "unset"},
          binary : BOOLEAN, runsc : BOOLEAN, docker : BOOLEAN, runtime : BOOLEAN,
          bundle : BOOLEAN]

tier_from_env == IF host.tier \in {"inprocess", "gvisor"} THEN host.tier ELSE "subprocess"

check_min_tier(tier) ==
    /\ host.min = "gvisor" => tier = "gvisor"
    /\ host.min = "subprocess" => tier # "inprocess"

ScanDone(verdict) == scan' = [scan EXCEPT !.pc = "done", !.verdict = verdict]

(***************************************************************************)
(* The parent: scan_with_tier and the ways it starts a scanner.            *)
(***************************************************************************)
\* execute_hunt asks for the minimum first, forward_scan does not.
CallScan(caller) ==
    /\ scan.pc = "idle"
    /\ scan' = [scan EXCEPT !.caller = caller,
          !.pc = IF caller = "hunt" /\ ~check_min_tier(tier_from_env) THEN "refused" ELSE "tier",
          !.at = tier_from_env]
    /\ UNCHANGED <<host, sample, child>>

\* What scan_bytes finds; its own time limit may end it.
scan_bytes == {IF sample.matches THEN "matched" ELSE "clean", "timeout", "error"}

\* Compiled rules are handed in; there is nothing between them and the server.
ScanInProcess ==
    /\ scan.pc = "tier" /\ scan.at = "inprocess"
    /\ sample.compiles /\ sample.readable
    /\ \E v \in scan_bytes : ScanDone(v)
    /\ UNCHANGED <<host, sample, child>>

\* Without the binary the spawn fails.
run_sandboxed ==
    /\ scan.pc = "tier" /\ scan.at = "subprocess"
    /\ IF host.binary
       THEN scan' = [scan EXCEPT !.pc = "wait"] /\ child' = [child EXCEPT !.pc = "running"]
       ELSE ScanDone("error") /\ UNCHANGED child
    /\ UNCHANGED <<host, sample>>

\* runsc without a bundle falls back to docker, with one it is refused.
Containable ==
    /\ host.binary
    /\ host.runsc => ~host.bundle
    /\ host.docker /\ host.runtime

scan_gvisor ==
    /\ scan.pc = "tier" /\ scan.at = "gvisor"
    /\ IF Containable
       THEN scan' = [scan EXCEPT !.pc = "wait"] /\ child' = [child EXCEPT !.pc = "running"]
       ELSE ScanDone("error") /\ UNCHANGED child
    /\ UNCHANGED <<host, sample>>

(***************************************************************************)
(* The scanner: main and run of corpus-scanner.                            *)
(***************************************************************************)
\* In the container the job names /sample/artifact, while the sample is
\* mounted under its own name, its digest.
SampleFound == sample.readable /\ scan.at # "gvisor"

RunScanner ==
    /\ child.pc = "running"
    /\ \E out \in IF sample.compiles /\ SampleFound THEN scan_bytes ELSE {"error"} :
         child' = [pc |-> "exited", out |-> out]
    /\ UNCHANGED <<host, sample, scan>>

\* It is killed or crashes, in the middle of its output or before it; other
\* output mixes with it; the matches outgrow the cap.
ScannerFails ==
    /\ child.pc = "running"
    /\ \E out \in {"empty", "garbage", "over_cap"} : child' = [pc |-> "exited", out |-> out]
    /\ UNCHANGED <<host, sample, scan>>

(***************************************************************************)
(* The parent again: the time limit, and what the output says.             *)
(***************************************************************************)
\* The dropped child is killed; of a container only the docker client is.
ScanTimeout ==
    /\ scan.pc = "wait"
    /\ ScanDone("timeout")
    /\ child' = IF child.pc = "running" /\ scan.at = "gvisor" THEN child
                ELSE [child EXCEPT !.pc = "killed"]
    /\ UNCHANGED <<host, sample>>

\* Mutant: a status it does not know is taken for a scan without matches.
outcome_from_json_Clean(out) == IF out \in ScanStatus THEN out ELSE "clean"
\* Output that does not parse, is missing or too long is an error.
outcome_from_json(out) == IF out \in ScanStatus THEN out ELSE "error"

Collect ==
    /\ scan.pc = "wait"
    /\ child.pc = "exited"
    /\ ScanDone(outcome_from_json(child.out))
    /\ UNCHANGED <<host, sample, child>>
----------------------------------------------------------------------------
ScannerInit ==
    /\ host \in Hosts
    /\ sample \in [matches : BOOLEAN, compiles : BOOLEAN, readable : BOOLEAN]
    /\ scan = [caller |-> "none", pc |-> "idle", verdict |-> "none", at |-> "none"]
    /\ child = NoChild

ScannerNext ==
    \/ \E caller \in {"hunt", "forward"} : CallScan(caller)
    \/ ScanInProcess \/ run_sandboxed \/ scan_gvisor
    \/ RunScanner \/ ScannerFails
    \/ ScanTimeout \/ Collect
ScannerSpec == ScannerInit /\ [][ScannerNext]_ScannerVars
----------------------------------------------------------------------------
\* A scan fails closed: it calls a sample clean or matched only when rules
\* that compile were run over its bytes and said so, whatever the scanner
\* process did and whichever tool was missing; a hunt is never scanned below
\* the minimum tier; and no scanner of the subprocess tier outlives its scan.
ScansFailClosed ==
    /\ scan.verdict \in {"clean", "matched"} =>
         /\ sample.compiles /\ sample.readable
         /\ (scan.verdict = "matched") = sample.matches
    /\ scan.caller = "hunt" /\ scan.pc # "refused" /\ host.min # "unset" =>
         Rank(scan.at) >= Rank(host.min)
    /\ scan.pc = "done" /\ scan.at = "subprocess" => child.pc # "running"
=============================================================================
