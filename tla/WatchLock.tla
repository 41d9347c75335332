------------------------------ MODULE WatchLock ------------------------------
(***************************************************************************)
(* Who watches an inbox.  "symingest watch" takes a lock file for its      *)
(* inbox and database (acquireWatchLock, cmd/symingest/service.go), may    *)
(* crash and leave it behind, and is started again by launchd or by hand.  *)
(***************************************************************************)
EXTENDS Integers, FiniteSets

CONSTANTS
  Procs,       \* runs of "symingest watch" that may be there at once
  Pids,        \* process ids of the operating system
  MaxStarts,   \* bound: starts of Procs
  MaxCrashes,  \* bound: crashes of them
  MaxForeign   \* bound: other programs that get a pid

NoPid == 0
Nobody == "nobody"

ASSUME WatchLockAssumption ==
  /\ NoPid \notin Pids /\ Nobody \notin Procs
  /\ MaxStarts \in Nat /\ MaxCrashes \in Nat /\ MaxForeign \in Nat

VARIABLES
  file,        \* the lock file: who made it, the pid written to it
  pc, pid,     \* per process: where it is, its process id
  seen,        \* the pid it has read
  foreign,     \* pids of other programs
  overlapped,  \* two processes were taking the lock at the same time
  starts, crashes

vars == <<file, pc, pid, seen, foreign, overlapped, starts, crashes>>

NoFile == [by |-> Nobody, pid |-> NoPid]
Acquiring == {"open", "write", "read", "check", "remove"}

TypeOK ==
  /\ file \in [by : Procs \cup {Nobody}, pid : Pids \cup {NoPid}]
  /\ pc \in [Procs -> Acquiring \cup {"off", "running"}]
  /\ pid \in [Procs -> Pids \cup {NoPid}] /\ seen \in [Procs -> Pids \cup {NoPid}]
  /\ foreign \subseteq Pids /\ overlapped \in BOOLEAN
  /\ starts \in 0..MaxStarts /\ crashes \in 0..MaxCrashes

Init ==
  /\ file = NoFile
  /\ pc = [p \in Procs |-> "off"] /\ pid = [p \in Procs |-> NoPid]
  /\ seen = [p \in Procs |-> NoPid]
  /\ foreign = {} /\ overlapped = FALSE /\ starts = 0 /\ crashes = 0

-----------------------------------------------------------------------------
Goto(p, step) == pc' = [pc EXCEPT ![p] = step]
Alive(n) == n \in foreign \/ \E p \in Procs : pc[p] # "off" /\ pid[p] = n

Start(p) ==
  /\ pc[p] = "off" /\ starts < MaxStarts
  /\ \E n \in Pids : ~ Alive(n) /\ pid' = [pid EXCEPT ![p] = n]
  /\ Goto(p, "open")
  /\ seen' = [seen EXCEPT ![p] = NoPid]
  /\ starts' = starts + 1
  /\ overlapped' = (overlapped \/ \E q \in Procs : pc[q] \in Acquiring)
  /\ UNCHANGED <<file, foreign, crashes>>

(* O_CREATE with O_EXCL.                                                    *)
Open(p) ==
  /\ pc[p] = "open"
  /\ IF file = NoFile
     THEN file' = [by |-> p, pid |-> NoPid] /\ Goto(p, "write")
     ELSE UNCHANGED file /\ Goto(p, "read")
  /\ UNCHANGED <<pid, seen, foreign, overlapped, starts, crashes>>

(* The pid goes to the file that was opened, even if it is removed by now.  *)
WritePid(p) ==
  /\ pc[p] = "write"
  /\ file' = IF file.by = p THEN [file EXCEPT !.pid = pid[p]] ELSE file
  /\ Goto(p, "running")
  /\ UNCHANGED <<pid, seen, foreign, overlapped, starts, crashes>>

(* A file that has gone, or has no number in it yet, reads as stale.        *)
ReadLockPID(p) ==
  /\ pc[p] = "read"
  /\ seen' = [seen EXCEPT ![p] = file.pid]
  /\ Goto(p, "check")
  /\ UNCHANGED <<file, pid, foreign, overlapped, starts, crashes>>

(* Mutant: a lock is stale when its process is there.                       *)
CheckInverted(p) ==
  /\ pc[p] = "check"
  /\ Goto(p, IF seen[p] = NoPid \/ Alive(seen[p]) THEN "remove" ELSE "off")
  /\ UNCHANGED <<file, pid, seen, foreign, overlapped, starts, crashes>>

(* processAlive; "watcher already running" ends the process.                *)
Check(p) ==
  /\ pc[p] = "check"
  /\ Goto(p, IF seen[p] = NoPid \/ ~ Alive(seen[p]) THEN "remove" ELSE "off")
  /\ UNCHANGED <<file, pid, seen, foreign, overlapped, starts, crashes>>

(* Mutant: the file is left where it is.                                    *)
RemoveNothing(p) ==
  /\ pc[p] = "remove"
  /\ Goto(p, "open")
  /\ UNCHANGED <<file, pid, seen, foreign, overlapped, starts, crashes>>

(* By its path: whosever file it is now.                                    *)
Remove(p) ==
  /\ pc[p] = "remove"
  /\ file' = NoFile
  /\ Goto(p, "open")
  /\ UNCHANGED <<pid, seen, foreign, overlapped, starts, crashes>>

(* The process ends in order: Release.                                      *)
Stop(p) ==
  /\ pc[p] = "running"
  /\ file' = NoFile
  /\ Goto(p, "off")
  /\ UNCHANGED <<pid, seen, foreign, overlapped, starts, crashes>>

Crash(p) ==
  /\ pc[p] # "off" /\ crashes < MaxCrashes
  /\ Goto(p, "off")
  /\ crashes' = crashes + 1
  /\ UNCHANGED <<file, pid, seen, foreign, overlapped, starts>>

(* Another program gets a pid that is free.                                 *)
Reuse(n) ==
  /\ ~ Alive(n) /\ Cardinality(foreign) < MaxForeign
  /\ foreign' = foreign \cup {n}
  /\ UNCHANGED <<file, pc, pid, seen, overlapped, starts, crashes>>

-----------------------------------------------------------------------------
Acquire(p) ==
  Open(p) \/ WritePid(p) \/ ReadLockPID(p) \/ Check(p) \/ Remove(p)

Next ==
  \/ \E p \in Procs : Start(p) \/ Acquire(p) \/ Stop(p) \/ Crash(p)
  \/ \E n \in Pids : Reuse(n)

Spec == Init /\ [][Next]_vars
FairSpec == Spec /\ \A p \in Procs : WF_vars(Acquire(p))

-----------------------------------------------------------------------------
(* Two processes watch one inbox for one database only if their starts      *)
(* overlapped: one after the other is safe, whatever crashed before and     *)
(* whoever got the pid of the dead.                                         *)
OneWatcherUnlessOverlap ==
  overlapped \/ \A p, q \in Procs : pc[p] = "running" /\ pc[q] = "running" => p = q

(* No start waits for a lock: it runs, is refused or dies.                  *)
StartDecides == \A p \in Procs : pc[p] \in Acquiring ~> pc[p] \notin Acquiring
==============================================================================
