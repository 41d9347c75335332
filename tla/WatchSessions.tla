---------------------------- MODULE WatchSessions ----------------------------
(***************************************************************************)
(* The watchers of an MCP session, which takes no lock: start_watch and    *)
(* stop_watch keep them in a map (internal/mcp/mcp.go).                    *)
(***************************************************************************)
EXTENDS Integers

CONSTANTS
  Handlers,    \* requests the MCP server handles at once
  Dirs,        \* directories it is asked to watch
  MaxCalls     \* bound: calls of start_watch that reach the map

Ids == 1..MaxCalls
NotWatched == 0
Reserved == -1

ASSUME WatchSessionsAssumption == MaxCalls \in Nat /\ Dirs # {}

VARIABLES
  entry,       \* activeWatchers: NotWatched, Reserved, or a watcher
  live,        \* watchers of the session that run, with their directories
  hpc, hdir, hid,   \* per handler: where it is, its directory, its watcher
  tripped,     \* a stop_watch took the reservation of a start_watch
  calls

sessionVars == <<entry, live, hpc, hdir, hid, tripped, calls>>

AnyDir == CHOOSE d \in Dirs : TRUE

SessionTypeOK ==
  /\ entry \in [Dirs -> {NotWatched, Reserved} \cup Ids]
  /\ live \subseteq Ids \X Dirs
  /\ hpc \in [Handlers -> {"idle", "setup", "publish"}]
  /\ hdir \in [Handlers -> Dirs] /\ hid \in [Handlers -> Ids \cup {0}]
  /\ tripped \in BOOLEAN /\ calls \in 0..MaxCalls

SessionInit ==
  /\ entry = [d \in Dirs |-> NotWatched] /\ live = {}
  /\ hpc = [h \in Handlers |-> "idle"] /\ hdir = [h \in Handlers |-> AnyDir]
  /\ hid = [h \in Handlers |-> 0]
  /\ tripped = FALSE /\ calls = 0

-----------------------------------------------------------------------------
HGoto(h, step) == hpc' = [hpc EXCEPT ![h] = step]
Running(h) == <<hid[h], hdir[h]>>

(* Mutant: the map is looked at, and written only at the end.               *)
StartWatchUnreserved(h, d) ==
  /\ hpc[h] = "idle" /\ entry[d] = NotWatched /\ calls < MaxCalls
  /\ calls' = calls + 1
  /\ hdir' = [hdir EXCEPT ![h] = d] /\ hid' = [hid EXCEPT ![h] = calls + 1]
  /\ HGoto(h, "setup")
  /\ UNCHANGED <<entry, live, tripped>>

(* LoadOrStore(dir, nil).                                                   *)
StartWatch(h, d) ==
  /\ hpc[h] = "idle" /\ entry[d] = NotWatched /\ calls < MaxCalls
  /\ calls' = calls + 1
  /\ entry' = [entry EXCEPT ![d] = Reserved]
  /\ hdir' = [hdir EXCEPT ![h] = d] /\ hid' = [hid EXCEPT ![h] = calls + 1]
  /\ HGoto(h, "setup")
  /\ UNCHANGED <<live, tripped>>

(* No vault, no such directory, no inotify instance left.                   *)
SetupFails(h) ==
  /\ hpc[h] = "setup"
  /\ entry' = [entry EXCEPT ![hdir[h]] = NotWatched]
  /\ HGoto(h, "idle")
  /\ UNCHANGED <<live, hdir, hid, tripped, calls>>

(* Watcher.Start and go StartWorker.                                        *)
Setup(h) ==
  /\ hpc[h] = "setup"
  /\ live' = live \cup {Running(h)}
  /\ HGoto(h, "publish")
  /\ UNCHANGED <<entry, hdir, hid, tripped, calls>>

Publish(h) ==
  /\ hpc[h] = "publish"
  /\ entry' = [entry EXCEPT ![hdir[h]] = hid[h]]
  /\ HGoto(h, "idle")
  /\ UNCHANGED <<live, hdir, hid, tripped, calls>>

(* LoadAndDelete, cancel, Close.                                            *)
StopWatch(h, d) ==
  /\ hpc[h] = "idle" /\ entry[d] \in Ids
  /\ entry' = [entry EXCEPT ![d] = NotWatched]
  /\ live' = {r \in live : r[1] # entry[d]}
  /\ UNCHANGED <<hpc, hdir, hid, tripped, calls>>

(* The type assertion panics on a reservation, which is deleted by then; the *)
(* server recovers.                                                         *)
StopPanics(h, d) ==
  /\ hpc[h] = "idle" /\ entry[d] = Reserved
  /\ entry' = [entry EXCEPT ![d] = NotWatched]
  /\ tripped' = TRUE
  /\ UNCHANGED <<live, hpc, hdir, hid, calls>>

(* The session ends, or it does not recover from the panic.                 *)
EndSession ==
  /\ entry' = [d \in Dirs |-> NotWatched] /\ live' = {}
  /\ hpc' = [h \in Handlers |-> "idle"]
  /\ tripped' = FALSE
  /\ UNCHANGED <<hdir, hid, calls>>

-----------------------------------------------------------------------------
Handle(h) ==
  \/ \E d \in Dirs : StartWatch(h, d) \/ StopWatch(h, d) \/ StopPanics(h, d)
  \/ SetupFails(h) \/ Setup(h) \/ Publish(h)

SessionNext == EndSession \/ \E h \in Handlers : Handle(h)

SessionSpec == SessionInit /\ [][SessionNext]_sessionVars

-----------------------------------------------------------------------------
(* A watcher of the session can be stopped: the map names it, or the call   *)
(* that started it is about to enter it.  No directory has two.  Both hold  *)
(* until a stop_watch meets a start_watch of the same directory half done.  *)
WatchersAreKept ==
  tripped \/ \A r \in live :
    /\ entry[r[2]] = r[1] \/ \E h \in Handlers : hpc[h] = "publish" /\ Running(h) = r
    /\ \A s \in live : s[2] = r[2] => s = r
==============================================================================
