----------------------------- MODULE WatchProofs ------------------------------
(* Proofs about who watches: that "symingest watch" leaves one watcher when it *)
(* is started one after the other (WatchLock), and that an MCP session keeps   *)
(* the watchers it has started (WatchSessions).                                *)
EXTENDS WatchLock, WatchSessions, TLAPS

LivePid == \A p \in Procs : pc[p] # "off" => pid[p] \in Pids

(* The lock is taken by one process at a time; whoever runs has his pid in it, *)
(* whoever is about to write or to remove it does so while nobody runs.       *)
OneAcquires == \A p, q \in Procs : pc[p] \in Acquiring /\ pc[q] \in Acquiring => p = q
RunnerHasLock ==
  \A q \in Procs : pc[q] = "running" => file.by = q /\ file.pid = pid[q]
WriterHasLock == \A p \in Procs : pc[p] = "write" => file.by = p
ReaderKnows ==
  \A p, q \in Procs : pc[p] = "check" /\ pc[q] = "running" => seen[p] = pid[q]
NobodyRunsBefore ==
  \A p, q \in Procs : pc[p] \in {"write", "remove"} => pc[q] # "running"

Orderly ==
  OneAcquires /\ RunnerHasLock /\ WriterHasLock /\ ReaderKnows /\ NobodyRunsBefore

LockInv == TypeOK /\ LivePid /\ (overlapped \/ Orderly)

LEMMA InitLock == Init => LockInv
<1>. SUFFICES ASSUME Init PROVE LockInv
  OBVIOUS
<1>1. TypeOK
  <2>1. /\ file \in [by : Procs \cup {Nobody}, pid : Pids \cup {NoPid}]
        /\ pc \in [Procs -> Acquiring \cup {"off", "running"}]
        /\ pid \in [Procs -> Pids \cup {NoPid}] /\ seen \in [Procs -> Pids \cup {NoPid}]
        /\ foreign \subseteq Pids
    BY DEF Init, NoFile
  <2>2. overlapped \in BOOLEAN
    BY Zenon DEF Init
  <2>3. starts \in 0..MaxStarts /\ crashes \in 0..MaxCrashes
    BY WatchLockAssumption DEF Init
  <2>. QED  BY <2>1, <2>2, <2>3 DEF TypeOK
<1>2. LivePid
  BY DEF Init, LivePid
<1>3. Orderly
  BY DEF Init, Orderly, OneAcquires, RunnerHasLock, WriterHasLock, ReaderKnows,
         NobodyRunsBefore, Acquiring
<1>. QED  BY <1>1, <1>2, <1>3 DEF LockInv

LEMMA NextLockTypes ==
  ASSUME TypeOK, LivePid, [Next]_vars
  PROVE  TypeOK' /\ LivePid'
<1>. USE WatchLockAssumption DEF TypeOK, LivePid, Goto, Acquiring
<1>1. ASSUME NEW p \in Procs, Start(p) PROVE TypeOK' /\ LivePid'
  <2>1. PICK n \in Pids : pid' = [pid EXCEPT ![p] = n]
    BY <1>1 DEF Start
  <2>2. overlapped' \in BOOLEAN
    BY <1>1, Zenon DEF Start
  <2>. QED  BY <1>1, <2>1, <2>2 DEF Start
<1>2. ASSUME NEW p \in Procs, Open(p) PROVE TypeOK' /\ LivePid'
  BY <1>2 DEF Open, NoFile
<1>3. ASSUME NEW p \in Procs, WritePid(p) PROVE TypeOK' /\ LivePid'
  BY <1>3 DEF WritePid
<1>4. ASSUME NEW p \in Procs, ReadLockPID(p) PROVE TypeOK' /\ LivePid'
  BY <1>4 DEF ReadLockPID
<1>5. ASSUME NEW p \in Procs, Check(p) PROVE TypeOK' /\ LivePid'
  BY <1>5 DEF Check
<1>6. ASSUME NEW p \in Procs, Remove(p) \/ Stop(p) PROVE TypeOK' /\ LivePid'
  BY <1>6 DEF Remove, Stop, NoFile
<1>7. ASSUME NEW p \in Procs, Crash(p) PROVE TypeOK' /\ LivePid'
  BY <1>7 DEF Crash
<1>8. ASSUME NEW n \in Pids, Reuse(n) PROVE TypeOK' /\ LivePid'
  BY <1>8 DEF Reuse
<1>9. CASE UNCHANGED vars
  BY <1>9 DEF vars
<1>. QED
  BY <1>1, <1>2, <1>3, <1>4, <1>5, <1>6, <1>7, <1>8, <1>9 DEF Next, Acquire

LEMMA NextOrderly ==
  ASSUME LockInv, [Next]_vars
  PROVE  overlapped' \/ Orderly'
<1>. USE WatchLockAssumption
     DEF LockInv, TypeOK, LivePid, Goto, Acquiring, Orderly, OneAcquires, RunnerHasLock,
         WriterHasLock, ReaderKnows, NobodyRunsBefore
<1>1. ASSUME NEW p \in Procs, Start(p) PROVE overlapped' \/ Orderly'
  <2>1. CASE overlapped \/ \E q \in Procs : pc[q] \in Acquiring
    BY <1>1, <2>1 DEF Start
  <2>2. CASE ~ (overlapped \/ \E q \in Procs : pc[q] \in Acquiring)
    BY <1>1, <2>2 DEF Start
  <2>. QED  BY <2>1, <2>2
<1>2. ASSUME NEW p \in Procs, Open(p), Orderly PROVE Orderly'
  <2>1. CASE file = NoFile
    <3>1. \A q \in Procs : pc[q] # "running"
      BY <1>2, <2>1 DEF NoFile
    <3>. QED  BY <1>2, <2>1, <3>1 DEF Open
  <2>2. CASE file # NoFile
    BY <1>2, <2>2 DEF Open
  <2>. QED  BY <2>1, <2>2
<1>3. ASSUME NEW p \in Procs, WritePid(p), Orderly PROVE Orderly'
  BY <1>3 DEF WritePid
<1>4. ASSUME NEW p \in Procs, ReadLockPID(p), Orderly PROVE Orderly'
  BY <1>4 DEF ReadLockPID
<1>5. ASSUME NEW p \in Procs, Check(p), Orderly PROVE Orderly'
  <2>1. ASSUME NEW q \in Procs, pc[q] = "running" PROVE seen[p] # NoPid /\ Alive(seen[p])
    BY <1>5, <2>1 DEF Check, Alive
  <2>. QED  BY <1>5, <2>1 DEF Check
<1>6. ASSUME NEW p \in Procs, Remove(p), Orderly PROVE Orderly'
  BY <1>6 DEF Remove, NoFile
<1>7. ASSUME NEW p \in Procs, Stop(p), Orderly PROVE Orderly'
  BY <1>7 DEF Stop, NoFile
<1>8. ASSUME NEW p \in Procs, Crash(p), Orderly PROVE Orderly'
  BY <1>8 DEF Crash
<1>9. ASSUME NEW n \in Pids, Reuse(n), Orderly PROVE Orderly'
  BY <1>9 DEF Reuse
<1>10. ASSUME UNCHANGED vars, Orderly PROVE Orderly'
  BY <1>10 DEF vars
<1>11. overlapped => overlapped'
  BY Zenon DEF Next, Start, Acquire, Open, WritePid, ReadLockPID, Check, Remove, Stop, Crash,
        Reuse, vars
<1>12. overlapped \/ Orderly
  BY DEF LockInv
<1>. HIDE DEF Orderly
<1>. QED
  BY <1>1, <1>2, <1>3, <1>4, <1>5, <1>6, <1>7, <1>8, <1>9, <1>10, <1>11, <1>12
  DEF Next, Acquire

LEMMA LockInvariant == Spec => []LockInv
<1>1. LockInv /\ [Next]_vars => LockInv'
  BY NextLockTypes, NextOrderly DEF LockInv
<1>. QED  BY InitLock, <1>1, PTL DEF Spec

(* The lock file, the processes and what they have read keep their types.      *)
THEOREM LockTypes == Spec => []TypeOK
<1>1. LockInv => TypeOK
  BY DEF LockInv
<1>. QED  BY <1>1, LockInvariant, PTL

(* For any number of starts, crashes and reused process ids, acquireWatchLock  *)
(* lets two watchers run only if their starts overlapped.                      *)
THEOREM LockExcludes == Spec => []OneWatcherUnlessOverlap
<1>1. LockInv => OneWatcherUnlessOverlap
  BY DEF LockInv, Orderly, RunnerHasLock, OneWatcherUnlessOverlap
<1>. QED  BY <1>1, LockInvariant, PTL

-----------------------------------------------------------------------------
(* The watchers of an MCP session.                                             *)

Active(h) == hpc[h] # "idle"

(* A call of start_watch between its reservation and its entry.               *)
ActiveIsNumbered == \A h \in Handlers : Active(h) => hid[h] \in Ids

(* It holds the reservation of its directory, alone, until a stop_watch took   *)
(* one away.                                                                  *)
ReservationHeld ==
  /\ \A h \in Handlers : Active(h) => entry[hdir[h]] = Reserved
  /\ \A g, h \in Handlers : Active(g) /\ Active(h) /\ hdir[g] = hdir[h] => g = h

Mapped(r) ==
  entry[r[2]] = r[1] \/ \E h \in Handlers : hpc[h] = "publish" /\ Running(h) = r

SessionInv ==
  /\ SessionTypeOK
  /\ ActiveIsNumbered
  /\ tripped \/ (ReservationHeld /\ \A r \in live : Mapped(r))

LEMMA SessionInitial == SessionInit => SessionInv
<1>. SUFFICES ASSUME SessionInit PROVE SessionInv
  OBVIOUS
<1>1. AnyDir \in Dirs
  <2>1. \E d \in Dirs : TRUE
    BY WatchSessionsAssumption
  <2>. QED  BY <2>1 DEF AnyDir
<1>2. SessionTypeOK
  <2>1. hdir \in [Handlers -> Dirs]
    BY <1>1 DEF SessionInit
  <2>2. hid \in [Handlers -> Ids \cup {0}] /\ entry \in [Dirs -> {NotWatched, Reserved} \cup Ids]
    BY DEF SessionInit
  <2>3. hpc \in [Handlers -> {"idle", "setup", "publish"}] /\ live \subseteq Ids \X Dirs
    BY DEF SessionInit
  <2>4. tripped \in BOOLEAN
    BY Zenon DEF SessionInit
  <2>5. calls \in 0..MaxCalls
    BY WatchSessionsAssumption DEF SessionInit
  <2>. QED  BY <2>1, <2>2, <2>3, <2>4, <2>5 DEF SessionTypeOK
<1>3. ActiveIsNumbered
  BY DEF SessionInit, ActiveIsNumbered, Active
<1>4. ReservationHeld /\ \A r \in live : Mapped(r)
  BY DEF SessionInit, ReservationHeld, Active
<1>. QED  BY <1>2, <1>3, <1>4 DEF SessionInv

LEMMA NextSessionTypes ==
  ASSUME SessionTypeOK, ActiveIsNumbered, [SessionNext]_sessionVars
  PROVE  SessionTypeOK' /\ ActiveIsNumbered'
<1> USE WatchSessionsAssumption DEF SessionTypeOK, ActiveIsNumbered, Active, Ids, HGoto
<1>1. ASSUME NEW h \in Handlers, NEW d \in Dirs, StartWatch(h, d)
      PROVE  SessionTypeOK' /\ ActiveIsNumbered'
  BY <1>1 DEF StartWatch, NotWatched, Reserved
<1>2. ASSUME NEW h \in Handlers, NEW d \in Dirs, StopWatch(h, d) \/ StopPanics(h, d)
      PROVE  SessionTypeOK' /\ ActiveIsNumbered'
  BY <1>2 DEF StopWatch, StopPanics, NotWatched, Reserved
<1>3. ASSUME NEW h \in Handlers, SetupFails(h) PROVE SessionTypeOK' /\ ActiveIsNumbered'
  BY <1>3 DEF SetupFails, NotWatched
<1>4. ASSUME NEW h \in Handlers, Setup(h) PROVE SessionTypeOK' /\ ActiveIsNumbered'
  BY <1>4 DEF Setup, Running
<1>5. ASSUME NEW h \in Handlers, Publish(h) PROVE SessionTypeOK' /\ ActiveIsNumbered'
  BY <1>5 DEF Publish
<1>6. CASE EndSession
  BY <1>6 DEF EndSession, NotWatched
<1>7. CASE UNCHANGED sessionVars
  BY <1>7 DEF sessionVars
<1>. QED
  BY <1>1, <1>2, <1>3, <1>4, <1>5, <1>6, <1>7 DEF SessionNext, Handle

LEMMA NextKept ==
  ASSUME SessionInv, [SessionNext]_sessionVars
  PROVE  (tripped \/ (ReservationHeld /\ \A r \in live : Mapped(r)))'
<1>. DEFINE Kept == ReservationHeld /\ \A r \in live : Mapped(r)
<1>. USE WatchSessionsAssumption
     DEF SessionInv, SessionTypeOK, ActiveIsNumbered, Active, Ids, HGoto, NotWatched, Reserved
<1>1. ASSUME NEW h \in Handlers, NEW d \in Dirs, StartWatch(h, d), Kept PROVE Kept'
  <2>1. ReservationHeld'
    BY <1>1 DEF StartWatch, ReservationHeld
  <2>2. ASSUME NEW r \in live PROVE Mapped(r)'
    <3>1. CASE entry[r[2]] = r[1]
      <4>1. r[2] # d
        BY <1>1, <3>1 DEF StartWatch
      <4>. QED  BY <1>1, <3>1, <4>1 DEF StartWatch, Mapped
    <3>2. CASE \E g \in Handlers : hpc[g] = "publish" /\ Running(g) = r
      BY <1>1, <3>2 DEF StartWatch, Mapped, Running
    <3>. QED  BY <1>1, <3>1, <3>2 DEF Mapped
  <2>. QED  BY <1>1, <2>1, <2>2 DEF StartWatch
<1>2. ASSUME NEW h \in Handlers, NEW d \in Dirs, StopWatch(h, d), Kept PROVE Kept'
  <2>1. ReservationHeld'
    BY <1>2 DEF StopWatch, ReservationHeld
  <2>2. ASSUME NEW r \in live' PROVE Mapped(r)'
    <3>1. r \in live /\ r[1] # entry[d]
      BY <1>2 DEF StopWatch
    <3>. QED  BY <1>2, <3>1 DEF StopWatch, Mapped, Running
  <2>. QED  BY <2>1, <2>2
<1>3. ASSUME NEW h \in Handlers, SetupFails(h), Kept PROVE Kept'
  <2>1. ReservationHeld'
    BY <1>3 DEF SetupFails, ReservationHeld
  <2>2. ASSUME NEW r \in live PROVE Mapped(r)'
    <3>1. CASE entry[r[2]] = r[1]
      <4>1. r[2] # hdir[h]
        BY <1>3, <3>1 DEF SetupFails, ReservationHeld
      <4>. QED  BY <1>3, <3>1, <4>1 DEF SetupFails, Mapped
    <3>2. CASE \E g \in Handlers : hpc[g] = "publish" /\ Running(g) = r
      BY <1>3, <3>2 DEF SetupFails, Mapped, Running
    <3>. QED  BY <1>3, <3>1, <3>2 DEF Mapped
  <2>. QED  BY <1>3, <2>1, <2>2 DEF SetupFails
<1>4. ASSUME NEW h \in Handlers, Setup(h), Kept PROVE Kept'
  <2>1. ReservationHeld'
    BY <1>4 DEF Setup, ReservationHeld
  <2>2. ASSUME NEW r \in live' PROVE Mapped(r)'
    BY <1>4 DEF Setup, Mapped, Running
  <2>. QED  BY <2>1, <2>2
<1>5. ASSUME NEW h \in Handlers, Publish(h), Kept PROVE Kept'
  <2>1. ReservationHeld'
    BY <1>5 DEF Publish, ReservationHeld
  <2>2. ASSUME NEW r \in live PROVE Mapped(r)'
    <3>1. CASE entry[r[2]] = r[1]
      <4>1. r[2] # hdir[h]
        BY <1>5, <3>1 DEF Publish, ReservationHeld
      <4>. QED  BY <1>5, <3>1, <4>1 DEF Publish, Mapped
    <3>2. ASSUME NEW g \in Handlers, hpc[g] = "publish", Running(g) = r PROVE Mapped(r)'
      <4>1. CASE g = h
        BY <1>5, <3>2, <4>1 DEF Publish, Mapped, Running
      <4>2. CASE g # h
        BY <1>5, <3>2, <4>2 DEF Publish, Mapped, Running
      <4>. QED  BY <4>1, <4>2
    <3>. QED  BY <1>5, <3>1, <3>2 DEF Mapped
  <2>. QED  BY <1>5, <2>1, <2>2 DEF Publish
<1>6. ASSUME NEW h \in Handlers, NEW d \in Dirs, StopPanics(h, d) PROVE tripped'
  BY <1>6 DEF StopPanics
<1>7. ASSUME EndSession PROVE Kept'
  BY <1>7 DEF EndSession, ReservationHeld
<1>8. ASSUME UNCHANGED sessionVars, Kept PROVE Kept'
  BY <1>8 DEF sessionVars, ReservationHeld, Mapped, Running
<1>9. ASSUME tripped, UNCHANGED tripped PROVE tripped'
  BY <1>9
<1>10. Kept \/ tripped
  BY DEF SessionInv
<1>11. ~ EndSession => UNCHANGED tripped \/ tripped'
  BY DEF SessionNext, Handle, StartWatch, StopWatch, StopPanics, SetupFails, Setup, Publish, sessionVars
<1>. HIDE DEF Kept
<1>12. Kept' \/ tripped'
  BY <1>1, <1>2, <1>3, <1>4, <1>5, <1>6, <1>7, <1>8, <1>9, <1>10, <1>11 DEF SessionNext, Handle
<1>. QED  BY <1>12 DEF Kept

LEMMA SessionInvariant == SessionSpec => []SessionInv
<1>1. SessionInv /\ [SessionNext]_sessionVars => SessionInv'
  BY NextSessionTypes, NextKept DEF SessionInv
<1>. QED  BY SessionInitial, <1>1, PTL DEF SessionSpec

(* The map, the watchers and the handlers keep their types.                    *)
THEOREM SessionTypes == SessionSpec => []SessionTypeOK
<1>1. SessionInv => SessionTypeOK
  BY DEF SessionInv
<1>. QED  BY <1>1, SessionInvariant, PTL

(* start_watch and stop_watch keep the map true to the watchers that run, for  *)
(* any number of requests and directories, until a stop_watch takes the        *)
(* reservation of a start_watch that has not finished.                         *)
THEOREM SessionKeepsWatchers == SessionSpec => []WatchersAreKept
<1>1. SessionInv => WatchersAreKept
  <2>. SUFFICES ASSUME SessionInv, ~ tripped, NEW r \in live
                PROVE  /\ Mapped(r)
                       /\ \A s \in live : s[2] = r[2] => s = r
    BY DEF WatchersAreKept, Mapped
  <2>1. ReservationHeld /\ Mapped(r) /\ \A s \in live : Mapped(s)
    BY DEF SessionInv
  <2>2. ASSUME NEW s \in live, s[2] = r[2] PROVE s = r
    BY <2>1, <2>2
    DEF SessionInv, SessionTypeOK, ReservationHeld, Active, Mapped, Running, Ids, Reserved
  <2>. QED  BY <2>1, <2>2
<1>. QED  BY <1>1, SessionInvariant, PTL
==============================================================================
