--------------------------- MODULE ServerLockProofs ---------------------------
(***************************************************************************)
(* The lock is exclusive for any number of processes: without a kill, in   *)
(* whatever order they start, fail and stop; and with any number of kills  *)
(* and reboots, if no two of them are in their startup at once.  TLC       *)
(* refutes it with one kill and two overlapping starters (run              *)
(* lock_overlap).                                                          *)
(***************************************************************************)
EXTENDS ServerLock, FiniteSetTheorems, TLAPS

\* Every call keeps the types, whatever else happens.
LEMMA StepKeepsTypes ==
  ASSUME TypeOK, NEW p \in Procs,
         Launch(p) \/ OwnStep(p) \/ StartupFails(p) \/ Stop(p) \/ Crash(p)
  PROVE  TypeOK'
  <1>1. \A file \in Files : /\ OpenExclusive(file, p) \in Files /\ WriteHandle(file, p) \in Files
                            /\ file # NoFile => file.by \in Procs
    BY DEF Files, OpenExclusive, WriteHandle, Created, Written
  <1> USE DEF TypeOK, Go, files, bounds, pids
  <1>2. CASE Launch(p) \/ AcquireStep(p)
    <2>1. pc' \in [Procs -> Labels]
      BY <1>2 DEF Launch, AcquireStep, OpenLock, WriteLock, ReadLock, ProbeOwner, Labels,
         Acquiring, Cleaning, Starting
    <2>2. lock' \in Files /\ seen' \in [Procs -> Procs \cup {NoFile}]
      BY <1>1, <1>2 DEF Launch, AcquireStep, OpenLock, WriteLock, ReadLock, ProbeOwner
    <2> QED BY <1>2, <2>1, <2>2 DEF Launch, AcquireStep, OpenLock, WriteLock, ReadLock, ProbeOwner
  <1>3. CASE CleanStep(p)
    <2>1. pc' \in [Procs -> Labels]
      BY <1>3 DEF CleanStep, OpenClaim, WriteClaim, ReadClaim, UnlinkClaim, RereadLock,
         ReprobeOwner, UnlinkStaleSocket, UnlinkStaleLock, ReleaseClaim, RemoveClaim,
         Labels, Acquiring, Cleaning
    <2>2. NoFile \in Files /\ claim' \in Files /\ lock' \in {lock, NoFile}
      BY <1>1, <1>3 DEF Files, CleanStep, OpenClaim, WriteClaim, ReadClaim, UnlinkClaim,
         RereadLock, ReprobeOwner, UnlinkStaleSocket, UnlinkStaleLock, ReleaseClaim, RemoveClaim
    <2> QED
      BY <1>3, <2>1, <2>2 DEF CleanStep, OpenClaim, WriteClaim, ReadClaim, UnlinkClaim,
         RereadLock, ReprobeOwner, UnlinkStaleSocket, UnlinkStaleLock, ReleaseClaim, RemoveClaim
  <1>4. CASE StartStep(p) \/ StopStep(p) \/ StartupFails(p) \/ Stop(p)
    <2>1. pc' \in [Procs -> Labels]
      BY <1>4 DEF StartStep, StopStep, ProbeSocket, UnlinkSocket, Listen, StopSocket, ReleaseLock,
         RemoveLock, StartupFails, Stop, Labels, Starting, Stopping
    <2>2. NoFile \in Files
      BY DEF Files
    <2> QED
      BY <1>4, <2>1, <2>2, LockAssumption DEF StartStep, StopStep, ProbeSocket, UnlinkSocket,
         Listen, StopSocket, ReleaseLock, RemoveLock, StartupFails, Stop
  <1>5. CASE Crash(p)
    BY <1>5 DEF Crash, Labels
  <1> QED BY <1>2, <1>3, <1>4, <1>5 DEF OwnStep

\* A reboot ends processes and hands out pids that a file names.
LEMMA RebootKeepsTypes ==
  ASSUME TypeOK, Reboot
  PROVE  TypeOK'
  <1>1. Named(lock) \subseteq Procs /\ Named(claim) \subseteq Procs
    BY DEF TypeOK, Named, Files
  <1>2. pc' \in [Procs -> Labels]
    BY DEF TypeOK, Reboot, Labels
  <1>3. recent' \subseteq taken' /\ taken' \subseteq Procs
    BY <1>1 DEF Reboot
  <1>4. reboots' \in 0..MaxReboots
    BY LockAssumption DEF TypeOK, Reboot
  <1> QED BY <1>2, <1>3, <1>4 DEF TypeOK, Reboot, files

\* The two lock files, the socket and the bookkeeping of every process keep their shape.
THEOREM Typing == Spec => []TypeOK
  <1>1. Init => TypeOK
    BY LockAssumption DEF Init, TypeOK, Files, Labels
  <1>2. TypeOK /\ [Next]_vars => TypeOK'
    <2>1. TypeOK /\ UNCHANGED vars => TypeOK'
      BY DEF TypeOK, vars
    <2>2. TypeOK /\ Reboot => TypeOK'
      BY RebootKeepsTypes
    <2> QED BY <2>1, <2>2, StepKeepsTypes DEF Next
  <1> QED BY <1>1, <1>2, PTL DEF Spec

----------------------------------------------------------------------------
(* No kills.                                                               *)

NoKill == MaxCrashes = 0 /\ MaxReboots = 0

\* Nobody is killed, so a lock file always belongs to a running process: the one that is about
\* to write it or the one that holds it, and the cleanup of stale locks is never entered.
LockInv ==
  /\ pc \in [Procs -> Labels]
  /\ killed = {}
  /\ \A p \in Procs : pc[p] \notin Cleaning \cup {"probe"}
  /\ lock # NoFile =>
       \E p \in Procs : (lock = Created(p) /\ pc[p] = "write") \/ (lock = Written(p) /\ Holds(p))
  /\ \A p \in Procs : pc[p] = "write" => lock = Created(p)
  /\ LockNamesHolder

\* A file is not "no file", and it tells who created it and whether it is written.
LEMMA FileIdentity ==
  ASSUME NEW p \in Procs
  PROVE  /\ Created(p) # NoFile /\ Written(p) # NoFile
         /\ Created(p).by = p /\ ~Created(p).written
         /\ Written(p).by = p /\ Written(p).written
  <1>1. Created(p) \in [by : Procs, written : BOOLEAN] /\ Written(p) \in [by : Procs, written : BOOLEAN]
    BY DEF Created, Written
  <1>2. Created(p) # NoFile /\ Written(p) # NoFile
    BY <1>1, LockAssumption
  <1>3. Created(p).by = p /\ ~Created(p).written /\ Written(p).by = p /\ Written(p).written
    BY DEF Created, Written
  <1> QED BY <1>2, <1>3

\* A step that leaves the file alone and neither takes nor gives up the lock.
LEMMA OtherStepKeepsLock ==
  ASSUME LockInv, NEW p \in Procs, NEW label \in Labels \ (Cleaning \cup {"probe"}), Go(p, label),
         lock' = lock, killed' = killed, pc[p] # "write", label # "write",
         Holds(p) <=> label \in Starting \cup {"serving", "stop_socket", "release", "remove"}
  PROVE  LockInv'
  <1>1. pc' \in [Procs -> Labels] /\ \A q \in Procs : pc'[q] = IF q = p THEN label ELSE pc[q]
    BY DEF LockInv, Go
  <1>2. \A q \in Procs : Holds(q)' <=> Holds(q)
    BY <1>1 DEF Holds
  <1> QED BY <1>1, <1>2 DEF LockInv, LockNamesHolder, Created, Written

\* One case per call a process makes.
LEMMA StepKeepsLock ==
  ASSUME NoKill, LockInv, NEW p \in Procs,
         Launch(p) \/ OwnStep(p) \/ StartupFails(p) \/ Stop(p) \/ Crash(p)
  PROVE  LockInv'
  <1> USE DEF Labels, Acquiring, Starting, Stopping, Cleaning, files, bounds, pids
  <1>1. CASE Launch(p)
    BY <1>1, OtherStepKeepsLock DEF Launch, Holds
  <1>2. CASE OpenLock(p)
    <2>1. CASE lock = NoFile
      <3>1. lock' = Created(p) /\ pc' = [pc EXCEPT ![p] = "write"] /\ killed' = killed
        BY <1>2, <2>1 DEF OpenLock, OpenExclusive, Go
      <3>2. \A q \in Procs : ~Holds(q) /\ pc[q] # "write"
        BY <2>1, FileIdentity DEF LockInv, LockNamesHolder
      <3>3. pc' \in [Procs -> Labels] /\ \A q \in Procs : pc'[q] = IF q = p THEN "write" ELSE pc[q]
        BY <3>1 DEF LockInv
      <3>4. \A q \in Procs : ~Holds(q)'
        BY <3>2, <3>3 DEF Holds
      <3>5. Created(p)' = Created(p)
        BY DEF Created
      <3> QED BY <3>1, <3>2, <3>3, <3>4, <3>5 DEF LockInv, LockNamesHolder, Created
    <2>2. CASE lock # NoFile
      BY <1>2, <2>2, OtherStepKeepsLock DEF OpenLock, OpenExclusive, Holds
    <2> QED BY <2>1, <2>2
  <1>3. CASE WriteLock(p)
    <2>1. lock = Created(p) /\ lock' = Written(p) /\ killed' = killed
          /\ pc' = [pc EXCEPT ![p] = "socket_probe"]
      BY <1>3 DEF WriteLock, WriteHandle, LockInv, Go
    <2>2. \A q \in Procs \ {p} : ~Holds(q) /\ pc[q] # "write"
      BY <2>1, FileIdentity DEF LockInv, LockNamesHolder
    <2>3. pc' \in [Procs -> Labels]
          /\ \A q \in Procs : pc'[q] = IF q = p THEN "socket_probe" ELSE pc[q]
      BY <2>1 DEF LockInv
    <2>4. Holds(p)' /\ \A q \in Procs \ {p} : ~Holds(q)'
      BY <2>2, <2>3 DEF Holds
    <2> QED BY <2>1, <2>2, <2>3, <2>4 DEF LockInv, LockNamesHolder, Written
  <1>4. CASE ReadLock(p)
    <2>1. lock = NoFile \/ ~lock.written \/ LockOwnerAlive(lock.by)
      BY FileIdentity DEF LockInv, LockOwnerAlive, Alive, Holds
    <2> QED BY <1>4, <2>1, OtherStepKeepsLock DEF ReadLock, Holds
  <1>5. CASE ProbeOwner(p) \/ CleanStep(p)
    BY <1>5 DEF LockInv, ProbeOwner, CleanStep, OpenClaim, WriteClaim, ReadClaim, UnlinkClaim,
       RereadLock, ReprobeOwner, UnlinkStaleSocket, UnlinkStaleLock, ReleaseClaim, RemoveClaim
  <1>6. CASE ProbeSocket(p)
    BY <1>6, OtherStepKeepsLock DEF ProbeSocket, Holds
  <1>7. CASE UnlinkSocket(p)
    BY <1>7, OtherStepKeepsLock DEF UnlinkSocket, Holds
  <1>8. CASE Listen(p)
    BY <1>8, OtherStepKeepsLock DEF Listen, Holds
  <1>9. CASE StartupFails(p)
    BY <1>9, OtherStepKeepsLock DEF StartupFails, Holds
  <1>10. CASE Stop(p)
    BY <1>10, OtherStepKeepsLock DEF Stop, Holds
  <1>11. CASE StopSocket(p)
    BY <1>11, OtherStepKeepsLock DEF StopSocket, Holds
  <1>12. CASE ReleaseLock(p)
    <2>1. lock = Written(p)
      BY <1>12 DEF ReleaseLock, LockInv, LockNamesHolder, Holds
    <2> QED BY <1>12, <2>1, OtherStepKeepsLock DEF ReleaseLock, Holds
  <1>13. CASE RemoveLock(p)
    <2>1. lock = Written(p) /\ lock' = NoFile /\ pc' = [pc EXCEPT ![p] = "gone"] /\ killed' = killed
      BY <1>13 DEF RemoveLock, LockInv, LockNamesHolder, Holds, Go
    <2>2. \A q \in Procs \ {p} : ~Holds(q) /\ pc[q] # "write"
      BY <2>1, FileIdentity DEF LockInv, LockNamesHolder
    <2>3. pc' \in [Procs -> Labels] /\ \A q \in Procs : pc'[q] = IF q = p THEN "gone" ELSE pc[q]
      BY <2>1 DEF LockInv
    <2>4. \A q \in Procs : ~Holds(q)'
      BY <2>2, <2>3 DEF Holds
    <2> QED BY <2>1, <2>2, <2>3, <2>4 DEF LockInv, LockNamesHolder
  <1>14. CASE Crash(p)
    <2>1. Cardinality(killed) = 0
      BY FS_EmptySet DEF LockInv
    <2> QED BY <1>14, <2>1 DEF Crash, NoKill
  <1> QED BY <1>1, <1>2, <1>3, <1>4, <1>5, <1>6, <1>7, <1>8, <1>9, <1>10, <1>11, <1>12, <1>13, <1>14
          DEF OwnStep, AcquireStep, StartStep, StopStep

\* Every step keeps the invariant, stuttering included.
LEMMA NextKeepsLock ==
  ASSUME NoKill, TypeOK, LockInv, [Next]_vars
  PROVE  LockInv'
  <1>1. CASE UNCHANGED vars
    BY <1>1 DEF vars, LockInv, LockNamesHolder, Holds, Created, Written
  <1>2. ~Reboot
    BY DEF Reboot, NoKill, TypeOK
  <1> QED BY <1>1, <1>2, StepKeepsLock DEF Next

\* While nobody is killed, the file names the process that holds the lock, from the return of
\* acquireServerLock to its release.
THEOREM LockIsNamed ==
  ASSUME NoKill
  PROVE  Spec => []LockNamesHolder
  <1>1. Init => LockInv
    BY DEF Init, LockInv, LockNamesHolder, Holds, Labels, Acquiring, Cleaning, Starting, Stopping
  <1>2. LockInv => LockNamesHolder
    BY DEF LockInv
  <1>3. TypeOK /\ LockInv /\ [Next]_vars => LockInv'
    BY NextKeepsLock
  <1> QED BY <1>1, <1>2, <1>3, Typing, PTL DEF Spec

\* While nobody is killed, at most one process holds the lock, however starts, failures and
\* stops overlap.
THEOREM LockIsExclusive ==
  ASSUME NoKill
  PROVE  Spec => []OneServer
  <1>1. LockNamesHolder => OneServer
    BY FileIdentity DEF LockNamesHolder, OneServer
  <1> QED BY <1>1, LockIsNamed, PTL

----------------------------------------------------------------------------
(* Kills under serialized starts.                                          *)

Startup == Acquiring \cup Cleaning \cup Starting
Holding == Starting \cup {"serving", "stop_socket", "release", "remove"}

\* Where the lock file is about to be removed as stale.
Condemning == {"reprobe", "unlink_socket", "unlink_lock"}

\* There is one starter.  The lock it cleans up belongs to a process that is gone for good, and
\* stays that lock until it is removed, because nobody who is alive holds it.
SerialInv ==
  /\ TypeOK
  /\ \A p, q \in Procs : pc[p] \in Startup /\ pc[q] \in Startup => p = q
  /\ LockNamesHolder
  /\ \A p \in Procs : pc[p] = "write" => lock = Created(p)
  /\ lock # NoFile => pc[lock.by] # "absent"
  /\ \A p \in Procs : pc[p] \in Cleaning \cup {"probe"} =>
       seen[p] \in Procs /\ pc[seen[p]] = "gone"
  /\ \A p \in Procs : pc[p] \in Condemning => lock = Written(seen[p])

\* A call that leaves the lock file alone, by a process that is in its startup if it stays there.
LEMMA CallKeepsSerial ==
  ASSUME SerialInv, TypeOK', NEW p \in Procs, NEW label \in Labels \ {"absent"}, Go(p, label),
         lock' = lock, pc[p] # "gone",
         label \in Startup =>
           \/ pc[p] \in Startup
           \/ \A q \in Procs \ {p} : pc[q] \notin Startup,
         label = "write" => lock = Created(p),
         label \in Holding => lock = Written(p),
         \A q \in Procs \ {p} : seen'[q] = seen[q],
         label \in Cleaning \cup {"probe"} => seen'[p] \in Procs /\ pc[seen'[p]] = "gone",
         label \in Condemning => lock = Written(seen'[p])
  PROVE  SerialInv'
  <1>1. \A q \in Procs : pc'[q] = IF q = p THEN label ELSE pc[q]
    BY DEF SerialInv, TypeOK, Go
  <1>2. \A q \in Procs : Holds(q) <=> pc[q] \in Holding
    BY DEF Holds, Holding
  <1>3. \A q \in Procs : Holds(q)' <=> pc'[q] \in Holding
    BY DEF Holds, Holding
  <1>4. LockNamesHolder'
    BY <1>1, <1>2, <1>3 DEF SerialInv, LockNamesHolder, Written
  <1>5. \A q, r \in Procs : pc'[q] \in Startup /\ pc'[r] \in Startup => q = r
    BY <1>1 DEF SerialInv
  <1>6. \A q \in Procs : pc'[q] = "write" => lock = Created(q)
    BY <1>1 DEF SerialInv
  <1>7. lock # NoFile => pc'[lock.by] # "absent"
    <2>1. lock # NoFile => lock.by \in Procs
      BY DEF SerialInv, TypeOK, Files
    <2> QED BY <1>1, <2>1 DEF SerialInv
  <1>8. \A q \in Procs : pc'[q] \in Cleaning \cup {"probe"} =>
           seen'[q] \in Procs /\ pc'[seen'[q]] = "gone"
    BY <1>1 DEF SerialInv
  <1>9. \A q \in Procs : pc'[q] \in Condemning => lock = Written(seen'[q])
    BY <1>1 DEF SerialInv
  <1> QED BY <1>4, <1>5, <1>6, <1>7, <1>8, <1>9 DEF SerialInv, Created, Written

\* The only starter puts a new lock file, or its pid into it, or removes the stale one.
LEMMA StarterKeepsSerial ==
  ASSUME SerialInv, TypeOK', NEW p \in Procs, pc[p] \in Startup, ~Holds(p), seen' = seen,
         \A q \in Procs : ~Holds(q),
         \/ lock' = Created(p) /\ Go(p, "write")
         \/ lock' = Written(p) /\ Go(p, "socket_probe")
         \/ lock' = NoFile /\ Go(p, "claim_release") /\ pc[p] = "unlink_lock"
  PROVE  SerialInv'
  <1>1. PICK label \in {"write", "socket_probe", "claim_release"} : Go(p, label)
    OBVIOUS
  <1>2. \A q \in Procs : pc'[q] = IF q = p THEN label ELSE pc[q]
    BY <1>1 DEF SerialInv, TypeOK, Go
  <1>3. label \in Startup /\ label \notin Condemning /\ pc[p] # "gone"
    BY <1>1 DEF Startup, Acquiring, Starting, Cleaning, Stopping, Condemning
  <1>4. \A q \in Procs \ {p} : pc[q] \notin Startup
    BY DEF SerialInv
  <1>5. \A q \in Procs \ {p} :
          pc[q] \notin Cleaning \cup {"probe", "write"} /\ pc[q] \notin Condemning
    BY <1>4 DEF Startup, Acquiring, Cleaning, Condemning
  <1>6. \A q \in Procs \ {p} : ~Holds(q)'
    BY <1>2 DEF Holds
  <1>7. label = "socket_probe" <=> Holds(p)'
    BY <1>1, <1>2 DEF Holds, Starting
  <1>8. /\ label = "write" => lock' = Created(p)
        /\ label = "socket_probe" => lock' = Written(p)
        /\ label = "claim_release" => lock' = NoFile /\ pc[p] = "unlink_lock"
    <2>1. pc'[p] = label
      BY <1>2
    <2>2. \A other : Go(p, other) => pc'[p] = other
      BY DEF Go, SerialInv, TypeOK
    <2> QED BY <2>1, <2>2
  <1>9. LockNamesHolder'
    BY <1>6, <1>7, <1>8 DEF LockNamesHolder, Written
  <1>10. lock' # NoFile => pc'[lock'.by] # "absent"
    BY <1>1, <1>2, <1>8, FileIdentity
  <1>11. label = "claim_release" => seen[p] \in Procs /\ pc[seen[p]] = "gone"
    BY <1>8 DEF SerialInv, Cleaning
  <1>12. \A q \in Procs : pc'[q] \in Cleaning \cup {"probe"} =>
            seen[q] \in Procs /\ pc'[seen[q]] = "gone"
    BY <1>1, <1>2, <1>3, <1>5, <1>11 DEF Cleaning
  <1> QED BY <1>2, <1>3, <1>4, <1>5, <1>8, <1>9, <1>10, <1>12 DEF SerialInv, Created, Written

\* Whoever holds nothing keeps everybody else from holding when the file does not name them.
LEMMA NobodyHolds ==
  ASSUME SerialInv,
         \/ lock = NoFile
         \/ \E p \in Procs : lock = Created(p)
         \/ \E p \in Procs : lock = Written(p) /\ pc[p] = "gone"
  PROVE  \A q \in Procs : ~Holds(q)
  <1> SUFFICES ASSUME NEW q \in Procs, Holds(q) PROVE FALSE
    OBVIOUS
  <1>1. lock = Written(q)
    BY DEF SerialInv, LockNamesHolder
  <1>2. pc[q] # "gone"
    BY DEF Holds, Starting
  <1> QED BY <1>1, <1>2, FileIdentity

\* One case per call a process makes.
LEMMA StepKeepsSerial ==
  ASSUME ~Overlap, SerialInv, NEW p \in Procs,
         Launch(p) \/ OwnStep(p) \/ StartupFails(p) \/ Stop(p) \/ Crash(p)
  PROVE  SerialInv'
  <1>1. TypeOK'
    BY StepKeepsTypes DEF SerialInv
  <1> USE DEF Startup, Holding, Condemning, Labels, Acquiring, Starting, Stopping, Cleaning,
              files, bounds
  <1>2. CASE Launch(p)
    BY <1>1, <1>2, CallKeepsSerial DEF Launch
  <1>3. CASE OpenLock(p)
    <2>1. CASE lock = NoFile
      BY <1>1, <1>3, <2>1, NobodyHolds, StarterKeepsSerial DEF OpenLock, OpenExclusive
    <2>2. CASE lock # NoFile
      BY <1>1, <1>3, <2>2, CallKeepsSerial DEF OpenLock, OpenExclusive
    <2> QED BY <2>1, <2>2
  <1>4. CASE WriteLock(p)
    <2>1. lock = Created(p) /\ lock' = Written(p)
      BY <1>4 DEF WriteLock, WriteHandle, SerialInv
    <2> QED BY <1>1, <1>4, <2>1, NobodyHolds, StarterKeepsSerial DEF WriteLock
  <1>5. CASE ReadLock(p)
    <2>1. CASE lock = NoFile \/ ~lock.written \/ LockOwnerAlive(lock.by)
      BY <1>1, <1>5, <2>1, CallKeepsSerial DEF ReadLock
    <2>2. CASE lock # NoFile /\ lock.written /\ ~LockOwnerAlive(lock.by)
      <3>1. lock.by \in Procs
        BY <2>2 DEF SerialInv, TypeOK, Files
      <3>2. pc[lock.by] = "gone"
        BY <2>2 DEF LockOwnerAlive, Alive, SerialInv
      <3>3. seen' = [seen EXCEPT ![p] = lock.by] /\ Go(p, "probe") /\ lock' = lock /\ pc[p] = "read"
        BY <1>5, <2>2 DEF ReadLock
      <3>4. seen'[p] = lock.by /\ \A q \in Procs \ {p} : seen'[q] = seen[q]
        BY <3>3 DEF SerialInv, TypeOK
      <3> QED BY <1>1, <3>1, <3>2, <3>3, <3>4, CallKeepsSerial
    <2> QED BY <2>1, <2>2
  <1>6. CASE ProbeOwner(p)
    BY <1>1, <1>6, CallKeepsSerial DEF ProbeOwner, SerialInv
  <1>7. CASE OpenClaim(p) \/ WriteClaim(p) \/ ReadClaim(p) \/ UnlinkClaim(p)
    BY <1>1, <1>7, CallKeepsSerial DEF OpenClaim, WriteClaim, ReadClaim, UnlinkClaim, SerialInv
  <1>8. CASE RereadLock(p) \/ ReprobeOwner(p) \/ UnlinkStaleSocket(p)
    BY <1>1, <1>8, CallKeepsSerial DEF RereadLock, ReprobeOwner, UnlinkStaleSocket, SerialInv
  <1>9. CASE UnlinkStaleLock(p)
    <2>1. lock = Written(seen[p]) /\ seen[p] \in Procs /\ pc[seen[p]] = "gone"
      BY <1>9 DEF UnlinkStaleLock, SerialInv
    <2>2. \A q \in Procs : ~Holds(q)
      BY <2>1, NobodyHolds
    <2> QED BY <1>1, <1>9, <2>2, StarterKeepsSerial DEF UnlinkStaleLock
  <1>10. CASE ReleaseClaim(p) \/ RemoveClaim(p)
    BY <1>1, <1>10, CallKeepsSerial DEF ReleaseClaim, RemoveClaim, SerialInv
  <1>11. CASE StartStep(p) \/ StartupFails(p) \/ Stop(p) \/ StopSocket(p) \/ ReleaseLock(p)
    <2>1. Holds(p) /\ lock = Written(p)
      BY <1>11 DEF StartStep, ProbeSocket, UnlinkSocket, Listen, StartupFails, Stop, StopSocket,
         ReleaseLock, SerialInv, LockNamesHolder, Holds
    <2> QED BY <1>1, <1>11, <2>1, CallKeepsSerial
            DEF StartStep, ProbeSocket, UnlinkSocket, Listen, StartupFails, Stop, StopSocket,
            ReleaseLock
  <1>12. CASE RemoveLock(p)
    <2>1. lock = Written(p) /\ lock' = NoFile /\ pc' = [pc EXCEPT ![p] = "gone"] /\ seen' = seen
      BY <1>12 DEF RemoveLock, SerialInv, LockNamesHolder, Holds, Go
    <2>2. \A q \in Procs : pc'[q] = IF q = p THEN "gone" ELSE pc[q]
      BY <2>1 DEF SerialInv, TypeOK
    <2>3. \A q \in Procs : ~Holds(q)'
      BY <2>1, <2>2, FileIdentity DEF Holds, SerialInv, LockNamesHolder
    <2>4. \A q \in Procs : pc[q] # "write"
      BY <2>1, FileIdentity DEF SerialInv
    <2>5. \A q \in Procs : pc[q] \notin Condemning
      <3>1. SUFFICES ASSUME NEW q \in Procs, pc[q] \in Condemning PROVE FALSE
        OBVIOUS
      <3>2. lock = Written(seen[q]) /\ seen[q] \in Procs /\ pc[seen[q]] = "gone"
        BY <3>1 DEF SerialInv
      <3>3. Written(seen[q]).by = seen[q] /\ Written(p).by = p
        BY DEF Written
      <3> QED BY <1>12, <2>1, <3>2, <3>3 DEF RemoveLock
    <2>6. \A q \in Procs : pc'[q] \in Cleaning \cup {"probe"} =>
             seen[q] \in Procs /\ pc'[seen[q]] = "gone"
      BY <2>2 DEF SerialInv
    <2>7. \A q, r \in Procs : pc'[q] \in Startup /\ pc'[r] \in Startup => q = r
      BY <2>2 DEF SerialInv
    <2> QED BY <1>1, <2>1, <2>2, <2>3, <2>4, <2>5, <2>6, <2>7 DEF SerialInv, LockNamesHolder
  <1>13. CASE Crash(p)
    BY <1>1, <1>13, CallKeepsSerial DEF Crash, Alive
  <1> QED BY <1>2, <1>3, <1>4, <1>5, <1>6, <1>7, <1>8, <1>9, <1>10, <1>11, <1>12, <1>13
          DEF OwnStep, AcquireStep, CleanStep, StopStep

\* A reboot leaves nobody to hold the lock, to write it or to clean it up.
LEMMA RebootKeepsSerial ==
  ASSUME SerialInv, TypeOK', Reboot
  PROVE  SerialInv'
  <1>1. \A p \in Procs : pc'[p] \in {"absent", "gone"} /\ (pc[p] # "absent" => pc'[p] = "gone")
    BY DEF Reboot, Alive
  <1>2. \A p \in Procs : /\ pc'[p] \notin Startup /\ pc'[p] \notin Condemning /\ pc'[p] # "write"
                          /\ pc'[p] \notin Cleaning \cup {"probe"} /\ ~Holds(p)'
    BY <1>1 DEF Startup, Condemning, Acquiring, Cleaning, Starting, Holds
  <1>3. lock' # NoFile => pc'[lock'.by] # "absent"
    <2>1. lock # NoFile => lock.by \in Procs
      BY DEF SerialInv, TypeOK, Files
    <2> QED BY <1>1, <2>1 DEF SerialInv, Reboot, files
  <1> QED BY <1>2, <1>3 DEF SerialInv, LockNamesHolder

\* The strengthening is an invariant of every behaviour with one startup at a time.
LEMMA SerialInvariant ==
  ASSUME ~Overlap
  PROVE  Spec => []SerialInv
  <1>1. Init => SerialInv
    BY LockAssumption DEF Init, SerialInv, TypeOK, Files, Labels, LockNamesHolder, Holds, Startup,
       Condemning, Acquiring, Cleaning, Starting, Stopping
  <1>2. SerialInv /\ UNCHANGED vars => SerialInv'
    BY DEF vars, SerialInv, TypeOK, LockNamesHolder, Holds, Created, Written
  <1>3. SerialInv /\ [Next]_vars => SerialInv'
    <2>1. SerialInv /\ Reboot => SerialInv'
      BY RebootKeepsSerial, RebootKeepsTypes DEF SerialInv
    <2> QED BY <1>2, <2>1, StepKeepsSerial DEF Next
  <1> QED BY <1>1, <1>3, PTL DEF Spec

\* A supervisor that starts one daemon at a time: whoever is killed at whatever call, in its
\* cleanup too, the file names the process that holds the lock.
THEOREM SerialLockIsNamed ==
  ASSUME ~Overlap
  PROVE  Spec => []LockNamesHolder
  <1>1. SerialInv => LockNamesHolder
    BY DEF SerialInv
  <1> QED BY <1>1, SerialInvariant, PTL

\* Likewise, at most one process holds the lock: acquireServerLock is exclusive across kills as
\* long as no second starter meets a cleanup under way.
THEOREM SerialLockIsExclusive ==
  ASSUME ~Overlap
  PROVE  Spec => []OneServer
  <1>1. LockNamesHolder => OneServer
    BY FileIdentity DEF LockNamesHolder, OneServer
  <1> QED BY <1>1, SerialLockIsNamed, PTL
=============================================================================
