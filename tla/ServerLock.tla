------------------------------ MODULE ServerLock ------------------------------
(***************************************************************************)
(* The lock file of the daemon: acquireServerLock with its cleanup of a    *)
(* dead owner's lock, prepareSocketForStartup, the listener, and the       *)
(* release on stop or on a failed startup.  A step is one call to the file *)
(* system: other processes move between any two of them, and a process may *)
(* be killed there.                                                        *)
(*                                                                         *)
(* The machine may reboot: every process ends, the files stay, and the     *)
(* pids of ended processes are handed out again.  Until then a process     *)
(* starts once and its pid is not used again.                              *)
(***************************************************************************)
EXTENDS Integers, FiniteSets

CONSTANTS
  Procs,       \* hrc server processes
  NoFile,      \* a path with no file
  Overlap,     \* may two processes be in their startup at the same time?
  MaxCrashes,  \* bound on the processes that are killed
  MaxReboots,  \* bound on the reboots of the machine
  MaxFailures  \* bound on the startups that throw while they hold the lock

ASSUME LockAssumption ==
  /\ NoFile \notin Procs \cup [by : Procs, written : BOOLEAN]
  /\ Overlap \in BOOLEAN /\ MaxCrashes \in Nat /\ MaxReboots \in Nat /\ MaxFailures \in Nat

VARIABLES
  lock,      \* server.lock: NoFile, or who created the file and whether it is written yet
  claim,     \* server.lock.cleanup, likewise
  socket,    \* who bound the socket path, or NoFile
  pc,        \* the call each process is about to make
  seen,      \* owner of the lock a process found (existingLock.owner)
  taken,     \* ended processes whose pid belongs to some other process since the last boot
  recent,    \* those of them whose lock was written within BOOT_MARGIN_MS before that boot
  killed,    \* processes that were killed, by a signal or a reboot
  reboots,   \* bound: reboots so far
  failures   \* bound: failed startups so far

files == <<lock, claim, socket>>
pids == <<taken, recent>>
bounds == <<pids, killed, reboots, failures>>
vars == <<lock, claim, socket, pc, seen, taken, recent, killed, reboots, failures>>

Files == {NoFile} \cup [by : Procs, written : BOOLEAN]

Acquiring == {"open", "write", "read", "probe"}
Cleaning == {"claim_open", "claim_write", "claim_read", "claim_unlink", "reread", "reprobe",
             "unlink_socket", "unlink_lock", "claim_release", "claim_remove",
             "refuse_release", "refuse_remove"}
Starting == {"socket_probe", "socket_unlink", "listen"}
Stopping == {"stop_socket", "release", "remove"}
Labels == {"absent", "gone", "serving"} \cup Acquiring \cup Cleaning \cup Starting \cup Stopping

TypeOK ==
  /\ lock \in Files /\ claim \in Files
  /\ socket \in Procs \cup {NoFile}
  /\ pc \in [Procs -> Labels]
  /\ seen \in [Procs -> Procs \cup {NoFile}]
  /\ recent \subseteq taken /\ taken \subseteq Procs
  /\ killed \subseteq Procs /\ reboots \in 0..MaxReboots /\ failures \in 0..MaxFailures

Init ==
  /\ lock = NoFile /\ claim = NoFile /\ socket = NoFile
  /\ pc = [p \in Procs |-> "absent"]
  /\ seen = [p \in Procs |-> NoFile]
  /\ taken = {} /\ recent = {}
  /\ killed = {} /\ reboots = 0 /\ failures = 0

Alive(p) == pc[p] \notin {"absent", "gone"}

\* isUnixSocketResponsive: somebody accepts connections on the bound path.
Responsive == socket # NoFile /\ pc[socket] = "serving"

Created(p) == [by |-> p, written |-> FALSE]
Written(p) == [by |-> p, written |-> TRUE]

\* open(path, 'wx').
OpenExclusive(file, p) == IF file = NoFile THEN Created(p) ELSE file

\* writeFile on the handle: it is lost when the path names another file by now.
WriteHandle(file, p) == IF file = Created(p) THEN Written(p) ELSE file

\* isLiveProcess: kill(pid, 0) finds the process, or whoever has its pid now.
LiveProcess(p) == Alive(p) \/ p \in taken

\* isLockOwnerAlive: a lock older than the boot belongs to nobody, whoever has the pid.
LockOwnerAlive(p) == Alive(p) \/ p \in recent

Go(p, label) == pc' = [pc EXCEPT ![p] = label]

----------------------------------------------------------------------------
(* acquireServerLock                                                       *)

Launch(p) ==
  /\ pc[p] = "absent"
  /\ Overlap \/ \A q \in Procs \ {p} : pc[q] \notin Acquiring \cup Cleaning \cup Starting
  /\ Go(p, "open")
  /\ UNCHANGED <<files, seen, bounds>>

\* Mutant of OpenLock: opens with 'w', which truncates an existing file.
OpenLockTruncates(p) ==
  /\ pc[p] = "open"
  /\ lock' = Created(p)
  /\ Go(p, "write")
  /\ UNCHANGED <<claim, socket, seen, bounds>>

OpenLock(p) ==
  /\ pc[p] = "open"
  /\ lock' = OpenExclusive(lock, p)
  /\ Go(p, IF lock = NoFile THEN "write" ELSE "read")
  /\ UNCHANGED <<claim, socket, seen, bounds>>

WriteLock(p) ==
  /\ pc[p] = "write"
  /\ lock' = WriteHandle(lock, p)
  /\ Go(p, "socket_probe")
  /\ UNCHANGED <<claim, socket, seen, bounds>>

\* Mutant of ReadLock: relies on the socket alone, which a starting server has not bound.
ReadLockTrustsSocket(p) ==
  /\ pc[p] = "read"
  /\ \/ lock = NoFile /\ Go(p, "open") /\ UNCHANGED seen
     \/ lock # NoFile /\ Go(p, "probe") /\ seen' = [seen EXCEPT ![p] = lock.by]
  /\ UNCHANGED <<files, bounds>>

\* Mutant of ReadLock: keeps the parsed file instead of its owner.
ReadLockKeepsFile(p) ==
  /\ pc[p] = "read"
  /\ IF lock = NoFile THEN Go(p, "open") /\ UNCHANGED seen
     ELSE IF ~lock.written \/ LockOwnerAlive(lock.by) THEN Go(p, "gone") /\ UNCHANGED seen
     ELSE Go(p, "probe") /\ seen' = [seen EXCEPT ![p] = lock]
  /\ UNCHANGED <<files, bounds>>

\* No file: try again.  Malformed, or a live owner: throw.  A dead owner: look further.
ReadLock(p) ==
  /\ pc[p] = "read"
  /\ IF lock = NoFile THEN Go(p, "open") /\ UNCHANGED seen
     ELSE IF ~lock.written \/ LockOwnerAlive(lock.by) THEN Go(p, "gone") /\ UNCHANGED seen
     ELSE Go(p, "probe") /\ seen' = [seen EXCEPT ![p] = lock.by]
  /\ UNCHANGED <<files, bounds>>

ProbeOwner(p) ==
  /\ pc[p] = "probe"
  /\ Go(p, IF Responsive THEN "gone" ELSE "claim_open")
  /\ UNCHANGED <<files, seen, bounds>>

----------------------------------------------------------------------------
(* clearStaleServerState, under the cleanup claim                          *)

OpenClaim(p) ==
  /\ pc[p] = "claim_open"
  /\ claim' = OpenExclusive(claim, p)
  /\ Go(p, IF claim = NoFile THEN "claim_write" ELSE "claim_read")
  /\ UNCHANGED <<lock, socket, seen, bounds>>

WriteClaim(p) ==
  /\ pc[p] = "claim_write"
  /\ claim' = WriteHandle(claim, p)
  /\ Go(p, "reread")
  /\ UNCHANGED <<lock, socket, seen, bounds>>

\* Mutant of ReadClaim: waits for every claim, its owner dead or not.
ReadClaimWaits(p) ==
  /\ pc[p] = "claim_read"
  /\ Go(p, IF claim # NoFile THEN "claim_open" ELSE "claim_unlink")
  /\ UNCHANGED <<files, seen, bounds>>

\* A claim with a live pid: wait and try again.  Dead, empty or absent: remove it.  When the
\* claim was written is not asked for.
ReadClaim(p) ==
  /\ pc[p] = "claim_read"
  /\ Go(p, IF claim # NoFile /\ claim.written /\ LiveProcess(claim.by)
           THEN "claim_open" ELSE "claim_unlink")
  /\ UNCHANGED <<files, seen, bounds>>

UnlinkClaim(p) ==
  /\ pc[p] = "claim_unlink"
  /\ claim' = NoFile
  /\ Go(p, "claim_open")
  /\ UNCHANGED <<lock, socket, seen, bounds>>

\* The same lock as before?  Its owner stays dead, so the repeated check cannot refuse.
RereadLock(p) ==
  /\ pc[p] = "reread"
  /\ Go(p, IF lock = Written(seen[p]) THEN "reprobe" ELSE "claim_release")
  /\ UNCHANGED <<files, seen, bounds>>

ReprobeOwner(p) ==
  /\ pc[p] = "reprobe"
  /\ Go(p, IF Responsive THEN "refuse_release" ELSE "unlink_socket")
  /\ UNCHANGED <<files, seen, bounds>>

UnlinkStaleSocket(p) ==
  /\ pc[p] = "unlink_socket"
  /\ socket' = NoFile
  /\ Go(p, "unlink_lock")
  /\ UNCHANGED <<lock, claim, seen, bounds>>

UnlinkStaleLock(p) ==
  /\ pc[p] = "unlink_lock"
  /\ lock' = NoFile
  /\ Go(p, "claim_release")
  /\ UNCHANGED <<claim, socket, seen, bounds>>

\* releaseServerLock of the claim: read, compare, unlink; then on to acquire or to throw.
ReleaseClaim(p) ==
  /\ pc[p] \in {"claim_release", "refuse_release"}
  /\ Go(p, CASE pc[p] = "claim_release" -> (IF claim = Written(p) THEN "claim_remove" ELSE "open")
             [] pc[p] = "refuse_release" -> (IF claim = Written(p) THEN "refuse_remove" ELSE "gone"))
  /\ UNCHANGED <<files, seen, bounds>>

RemoveClaim(p) ==
  /\ pc[p] \in {"claim_remove", "refuse_remove"}
  /\ claim' = NoFile
  /\ Go(p, IF pc[p] = "claim_remove" THEN "open" ELSE "gone")
  /\ UNCHANGED <<lock, socket, seen, bounds>>

----------------------------------------------------------------------------
(* createHrcServer under the lock, and the end of the process              *)

ProbeSocket(p) ==
  /\ pc[p] = "socket_probe"
  /\ Go(p, IF Responsive THEN "release" ELSE "socket_unlink")
  /\ UNCHANGED <<files, seen, bounds>>

UnlinkSocket(p) ==
  /\ pc[p] = "socket_unlink"
  /\ socket' = NoFile
  /\ Go(p, "listen")
  /\ UNCHANGED <<lock, claim, seen, bounds>>

\* bind refuses a path that exists.
Listen(p) ==
  /\ pc[p] = "listen"
  /\ IF socket = NoFile THEN socket' = p /\ Go(p, "serving")
                        ELSE UNCHANGED socket /\ Go(p, "stop_socket")
  /\ UNCHANGED <<lock, claim, seen, bounds>>

\* A startup under the lock throws: cleanupFailedStartup.
StartupFails(p) ==
  /\ pc[p] \in {"socket_probe", "listen"} /\ failures < MaxFailures
  /\ failures' = failures + 1
  /\ Go(p, IF pc[p] = "listen" THEN "stop_socket" ELSE "release")
  /\ UNCHANGED <<files, seen, pids, killed, reboots>>

\* stop(): the listener is down before the path is unlinked.
Stop(p) ==
  /\ pc[p] = "serving"
  /\ Go(p, "stop_socket")
  /\ UNCHANGED <<files, seen, bounds>>

StopSocket(p) ==
  /\ pc[p] = "stop_socket"
  /\ socket' = NoFile
  /\ Go(p, "release")
  /\ UNCHANGED <<lock, claim, seen, bounds>>

ReleaseLock(p) ==
  /\ pc[p] = "release"
  /\ Go(p, IF lock = Written(p) THEN "remove" ELSE "gone")
  /\ UNCHANGED <<files, seen, bounds>>

RemoveLock(p) ==
  /\ pc[p] = "remove"
  /\ lock' = NoFile
  /\ Go(p, "gone")
  /\ UNCHANGED <<claim, socket, seen, bounds>>

Crash(p) ==
  /\ Alive(p) /\ Cardinality(killed) < MaxCrashes
  /\ killed' = killed \cup {p}
  /\ Go(p, "gone")
  /\ UNCHANGED <<files, seen, pids, reboots, failures>>

\* The owners that a file names.
Named(file) == IF file = NoFile THEN {} ELSE {file.by}

\* Every process ends; pids that the files name come to belong to others, which may run on.
Reboot ==
  /\ reboots < MaxReboots
  /\ reboots' = reboots + 1
  /\ killed' = killed \cup {p \in Procs : Alive(p)}
  /\ pc' = [p \in Procs |-> IF Alive(p) THEN "gone" ELSE pc[p]]
  /\ \E reused \in SUBSET (Named(lock) \cup Named(claim)) :
       taken' = reused /\ recent' \in SUBSET (reused \cap Named(lock))
  /\ UNCHANGED <<files, seen, failures>>

AcquireStep(p) == OpenLock(p) \/ WriteLock(p) \/ ReadLock(p) \/ ProbeOwner(p)
CleanStep(p) == OpenClaim(p) \/ WriteClaim(p) \/ ReadClaim(p) \/ UnlinkClaim(p) \/ RereadLock(p)
                \/ ReprobeOwner(p) \/ UnlinkStaleSocket(p) \/ UnlinkStaleLock(p)
                \/ ReleaseClaim(p) \/ RemoveClaim(p)
StartStep(p) == ProbeSocket(p) \/ UnlinkSocket(p) \/ Listen(p)
StopStep(p) == StopSocket(p) \/ ReleaseLock(p) \/ RemoveLock(p)

OwnStep(p) == AcquireStep(p) \/ CleanStep(p) \/ StartStep(p) \/ StopStep(p)

Next ==
  \/ \E p \in Procs : Launch(p) \/ OwnStep(p) \/ StartupFails(p) \/ Stop(p) \/ Crash(p)
  \/ Reboot

Spec == Init /\ [][Next]_vars

\* A process that runs makes its next call.
FairSpec == Spec /\ \A p \in Procs : WF_vars(OwnStep(p))

----------------------------------------------------------------------------
(* Properties.                                                             *)

\* From the moment acquireServerLock returned until the store is closed and the lock given up.
Holds(p) == pc[p] \in Starting \cup {"serving", "stop_socket", "release", "remove"}

\* acquireServerLock gives the lock to one process at a time: never do two live ones both go
\* on to open the store and serve.
OneServer == \A p, q \in Procs : Holds(p) /\ Holds(q) => p = q

\* The file names the process that holds the lock, so that the next starter finds it and
\* refuses, before the socket is bound and while it is being torn down too.
LockNamesHolder == \A p \in Procs : Holds(p) => lock = Written(p)

\* The cleanup claim of a starter that died before the last boot, whose pid is in use again.
ClaimOfReusedPid == claim # NoFile /\ claim.written /\ claim.by \in taken

\* The lock of a killed server never blocks its successor, after a reboot either: a starter
\* that found it stale goes on to hold the lock itself, also after another starter was killed
\* in its cleanup, unless a reboot has given the pid in the claim to some other process.
StaleLockIsCleared ==
  \A p \in Procs : pc[p] = "claim_open" ~> Holds(p) \/ p \in killed \/ ClaimOfReusedPid

\* The same without the exception: what isLockOwnerAlive does for the lock, acquireCleanupClaim
\* does not do for the claim, which then blocks every start (MCServerLockReboot.cfg).
StaleClaimIsCleared ==
  \A p \in Procs : pc[p] = "claim_open" ~> Holds(p) \/ p \in killed
=============================================================================
