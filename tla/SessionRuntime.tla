--------------------------- MODULE SessionRuntime ---------------------------
(***************************************************************************)
(* The life of a nas session on the host: the claim of its id              *)
(* (sessions/ownership.ts), the start and the end of its broker            *)
(* (stages/proxy/session_broker_service.ts), the files that stand for it   *)
(* under the runtime directory, and the sweep other processes make over    *)
(* those files (lib/runtime_registry.ts, gcRuntime).                       *)
(*                                                                         *)
(* A step is one access to the file system.  Several processes may be      *)
(* given the same session id, at once or one after the other, and any of   *)
(* them may be killed between two steps.                                   *)
(***************************************************************************)
EXTENDS Integers, FiniteSets

CONSTANTS
    Ids,         \* session ids
    Procs,       \* nas processes
    IdOf,        \* the session id each process is given
    MaxCrashes,  \* bound: how many processes are killed
    MaxFailures, \* bound: how many steps of a start fail
    MayRevoke,   \* whether the host credential may become unusable
    None         \* no file, no process

Entry == [proc : Procs, starting : BOOLEAN]     \* a registry entry

ASSUME SessionRuntimeAssumption ==
    /\ IsFiniteSet(Procs)
    /\ IsFiniteSet(Ids)
    /\ IdOf \in [Procs -> Ids]
    /\ MaxCrashes \in Nat
    /\ MaxFailures \in Nat
    /\ MayRevoke \in BOOLEAN
    /\ None \notin Procs
    /\ None \notin Entry

Torn == "torn"      \* an owner file that was created and not filled

VARIABLES
    pc,        \* per process: where it stands
    failed,    \* per process: whether its start failed
    flock,     \* the process that holds the lock of the ownership directory
    owner,     \* per id: the process its owner file names, Torn or None
    reg,       \* per id: the registry entry [proc, starting], or None
    dir,       \* ids with a broker directory
    sock,      \* ids with a socket in it
    pend,      \* ids with a directory of pending entries
    writing,   \* processes with a write of a pending entry under way
    cont,      \* per process: its container
    revoked,   \* processes whose credential became unusable
    killer,    \* per process: killSessionContainer: "no", "loop" or "done"
    gc,        \* the sweep: [step, todo, seen, live, at, alive]
    settled,   \* history: processes registered before the sweep began
    failures,  \* bound counters
    crashes

files == <<reg, dir, sock, pend>>
container == <<cont, revoked, killer>>
sweep == <<gc, settled>>
bounds == <<failures, crashes>>
vars == <<pc, failed, flock, owner, files, writing, container, sweep, bounds>>

Claiming == {"lock", "read", "unlink", "create", "fill"}
Starting == {"reserve", "mkdir", "unsock", "listen", "register"}
Closing == {"closePend", "closeSock", "closeDir", "closeReg", "closePend2"}
Releasing == {"relock", "release"}
Resting == {"off", "ended", "dead"}

\* The processes that may touch what belongs to their session id.
Holding == Starting \cup {"up"} \cup Closing

Sweep == [step : {"idle", "read", "check", "probe", "rmReg", "rmPend", "rmDir", "list",
                  "relist", "pending", "rmPending", "dirs", "rmDirs"},
          todo : SUBSET Ids, seen : [Ids -> Entry \cup {None}], live : SUBSET Ids,
          at : Ids \cup {None}, alive : BOOLEAN]
NoSweep == [step |-> "idle", todo |-> {}, seen |-> [i \in Ids |-> None], live |-> {},
            at |-> None, alive |-> FALSE]

TypeOK ==
    /\ pc \in [Procs -> Claiming \cup Holding \cup Releasing \cup Resting]
    /\ failed \in [Procs -> BOOLEAN]
    /\ flock \in Procs \cup {None}
    /\ owner \in [Ids -> Procs \cup {Torn, None}]
    /\ reg \in [Ids -> Entry \cup {None}]
    /\ dir \subseteq Ids
    /\ sock \subseteq dir
    /\ pend \subseteq Ids
    /\ writing \subseteq Procs
    /\ cont \in [Procs -> {"none", "creating", "running", "gone"}]
    /\ revoked \subseteq Procs
    /\ killer \in [Procs -> {"no", "loop", "done"}]
    /\ gc \in Sweep
    /\ settled \subseteq Procs
    /\ failures \in 0..MaxFailures
    /\ crashes \in 0..MaxCrashes

Init ==
    /\ pc = [p \in Procs |-> "off"]
    /\ failed = [p \in Procs |-> FALSE]
    /\ flock = None
    /\ owner = [i \in Ids |-> None]
    /\ reg = [i \in Ids |-> None]
    /\ dir = {}
    /\ sock = {}
    /\ pend = {}
    /\ writing = {}
    /\ cont = [p \in Procs |-> "none"]
    /\ revoked = {}
    /\ killer = [p \in Procs |-> "no"]
    /\ gc = NoSweep
    /\ settled = {}
    /\ failures = 0
    /\ crashes = 0

Alive(p) == pc[p] \notin Resting

Go(p, from, to) ==
    /\ pc[p] = from
    /\ pc' = [pc EXCEPT ![p] = to]

-----------------------------------------------------------------------------
(* The claim of a session id                                               *)

\* A nas is started with a session id.
StartNas(p) ==
    /\ Go(p, "off", "lock")
    /\ UNCHANGED <<failed, flock, owner, files, writing, container, sweep, bounds>>

\* Seeded fault: the lock of the directory is not exclusive.
TakeShared(p) ==
    /\ flock' = p

\* withOwnershipLock: flock -x on the ownership directory.
TakeLock(p) ==
    /\ flock = None
    /\ flock' = p

LockForClaim(p) ==
    /\ Go(p, "lock", "read")
    /\ TakeLock(p)
    /\ UNCHANGED <<failed, owner, files, writing, container, sweep, bounds>>

\* isOwnerAlive: the pid and its start time are those of a process; a file
\* that does not name one counts as no owner.
OwnerAlive(i) == owner[i] \in Procs /\ Alive(owner[i])

\* claimSessionId: refused while another process owns the id.
ReadOwner(p) ==
    /\ \/ /\ ~OwnerAlive(IdOf[p])
          /\ Go(p, "read", "unlink")
          /\ UNCHANGED flock
       \/ /\ OwnerAlive(IdOf[p])
          /\ Go(p, "read", "ended")
          /\ flock' = None
    /\ UNCHANGED <<failed, owner, files, writing, container, sweep, bounds>>

UnlinkOwner(p) ==
    /\ Go(p, "unlink", "create")
    /\ owner' = [owner EXCEPT ![IdOf[p]] = None]
    /\ UNCHANGED <<failed, flock, files, writing, container, sweep, bounds>>

\* writeFileSync with the flag wx; under the lock nobody else makes the file.
CreateOwner(p) ==
    /\ Go(p, "create", "fill")
    /\ owner[IdOf[p]] = None
    /\ owner' = [owner EXCEPT ![IdOf[p]] = Torn]
    /\ UNCHANGED <<failed, flock, files, writing, container, sweep, bounds>>

FillOwner(p) ==
    /\ Go(p, "fill", "reserve")
    /\ owner' = [owner EXCEPT ![IdOf[p]] = p]
    /\ flock' = None
    /\ UNCHANGED <<failed, files, writing, container, sweep, bounds>>

\* SessionOwnership.release in the exit handler of the process.
LockForRelease(p) ==
    /\ Go(p, "relock", "release")
    /\ TakeLock(p)
    /\ UNCHANGED <<failed, owner, files, writing, container, sweep, bounds>>

\* What a process had in memory goes with it; its container is of no further
\* interest here.
Forget(p) ==
    /\ writing' = writing \ {p}
    /\ failed' = [failed EXCEPT ![p] = FALSE]
    /\ cont' = [cont EXCEPT ![p] = "none"]
    /\ revoked' = revoked \ {p}
    /\ killer' = [killer EXCEPT ![p] = "no"]

\* releaseIfOwned; then the process is gone, with a write it had under way.
ReleaseOwner(p) ==
    /\ Go(p, "release", "ended")
    /\ owner' = IF owner[IdOf[p]] = p THEN [owner EXCEPT ![IdOf[p]] = None] ELSE owner
    /\ flock' = None
    /\ Forget(p)
    /\ UNCHANGED <<files, sweep, bounds>>

-----------------------------------------------------------------------------
(* The start of the broker                                                 *)

\* A step of the start fails: the entry is taken back.  After a failed write
\* of the final entry the broker is closed first.
StartFails(p) ==
    /\ failures < MaxFailures
    /\ failures' = failures + 1
    /\ failed' = [failed EXCEPT ![p] = TRUE]
    /\ \/ \E from \in {"reserve", "mkdir", "unsock", "listen"} : Go(p, from, "closeReg")
       \/ Go(p, "register", "closePend")
    /\ UNCHANGED <<flock, owner, files, writing, container, sweep, crashes>>

\* writeSessionRegistry with starting: before there is a directory to sweep.
Reserve(p) ==
    /\ Go(p, "reserve", "mkdir")
    /\ reg' = [reg EXCEPT ![IdOf[p]] = [proc |-> p, starting |-> TRUE]]
    /\ UNCHANGED <<failed, flock, owner, dir, sock, pend, writing, container, sweep, bounds>>

\* broker.start: the directory, the removal of an old socket, the socket.
MakeDir(p) ==
    /\ Go(p, "mkdir", "unsock")
    /\ dir' = dir \cup {IdOf[p]}
    /\ UNCHANGED <<failed, flock, owner, reg, sock, pend, writing, container, sweep, bounds>>

RemoveOldSocket(p) ==
    /\ Go(p, "unsock", "listen")
    /\ sock' = sock \ {IdOf[p]}
    /\ UNCHANGED <<failed, flock, owner, reg, dir, pend, writing, container, sweep, bounds>>

\* Seeded fault: the socket does not need its directory.
ListenAnyway(p) ==
    /\ Go(p, "listen", "register")
    /\ sock' = sock \cup {IdOf[p]}
    /\ UNCHANGED <<failed, flock, owner, reg, dir, pend, writing, container, sweep, bounds>>

\* createUnixServer fails when the directory is gone.
ListenSocket(p) ==
    /\ \/ /\ IdOf[p] \in dir
          /\ Go(p, "listen", "register")
          /\ sock' = sock \cup {IdOf[p]}
          /\ UNCHANGED failed
       \/ /\ IdOf[p] \notin dir
          /\ Go(p, "listen", "closeReg")
          /\ failed' = [failed EXCEPT ![p] = TRUE]
          /\ UNCHANGED sock
    /\ UNCHANGED <<flock, owner, reg, dir, pend, writing, container, sweep, bounds>>

Register(p) ==
    /\ Go(p, "register", "up")
    /\ reg' = [reg EXCEPT ![IdOf[p]] = [proc |-> p, starting |-> FALSE]]
    /\ UNCHANGED <<failed, flock, owner, dir, sock, pend, writing, container, sweep, bounds>>

-----------------------------------------------------------------------------
(* A session that is up                                                    *)

\* writePendingEntry: the directory, then atomicWriteJson, which makes it
\* again and which the end of the session does not wait for.
WritePendingDir(p) ==
    /\ pc[p] = "up"
    /\ p \notin writing
    /\ writing' = writing \cup {p}
    /\ pend' = pend \cup {IdOf[p]}
    /\ UNCHANGED <<pc, failed, flock, owner, reg, dir, sock, container, sweep, bounds>>

WritePendingEntry(p) ==
    /\ p \in writing
    /\ writing' = writing \ {p}
    /\ pend' = pend \cup {IdOf[p]}
    /\ UNCHANGED <<pc, failed, flock, owner, reg, dir, sock, container, sweep, bounds>>

\* docker run of the launch stage; an interrupted pipeline does not get there.
Launch(p) ==
    /\ pc[p] = "up"
    /\ cont[p] = "none"
    /\ p \notin revoked
    /\ cont' = [cont EXCEPT ![p] = "creating"]
    /\ UNCHANGED <<pc, failed, flock, owner, files, writing, revoked, killer, sweep, bounds>>

\* The container runs, or docker run or the agent comes to its end.
ContainerStep(p) ==
    /\ \/ cont[p] = "creating" /\ cont' = [cont EXCEPT ![p] = "running"]
       \/ cont[p] \in {"creating", "running"} /\ cont' = [cont EXCEPT ![p] = "gone"]
    /\ UNCHANGED <<pc, failed, flock, owner, files, writing, revoked, killer, sweep, bounds>>

\* Opened before the first entry; closed behind the directory, and behind
\* the entry when the start failed.
CredentialsOpen(p) ==
    \/ pc[p] \in Starting \cup {"up", "closePend", "closeSock", "closeDir"}
    \/ pc[p] = "closeReg" /\ failed[p]

\* onRevoked: the pipeline is interrupted and the loop that kills the
\* container starts.
Revoke(p) ==
    /\ MayRevoke
    /\ CredentialsOpen(p)
    /\ p \notin revoked
    /\ revoked' = revoked \cup {p}
    /\ killer' = [killer EXCEPT ![p] = "loop"]
    /\ UNCHANGED <<pc, failed, flock, owner, files, writing, cont, sweep, bounds>>

\* Seeded fault: a kill that fails is not tried again.
KillOnce(p) ==
    /\ killer[p] = "loop"
    /\ killer' = [killer EXCEPT ![p] = "done"]
    /\ cont' = IF cont[p] = "running" THEN [cont EXCEPT ![p] = "gone"] ELSE cont
    /\ UNCHANGED <<pc, failed, flock, owner, files, writing, revoked, sweep, bounds>>

\* killSessionContainer: docker kill, again and again until it succeeds; a
\* container that is not there yet is an error.
Kill(p) ==
    /\ killer[p] = "loop"
    /\ cont[p] = "running"
    /\ killer' = [killer EXCEPT ![p] = "done"]
    /\ cont' = [cont EXCEPT ![p] = "gone"]
    /\ UNCHANGED <<pc, failed, flock, owner, files, writing, revoked, sweep, bounds>>

\* The pipeline ends: docker run is over, or was never started.
Close(p) ==
    /\ Go(p, "up", "closePend")
    /\ cont[p] \in {"none", "gone"}
    /\ UNCHANGED <<failed, flock, owner, files, writing, container, sweep, bounds>>

\* broker.close
ClosePending(p) ==
    /\ Go(p, "closePend", "closeSock")
    /\ pend' = pend \ {IdOf[p]}
    /\ UNCHANGED <<failed, flock, owner, reg, dir, sock, writing, container, sweep, bounds>>

CloseSocket(p) ==
    /\ Go(p, "closeSock", "closeDir")
    /\ sock' = sock \ {IdOf[p]}
    /\ UNCHANGED <<failed, flock, owner, reg, dir, pend, writing, container, sweep, bounds>>

\* rmdir, of an empty directory; closeCredentials follows, which ends the loop, unless the entry of
\* a failed start has to go first.
CloseDir(p) ==
    /\ Go(p, "closeDir", "closeReg")
    /\ dir' = dir \ ({IdOf[p]} \ sock)
    /\ killer' = IF failed[p] THEN killer ELSE [killer EXCEPT ![p] = "done"]
    /\ UNCHANGED <<failed, flock, owner, reg, sock, pend, writing, cont, revoked, sweep, bounds>>

\* removeSessionRegistry, or removeReservedRegistry and closeCredentials.
CloseRegistry(p) ==
    /\ Go(p, "closeReg", IF failed[p] THEN "relock" ELSE "closePend2")
    /\ reg' = [reg EXCEPT ![IdOf[p]] = None]
    /\ killer' = [killer EXCEPT ![p] = "done"]
    /\ UNCHANGED <<failed, flock, owner, dir, sock, pend, writing, cont, revoked, sweep, bounds>>

ClosePendingAgain(p) ==
    /\ Go(p, "closePend2", "relock")
    /\ pend' = pend \ {IdOf[p]}
    /\ UNCHANGED <<failed, flock, owner, reg, dir, sock, writing, container, sweep, bounds>>

\* SIGKILL: nothing is closed, a lock of the process goes with it.
Crash(p) ==
    /\ Alive(p)
    /\ crashes < MaxCrashes
    /\ crashes' = crashes + 1
    /\ pc' = [pc EXCEPT ![p] = "dead"]
    /\ flock' = IF flock = p THEN None ELSE flock
    /\ Forget(p)
    /\ UNCHANGED <<owner, files, sweep, failures>>

-----------------------------------------------------------------------------
(* The sweep                                                               *)

\* A process has its entry, and its socket once it listens.
InPlace(p) ==
    /\ pc[p] \in (Starting \ {"reserve"}) \cup {"up"}
    /\ reg[IdOf[p]] # None /\ reg[IdOf[p]].proc = p
    /\ pc[p] \in {"register", "up"} => IdOf[p] \in sock

\* The names of the entries are read, then each file.
BeginSweep ==
    /\ gc.step = "idle"
    /\ gc' = [NoSweep EXCEPT !.step = "read", !.todo = {i \in Ids : reg[i] # None}]
    /\ settled' = {p \in Procs : InPlace(p)}
    /\ UNCHANGED <<pc, failed, flock, owner, files, writing, container, bounds>>

SweepOnly == UNCHANGED <<pc, failed, flock, owner, writing, container, settled, bounds>>

ReadEntry ==
    /\ gc.step = "read"
    /\ \/ \E i \in gc.todo : gc' = [gc EXCEPT !.todo = @ \ {i}, !.seen[i] = reg[i]]
       \/ gc.todo = {} /\ gc' = [gc EXCEPT !.step = "check"]
    /\ UNCHANGED files
    /\ SweepOnly

\* isPidAlive of the next entry, or the second listing after the last one.
CheckPid ==
    /\ gc.step = "check"
    /\ \/ \E i \in Ids :
            /\ gc.seen[i] # None
            /\ gc' = [gc EXCEPT !.step = "probe", !.at = i,
                                !.alive = Alive(gc.seen[i].proc)]
       \/ /\ \A i \in Ids : gc.seen[i] = None
          /\ gc' = [NoSweep EXCEPT !.step = "list"]
    /\ UNCHANGED files
    /\ SweepOnly

\* Seeded fault: an entry needs its socket even while it is starting.
KeepsWithSocket == gc.alive /\ gc.at \in sock

\* An entry stays if its process lives and has its socket or is starting.
KeepsEntry == gc.alive /\ (gc.at \in sock \/ gc.seen[gc.at].starting)

ProbeSocket ==
    /\ gc.step = "probe"
    /\ gc' = IF KeepsEntry
             THEN [gc EXCEPT !.step = "check", !.seen[gc.at] = None, !.at = None,
                             !.alive = FALSE]
             ELSE [gc EXCEPT !.step = "rmReg", !.alive = FALSE]
    /\ UNCHANGED files
    /\ SweepOnly

RemoveRegistry ==
    /\ gc.step = "rmReg"
    /\ reg' = [reg EXCEPT ![gc.at] = None]
    /\ gc' = [gc EXCEPT !.step = "rmPend"]
    /\ UNCHANGED <<dir, sock, pend>>
    /\ SweepOnly

RemovePending ==
    /\ gc.step = "rmPend"
    /\ pend' = pend \ {gc.at}
    /\ gc' = [gc EXCEPT !.step = "rmDir"]
    /\ UNCHANGED <<reg, dir, sock>>
    /\ SweepOnly

RemoveBrokerDir ==
    /\ gc.step = "rmDir"
    /\ dir' = dir \ {gc.at}
    /\ sock' = sock \ {gc.at}
    /\ gc' = [gc EXCEPT !.step = "check", !.seen[gc.at] = None, !.at = None]
    /\ UNCHANGED <<reg, pend>>
    /\ SweepOnly

\* liveSessionIds: the entries are listed and read again.
ListAgain ==
    /\ gc.step = "list"
    /\ gc' = [gc EXCEPT !.step = "relist", !.todo = {i \in Ids : reg[i] # None}]
    /\ UNCHANGED files
    /\ SweepOnly

ReadAgain ==
    /\ gc.step = "relist"
    /\ \/ \E i \in gc.todo :
            gc' = [gc EXCEPT !.todo = @ \ {i},
                             !.live = IF reg[i] = None THEN @ ELSE @ \cup {i}]
       \/ gc.todo = {} /\ gc' = [gc EXCEPT !.step = "pending"]
    /\ UNCHANGED files
    /\ SweepOnly

\* Seeded fault: only what an entry names is swept.
SweepNoPending ==
    /\ gc.step = "pending"
    /\ gc' = [gc EXCEPT !.step = "dirs"]
    /\ UNCHANGED files
    /\ SweepOnly

\* Directories of pending entries without a live session are removed.
SweepPending ==
    /\ \/ /\ gc.step = "pending"
          /\ gc' = [gc EXCEPT !.step = "rmPending", !.todo = pend \ gc.live]
          /\ UNCHANGED pend
       \/ /\ gc.step = "rmPending"
          /\ \E i \in gc.todo :
                /\ pend' = pend \ {i}
                /\ gc' = [gc EXCEPT !.todo = @ \ {i}]
       \/ /\ gc.step = "rmPending"
          /\ gc.todo = {}
          /\ gc' = [gc EXCEPT !.step = "dirs"]
          /\ UNCHANGED pend
    /\ UNCHANGED <<reg, dir, sock>>
    /\ SweepOnly

\* Then the broker directories.
SweepDirs ==
    /\ \/ /\ gc.step = "dirs"
          /\ gc' = [gc EXCEPT !.step = "rmDirs", !.todo = dir \ gc.live]
          /\ UNCHANGED <<dir, sock>>
       \/ /\ gc.step = "rmDirs"
          /\ \E i \in gc.todo :
                /\ dir' = dir \ {i}
                /\ sock' = sock \ {i}
                /\ gc' = [gc EXCEPT !.todo = @ \ {i}]
       \/ /\ gc.step = "rmDirs"
          /\ gc.todo = {}
          /\ gc' = NoSweep
          /\ UNCHANGED <<dir, sock>>
    /\ UNCHANGED <<reg, pend>>
    /\ SweepOnly

SweepStep ==
    \/ BeginSweep \/ ReadEntry \/ CheckPid \/ ProbeSocket
    \/ RemoveRegistry \/ RemovePending \/ RemoveBrokerDir
    \/ ListAgain \/ ReadAgain \/ SweepPending \/ SweepDirs

ProcStep(p) ==
    \/ LockForClaim(p) \/ ReadOwner(p) \/ UnlinkOwner(p) \/ CreateOwner(p) \/ FillOwner(p)
    \/ Reserve(p) \/ MakeDir(p) \/ RemoveOldSocket(p) \/ ListenSocket(p) \/ Register(p)
    \/ ClosePending(p) \/ CloseSocket(p) \/ CloseDir(p) \/ CloseRegistry(p)
    \/ ClosePendingAgain(p) \/ LockForRelease(p) \/ ReleaseOwner(p)

Next ==
    \/ SweepStep
    \/ \E p \in Procs :
        \/ ProcStep(p)
        \/ StartNas(p) \/ StartFails(p) \/ Close(p) \/ Crash(p)
        \/ WritePendingDir(p) \/ WritePendingEntry(p)
        \/ Launch(p) \/ ContainerStep(p) \/ Revoke(p) \/ Kill(p)

Spec == Init /\ [][Next]_vars

\* The UI and the commands sweep again and again, and a process that lives
\* runs on; nothing is assumed of the agent, of a crash or of a start.
FairSpec ==
    /\ Spec
    /\ WF_vars(SweepStep)
    /\ \A p \in Procs : WF_vars(ProcStep(p)) /\ WF_vars(Kill(p))

-----------------------------------------------------------------------------
(* Properties                                                              *)

\* No two live processes own the same session id, whatever is killed while
\* the owner file is half written or about to be replaced (claimSessionId,
\* withOwnershipLock, releaseIfOwned).
OneOwner ==
    \A p, q \in Procs :
        IdOf[p] = IdOf[q] /\ pc[p] \in Holding /\ pc[q] \in Holding => p = q

\* A sweep leaves alone a session that had its entry when the sweep began,
\* even one that was still starting: while that session is up, its entry
\* names it and its socket is there (gcRuntime, the order of
\* startSessionBroker).
SettledIsSpared ==
    \A p \in Procs :
        p \in settled /\ pc[p] = "up" /\ gc.step # "idle" => InPlace(p)

\* A session that is up has its entry and its socket: a sweep that runs
\* while it starts does not take its directory for an orphan (the comment
\* in startSessionBroker).
UpIsReachable ==
    \A p \in Procs :
        pc[p] = "up" => reg[IdOf[p]] # None /\ IdOf[p] \in sock

\* What a killed or failed session leaves behind goes away once no process
\* uses its id any more (gcRuntime).
LeftoversGo ==
    \A i \in Ids :
        <>[](\A p \in Procs : IdOf[p] = i => pc[p] \in Resting) =>
        <>[](reg[i] = None /\ i \notin dir /\ i \notin pend)

\* A container that runs although its credential was revoked is killed, also
\* when it comes up after the revocation (killSessionContainer).
RevokedContainerDies ==
    \A p \in Procs :
        (p \in revoked /\ cont[p] = "running") ~> (cont[p] # "running")
=============================================================================
