------------------------ MODULE SessionRuntimeProofs ------------------------
(***************************************************************************)
(* Theorems about SessionRuntime, for any number of processes and session  *)
(* ids and any number of crashes and failures.                             *)
(***************************************************************************)
EXTENDS SessionRuntime, TLAPS

-----------------------------------------------------------------------------
(* The invariants                                                          *)

UnderLock == {"read", "unlink", "create", "fill", "release"}

\* Whoever is inside a claim or a release has the lock of the directory.
LockFits == \A p \in Procs : pc[p] \in UnderLock => flock = p

\* The owner file names the process that has the id, until it gives it back.
OwnerFits ==
    \A p \in Procs : pc[p] \in Holding \cup Releasing => owner[IdOf[p]] = p

\* Whoever replaces an owner file does so in place of a process that is gone.
ClaimFits ==
    \A p, q \in Procs :
        pc[p] \in {"unlink", "create", "fill"} /\ IdOf[q] = IdOf[p]
            => pc[q] \notin Holding \cup Releasing

OwnerParts == LockFits /\ OwnerFits /\ ClaimFits

OwnerInv == TypeOK /\ OwnerParts

\* The part of a session's life in which a sweep must spare it.
Spared == (Starting \ {"reserve"}) \cup {"up"}

\* The entry of a session that is not up yet says so.
EntryFits ==
    \A p \in Procs :
        /\ pc[p] \in Spared \ {"up"}
        /\ reg[IdOf[p]] # None
        /\ reg[IdOf[p]].proc = p
        => reg[IdOf[p]].starting

\* What the sweep knows of a session that had its entry when it began: the
\* entry it read is the session's own, the process is taken for alive, and
\* its id is among the live ones by the time directories are removed.
SweepKnows(p) ==
    /\ InPlace(p)
    /\ gc.seen[IdOf[p]] # None =>
         /\ gc.seen[IdOf[p]].proc = p
         /\ gc.seen[IdOf[p]].starting \/ pc[p] = "up"
    /\ gc.step = "probe" /\ gc.at = IdOf[p] => gc.alive /\ gc.seen[IdOf[p]] # None
    /\ gc.step \in {"rmReg", "rmPend", "rmDir"} => gc.at # IdOf[p]
    /\ gc.step = "relist" => IdOf[p] \in gc.todo \cup gc.live
    /\ gc.step \in {"pending", "rmPending", "dirs", "rmDirs"} => IdOf[p] \in gc.live
    /\ gc.step = "rmDirs" => IdOf[p] \notin gc.todo

SweepFits ==
    gc.step # "idle" =>
        \A p \in settled :
            /\ pc[p] \notin Claiming \cup {"off", "reserve"}
            /\ pc[p] \in Spared => SweepKnows(p)

Inv == OwnerInv /\ EntryFits /\ SweepFits

-----------------------------------------------------------------------------
(* Types                                                                   *)

USE DEF vars, files, container, sweep, bounds, Go, TakeLock, Forget, SweepOnly

ClaimStep(p) ==
    \/ StartNas(p) \/ LockForClaim(p) \/ ReadOwner(p) \/ UnlinkOwner(p) \/ CreateOwner(p)
    \/ FillOwner(p) \/ LockForRelease(p) \/ ReleaseOwner(p)

StartStep(p) ==
    \/ StartFails(p) \/ Reserve(p) \/ MakeDir(p) \/ RemoveOldSocket(p) \/ ListenSocket(p) \/ Register(p)

LifeStep(p) ==
    \/ WritePendingDir(p) \/ WritePendingEntry(p) \/ Launch(p) \/ ContainerStep(p) \/ Revoke(p) \/ Kill(p)
    \/ Close(p) \/ ClosePending(p) \/ CloseSocket(p) \/ CloseDir(p) \/ CloseRegistry(p) \/ ClosePendingAgain(p) \/ Crash(p)

\* The claim and the release of an id keep the types.
LEMMA ClaimTypes ==
    ASSUME TypeOK, NEW p \in Procs, ClaimStep(p)
    PROVE  TypeOK'
<1> USE SessionRuntimeAssumption DEF TypeOK, Claiming, Starting, Closing, Releasing, Resting, Holding
<1>1. CASE StartNas(p)
  BY <1>1 DEF StartNas
<1>2. CASE LockForClaim(p)
  BY <1>2 DEF LockForClaim
<1>3. CASE ReadOwner(p)
  BY <1>3 DEF ReadOwner
<1>4. CASE UnlinkOwner(p)
  BY <1>4 DEF UnlinkOwner
<1>5. CASE CreateOwner(p)
  BY <1>5 DEF CreateOwner
<1>6. CASE FillOwner(p)
  BY <1>6 DEF FillOwner
<1>7. CASE LockForRelease(p)
  BY <1>7 DEF LockForRelease
<1>8. CASE ReleaseOwner(p)
  BY <1>8 DEF ReleaseOwner
<1> QED
  BY <1>1, <1>2, <1>3, <1>4, <1>5, <1>6, <1>7, <1>8 DEF ClaimStep

\* The start of a session keeps the types.
LEMMA StartTypes ==
    ASSUME TypeOK, NEW p \in Procs, StartStep(p)
    PROVE  TypeOK'
<1> USE SessionRuntimeAssumption DEF TypeOK, Claiming, Starting, Closing, Releasing, Resting, Holding, Entry
<1>1. CASE StartFails(p)
  BY <1>1 DEF StartFails
<1>2. CASE Reserve(p)
  BY <1>2 DEF Reserve
<1>3. CASE MakeDir(p)
  BY <1>3 DEF MakeDir
<1>4. CASE RemoveOldSocket(p)
  BY <1>4 DEF RemoveOldSocket
<1>5. CASE ListenSocket(p)
  BY <1>5 DEF ListenSocket
<1>6. CASE Register(p)
  BY <1>6 DEF Register
<1> QED
  BY <1>1, <1>2, <1>3, <1>4, <1>5, <1>6 DEF StartStep

\* A session that is up or ends, and a crash, keep the types.
LEMMA LifeTypes ==
    ASSUME TypeOK, NEW p \in Procs, LifeStep(p)
    PROVE  TypeOK'
<1> USE SessionRuntimeAssumption DEF TypeOK, Claiming, Starting, Closing, Releasing, Resting, Holding
<1>1. CASE WritePendingDir(p)
  BY <1>1 DEF WritePendingDir
<1>2. CASE WritePendingEntry(p)
  BY <1>2 DEF WritePendingEntry
<1>3. CASE Launch(p)
  BY <1>3 DEF Launch
<1>4. CASE ContainerStep(p)
  BY <1>4 DEF ContainerStep
<1>5. CASE Revoke(p)
  BY <1>5 DEF Revoke
<1>6. CASE Kill(p)
  BY <1>6 DEF Kill
<1>7. CASE Close(p)
  BY <1>7 DEF Close
<1>8. CASE ClosePending(p)
  BY <1>8 DEF ClosePending
<1>9. CASE CloseSocket(p)
  BY <1>9 DEF CloseSocket
<1>10. CASE CloseDir(p)
  BY <1>10 DEF CloseDir
<1>11. CASE CloseRegistry(p)
  BY <1>11 DEF CloseRegistry
<1>12. CASE ClosePendingAgain(p)
  BY <1>12 DEF ClosePendingAgain
<1>13. CASE Crash(p)
  BY <1>13 DEF Crash
<1> QED
  BY <1>1, <1>2, <1>3, <1>4, <1>5, <1>6, <1>7, <1>8, <1>9, <1>10, <1>11, <1>12, <1>13 DEF LifeStep

\* The sweep keeps the types.
LEMMA SweepTypes ==
    ASSUME TypeOK, SweepStep
    PROVE  TypeOK'
<1> USE SessionRuntimeAssumption DEF TypeOK, Sweep
<1>1. CASE BeginSweep
  BY <1>1 DEF BeginSweep, NoSweep
<1>2. CASE ReadEntry
  <2>1. ASSUME NEW i \in gc.todo, gc' = [gc EXCEPT !.todo = @ \ {i}, !.seen[i] = reg[i]]
        PROVE  gc' \in Sweep
    BY <2>1
  <2>2. gc' \in Sweep
    BY <1>2, <2>1 DEF ReadEntry
  <2> QED
    BY <1>2, <2>2 DEF ReadEntry
<1>3. CASE CheckPid
  <2>1. ASSUME NEW i \in Ids, NEW b \in BOOLEAN,
               gc' = [gc EXCEPT !.step = "probe", !.at = i, !.alive = b]
        PROVE  gc' \in Sweep
    BY <2>1
  <2>2. [NoSweep EXCEPT !.step = "list"] \in Sweep
    BY DEF NoSweep
  <2>3. gc' \in Sweep
    BY <1>3, <2>1, <2>2 DEF CheckPid, Alive
  <2> QED
    BY <1>3, <2>3 DEF CheckPid
<1>4. CASE ProbeSocket
  BY <1>4 DEF ProbeSocket
<1>5. CASE RemoveRegistry
  BY <1>5 DEF RemoveRegistry
<1>6. CASE RemovePending
  BY <1>6 DEF RemovePending
<1>7. CASE RemoveBrokerDir
  BY <1>7 DEF RemoveBrokerDir
<1>8. CASE ListAgain
  BY <1>8 DEF ListAgain
<1>9. CASE ReadAgain
  <2>1. ASSUME NEW i \in gc.todo,
               gc' = [gc EXCEPT !.todo = @ \ {i},
                                !.live = IF reg[i] = None THEN @ ELSE @ \cup {i}]
        PROVE  gc' \in Sweep
    BY <2>1, ZenonT(40)
  <2>2. gc' \in Sweep
    BY <1>9, <2>1 DEF ReadAgain
  <2> QED
    BY <1>9, <2>2 DEF ReadAgain
<1>10. CASE SweepPending
  <2>a. [gc EXCEPT !.step = "rmPending", !.todo = pend \ gc.live] \in Sweep
    OBVIOUS
  <2>b. \A i : [gc EXCEPT !.todo = gc.todo \ {i}] \in Sweep
    OBVIOUS
  <2>c. [gc EXCEPT !.step = "dirs"] \in Sweep
    OBVIOUS
  <2>1. gc' \in Sweep
    BY <1>10, <2>a, <2>b, <2>c DEF SweepPending
  <2>2. pend' \subseteq pend
    BY <1>10 DEF SweepPending
  <2> QED
    BY <1>10, <2>1, <2>2 DEF SweepPending
<1>11. CASE SweepDirs
  <2>1. NoSweep \in Sweep
    BY DEF NoSweep
  <2>a. [gc EXCEPT !.step = "rmDirs", !.todo = dir \ gc.live] \in Sweep
    OBVIOUS
  <2>b. \A i : [gc EXCEPT !.todo = gc.todo \ {i}] \in Sweep
    OBVIOUS
  <2>2. gc' \in Sweep
    BY <1>11, <2>1, <2>a, <2>b DEF SweepDirs
  <2>3. dir' \subseteq Ids /\ sock' \subseteq dir'
    BY <1>11 DEF SweepDirs
  <2> QED
    BY <1>11, <2>2, <2>3 DEF SweepDirs
<1> QED
  BY <1>1, <1>2, <1>3, <1>4, <1>5, <1>6, <1>7, <1>8, <1>9, <1>10, <1>11 DEF SweepStep
-----------------------------------------------------------------------------
(* The owner of an id                                                      *)

\* A claim under the lock leaves one owner.
LEMMA ClaimOwner ==
    ASSUME OwnerInv, NEW p \in Procs, ClaimStep(p)
    PROVE  OwnerParts'
<1> USE SessionRuntimeAssumption DEF OwnerInv, OwnerParts, TypeOK, LockFits, OwnerFits, ClaimFits,
        UnderLock, Claiming, Starting, Closing, Releasing, Resting, Holding
<1>1. CASE StartNas(p)
  BY <1>1 DEF StartNas
<1>2. CASE LockForClaim(p)
  BY <1>2 DEF LockForClaim
<1>3. CASE ReadOwner(p)
  BY <1>3 DEF ReadOwner, OwnerAlive, Alive
<1>4. CASE UnlinkOwner(p)
  BY <1>4 DEF UnlinkOwner
<1>5. CASE CreateOwner(p)
  BY <1>5 DEF CreateOwner
<1>6. CASE FillOwner(p)
  BY <1>6 DEF FillOwner
<1>7. CASE LockForRelease(p)
  BY <1>7 DEF LockForRelease
<1>8. CASE ReleaseOwner(p)
  BY <1>8 DEF ReleaseOwner
<1> QED
  BY <1>1, <1>2, <1>3, <1>4, <1>5, <1>6, <1>7, <1>8 DEF ClaimStep

\* A session that starts, lives and ends has its id until it gives it back.
LEMMA SessionOwner ==
    ASSUME OwnerInv, NEW p \in Procs, StartStep(p) \/ LifeStep(p)
    PROVE  OwnerParts'
<1> USE SessionRuntimeAssumption DEF OwnerInv, OwnerParts, TypeOK, LockFits, OwnerFits, ClaimFits,
        UnderLock, Claiming, Starting, Closing, Releasing, Resting, Holding
<1>1. CASE StartFails(p)
  BY <1>1 DEF StartFails
<1>2. CASE Reserve(p)
  BY <1>2 DEF Reserve
<1>3. CASE MakeDir(p)
  BY <1>3 DEF MakeDir
<1>4. CASE RemoveOldSocket(p)
  BY <1>4 DEF RemoveOldSocket
<1>5. CASE ListenSocket(p)
  BY <1>5 DEF ListenSocket
<1>6. CASE Register(p)
  BY <1>6 DEF Register
<1>7. CASE WritePendingDir(p)
  BY <1>7 DEF WritePendingDir
<1>8. CASE WritePendingEntry(p)
  BY <1>8 DEF WritePendingEntry
<1>9. CASE Launch(p)
  BY <1>9 DEF Launch
<1>10. CASE ContainerStep(p)
  BY <1>10 DEF ContainerStep
<1>11. CASE Revoke(p)
  BY <1>11 DEF Revoke
<1>12. CASE Kill(p)
  BY <1>12 DEF Kill
<1>13. CASE Close(p)
  BY <1>13 DEF Close
<1>14. CASE ClosePending(p)
  BY <1>14 DEF ClosePending
<1>15. CASE CloseSocket(p)
  BY <1>15 DEF CloseSocket
<1>16. CASE CloseDir(p)
  BY <1>16 DEF CloseDir
<1>17. CASE CloseRegistry(p)
  BY <1>17 DEF CloseRegistry
<1>18. CASE ClosePendingAgain(p)
  BY <1>18 DEF ClosePendingAgain
<1>19. CASE Crash(p)
  BY <1>19 DEF Crash
<1> QED
  BY <1>1, <1>2, <1>3, <1>4, <1>5, <1>6, <1>7, <1>8, <1>9, <1>10, <1>11, <1>12, <1>13, <1>14, <1>15, <1>16, <1>17, <1>18, <1>19 DEF StartStep, LifeStep

\* The sweep does not touch owner files.
LEMMA SweepOwner ==
    ASSUME OwnerInv, SweepStep
    PROVE  OwnerParts'
<1>1. UNCHANGED <<pc, flock, owner>>
  BY DEF SweepStep, BeginSweep, ReadEntry, CheckPid, ProbeSocket, RemoveRegistry, RemovePending, RemoveBrokerDir, ListAgain, ReadAgain, SweepPending, SweepDirs
<1> QED
  BY <1>1 DEF OwnerInv, OwnerParts, LockFits, OwnerFits, ClaimFits

\* A step of the specification is one of these.
LEMMA NextIsAStep ==
    ASSUME Next
    PROVE  SweepStep \/ \E p \in Procs : ClaimStep(p) \/ StartStep(p) \/ LifeStep(p)
BY DEF Next, ProcStep, ClaimStep, StartStep, LifeStep

\* The owner file and its lock, in every state.
LEMMA OwnerInvariant == Spec => []OwnerInv
<1>1. Init => OwnerInv
  BY SessionRuntimeAssumption DEF Init, OwnerInv, OwnerParts, TypeOK, LockFits, OwnerFits, ClaimFits, UnderLock,
     Claiming, Starting, Closing, Releasing, Resting, Holding, NoSweep, Sweep
<1>2. OwnerInv /\ [Next]_vars => OwnerInv'
  <2> SUFFICES ASSUME OwnerInv, [Next]_vars
               PROVE  OwnerInv'
    OBVIOUS
  <2>1. CASE Next
    <3>1. CASE SweepStep
      BY <3>1, SweepTypes, SweepOwner DEF OwnerInv, OwnerParts
    <3>2. ASSUME NEW p \in Procs, ClaimStep(p) \/ StartStep(p) \/ LifeStep(p)
          PROVE  OwnerInv'
      BY <3>2, ClaimTypes, StartTypes, LifeTypes, ClaimOwner, SessionOwner
         DEF OwnerInv, OwnerParts
    <3> QED
      BY <2>1, <3>1, <3>2, NextIsAStep
  <2>2. CASE UNCHANGED vars
    BY <2>2 DEF OwnerInv, OwnerParts, TypeOK, LockFits, OwnerFits, ClaimFits
  <2> QED
    BY <2>1, <2>2
<1> QED
  BY <1>1, <1>2, PTL DEF Spec

\* Every state of the model has the types its code gives it.
THEOREM TypeCorrect == Spec => []TypeOK
<1>1. OwnerInv => TypeOK
  BY DEF OwnerInv
<1> QED
  BY <1>1, OwnerInvariant, PTL

\* No two live processes own the same session id: claimSessionId and
\* releaseIfOwned under the flock, for any number of processes and crashes.
THEOREM OneOwnerHolds == Spec => []OneOwner
<1>1. OwnerInv => OneOwner
  BY DEF OwnerInv, OwnerParts, OwnerFits, OneOwner
<1> QED
  BY <1>1, OwnerInvariant, PTL
-----------------------------------------------------------------------------
(* What a sweep spares                                                     *)

\* Claims do not concern the sweep.
LEMMA ClaimSweep ==
    ASSUME Inv, TypeOK, NEW p \in Procs, ClaimStep(p)
    PROVE  EntryFits' /\ SweepFits'
<1> USE SessionRuntimeAssumption DEF Inv, TypeOK, EntryFits, SweepFits, SweepKnows, InPlace,
        Entry, Spared, Claiming, Starting, Closing, Releasing, Resting, Holding
<1>1. CASE StartNas(p)
  BY <1>1 DEF StartNas
<1>2. CASE LockForClaim(p)
  BY <1>2 DEF LockForClaim
<1>3. CASE ReadOwner(p)
  BY <1>3 DEF ReadOwner
<1>4. CASE UnlinkOwner(p)
  BY <1>4 DEF UnlinkOwner
<1>5. CASE CreateOwner(p)
  BY <1>5 DEF CreateOwner
<1>6. CASE FillOwner(p)
  BY <1>6 DEF FillOwner
<1>7. CASE LockForRelease(p)
  BY <1>7 DEF LockForRelease
<1>8. CASE ReleaseOwner(p)
  BY <1>8 DEF ReleaseOwner
<1> QED
  BY <1>1, <1>2, <1>3, <1>4, <1>5, <1>6, <1>7, <1>8 DEF ClaimStep

\* A session that starts writes its own entry and its own socket.
LEMMA StartSweep ==
    ASSUME Inv, TypeOK, OneOwner, NEW p \in Procs, StartStep(p)
    PROVE  EntryFits' /\ SweepFits'
<1> USE SessionRuntimeAssumption DEF Inv, OneOwner, TypeOK, EntryFits, SweepFits, SweepKnows, InPlace,
        Entry, Spared, Claiming, Starting, Closing, Releasing, Resting, Holding
<1>1. CASE StartFails(p)
  BY <1>1 DEF StartFails
<1>2. CASE Reserve(p)
  BY <1>2 DEF Reserve
<1>3. CASE MakeDir(p)
  BY <1>3 DEF MakeDir
<1>4. CASE RemoveOldSocket(p)
  BY <1>4 DEF RemoveOldSocket
<1>5. CASE ListenSocket(p)
  BY <1>5 DEF ListenSocket
<1>6. CASE Register(p)
  <2>1. EntryFits'
    BY <1>6 DEF Register
  <2>2. ASSUME NEW q \in settled, gc.step # "idle", pc'[q] \in Spared
        PROVE  SweepKnows(q)'
    <3>1. q \in Procs /\ pc[q] \in Spared /\ SweepKnows(q)
      BY <1>6, <2>2 DEF Register
    <3>2. CASE q = p
      <4>1. /\ pc[p] = "register" /\ pc'[p] = "up"
            /\ reg'[IdOf[p]] = [proc |-> p, starting |-> FALSE]
            /\ UNCHANGED <<gc, sock>>
        BY <1>6 DEF Register
      <4>2. [proc |-> p, starting |-> FALSE] # None
        <5>1. [proc |-> p, starting |-> FALSE] \in Entry
          OBVIOUS
        <5> HIDE DEF Entry
        <5> QED
          BY <5>1, ZenonT(40)
      <4>3. InPlace(p)'
        BY <3>1, <3>2, <4>1, <4>2
      <4> HIDE DEF InPlace
      <4> QED
        BY <3>1, <3>2, <4>1, <4>3
    <3>3. CASE q # p
      <4>1. IdOf[q] # IdOf[p]
        BY <1>6, <3>1, <3>3 DEF Register
      <4> QED
        BY <1>6, <3>1, <3>3, <4>1 DEF Register
    <3> QED
      BY <3>2, <3>3
  <2> QED
    BY <1>6, <2>1, <2>2 DEF Register
<1> QED
  BY <1>1, <1>2, <1>3, <1>4, <1>5, <1>6 DEF StartStep

\* A session that ends removes only what is its own.
LEMMA LifeSweep ==
    ASSUME Inv, TypeOK, OneOwner, NEW p \in Procs, LifeStep(p)
    PROVE  EntryFits' /\ SweepFits'
<1> USE SessionRuntimeAssumption DEF Inv, OneOwner, TypeOK, EntryFits, SweepFits, SweepKnows, InPlace,
        Entry, Spared, Claiming, Starting, Closing, Releasing, Resting, Holding
<1>1. CASE WritePendingDir(p)
  BY <1>1 DEF WritePendingDir
<1>2. CASE WritePendingEntry(p)
  BY <1>2 DEF WritePendingEntry
<1>3. CASE Launch(p)
  BY <1>3 DEF Launch
<1>4. CASE ContainerStep(p)
  BY <1>4 DEF ContainerStep
<1>5. CASE Revoke(p)
  BY <1>5 DEF Revoke
<1>6. CASE Kill(p)
  BY <1>6 DEF Kill
<1>7. CASE Close(p)
  BY <1>7 DEF Close
<1>8. CASE ClosePending(p)
  BY <1>8 DEF ClosePending
<1>9. CASE CloseSocket(p)
  BY <1>9 DEF CloseSocket
<1>10. CASE CloseDir(p)
  BY <1>10 DEF CloseDir
<1>11. CASE CloseRegistry(p)
  BY <1>11 DEF CloseRegistry
<1>12. CASE ClosePendingAgain(p)
  BY <1>12 DEF ClosePendingAgain
<1>13. CASE Crash(p)
  BY <1>13 DEF Crash
<1> QED
  BY <1>1, <1>2, <1>3, <1>4, <1>5, <1>6, <1>7, <1>8, <1>9, <1>10, <1>11, <1>12, <1>13 DEF LifeStep

\* A sweep spares a session that had its entry when the sweep began.
LEMMA SweepSpares ==
    ASSUME Inv, TypeOK, SweepStep
    PROVE  EntryFits' /\ SweepFits'
<1> USE SessionRuntimeAssumption DEF Inv, TypeOK, EntryFits, SweepFits, SweepKnows, InPlace,
        Entry, Spared, Claiming, Starting, Closing, Releasing, Resting, Holding
<1>1. CASE BeginSweep
  BY <1>1 DEF BeginSweep, Sweep, NoSweep, Alive
<1>2. CASE ReadEntry
  <2>1. UNCHANGED <<pc, settled>> /\ EntryFits'
    BY <1>2 DEF ReadEntry
  <2>2. ASSUME NEW q \in settled, gc.step # "idle", pc[q] \in Spared
        PROVE  SweepKnows(q)'
    <3>1. q \in Procs /\ IdOf[q] \in Ids /\ SweepKnows(q)
      BY <2>2
    <3>2. UNCHANGED <<reg, sock>>
      BY <1>2 DEF ReadEntry
    <3>3. ASSUME NEW i \in gc.todo, gc' = [gc EXCEPT !.todo = @ \ {i}, !.seen[i] = reg[i]]
          PROVE  SweepKnows(q)'
      <4>1. gc.step = "read" /\ InPlace(q)'
        BY <1>2, <3>1, <3>2 DEF ReadEntry
      <4>2. reg[IdOf[q]].proc = q /\ (reg[IdOf[q]].starting \/ pc[q] = "up")
        BY <2>2, <3>1
      <4>3. /\ gc'.step = gc.step
            /\ gc'.seen[IdOf[q]] = IF i = IdOf[q] THEN reg[i] ELSE gc.seen[IdOf[q]]
        BY <3>1, <3>3 DEF Sweep
      <4> HIDE DEF InPlace, TypeOK
      <4> QED
        BY <2>1, <3>1, <4>1, <4>2, <4>3
    <3>4. ASSUME gc' = [gc EXCEPT !.step = "check"]
          PROVE  SweepKnows(q)'
      BY <1>2, <2>2, <3>1, <3>2, <3>4 DEF ReadEntry, Sweep
    <3> QED
      BY <1>2, <3>3, <3>4 DEF ReadEntry
  <2> QED
    BY <1>2, <2>1, <2>2 DEF ReadEntry
<1>3. CASE CheckPid
  <2>1. UNCHANGED <<pc, settled>> /\ EntryFits'
    BY <1>3 DEF CheckPid
  <2>2. ASSUME NEW q \in settled, gc.step # "idle", pc[q] \in Spared
        PROVE  SweepKnows(q)'
    <3>1. q \in Procs /\ IdOf[q] \in Ids /\ SweepKnows(q)
      BY <2>2
    <3>2. UNCHANGED <<reg, sock>>
      BY <1>3 DEF CheckPid
    <3>3. ASSUME NEW i \in Ids, gc.seen[i] # None,
                 gc' = [gc EXCEPT !.step = "probe", !.at = i,
                                  !.alive = Alive(gc.seen[i].proc)]
          PROVE  SweepKnows(q)'
      <4>1. gc.step = "check" /\ pc' = pc /\ InPlace(q)'
        BY <1>3, <3>1, <3>2 DEF CheckPid
      <4>2. Alive(q)
        BY <2>2 DEF Alive
      <4>3. /\ gc'.step = "probe" /\ gc'.at = i /\ gc'.seen = gc.seen
            /\ gc'.alive = Alive(gc.seen[i].proc)
        BY <3>3 DEF Sweep
      <4> HIDE DEF InPlace, TypeOK
      <4> QED
        BY <3>1, <3>3, <4>1, <4>2, <4>3
    <3>4. ASSUME gc' = [NoSweep EXCEPT !.step = "list"]
          PROVE  SweepKnows(q)'
      BY <1>3, <2>2, <3>1, <3>2, <3>4 DEF CheckPid, Sweep, NoSweep
    <3> QED
      BY <1>3, <3>3, <3>4 DEF CheckPid
  <2> QED
    BY <1>3, <2>1, <2>2 DEF CheckPid
<1>4. CASE ProbeSocket
  <2>1. UNCHANGED <<pc, settled>> /\ EntryFits'
    BY <1>4 DEF ProbeSocket
  <2>2. ASSUME NEW q \in settled, gc.step # "idle", pc[q] \in Spared
        PROVE  SweepKnows(q)'
    <3>1. q \in Procs /\ IdOf[q] \in Ids /\ SweepKnows(q)
      BY <2>2
    <3> QED
      BY <1>4, <2>2, <3>1 DEF ProbeSocket, KeepsEntry, Sweep
  <2> QED
    BY <1>4, <2>1, <2>2 DEF ProbeSocket
<1>5. CASE RemoveRegistry
  BY <1>5 DEF RemoveRegistry, Sweep, NoSweep, Alive
<1>6. CASE RemovePending
  BY <1>6 DEF RemovePending, Sweep, NoSweep, Alive
<1>7. CASE RemoveBrokerDir
  BY <1>7 DEF RemoveBrokerDir, Sweep, NoSweep, Alive
<1>8. CASE ListAgain
  BY <1>8 DEF ListAgain, Sweep, NoSweep, Alive
<1>9. CASE ReadAgain
  <2>1. UNCHANGED <<pc, settled>> /\ EntryFits'
    BY <1>9 DEF ReadAgain
  <2>2. ASSUME NEW q \in settled, gc.step # "idle", pc[q] \in Spared
        PROVE  SweepKnows(q)'
    <3>1. q \in Procs /\ IdOf[q] \in Ids /\ SweepKnows(q)
      BY <2>2
    <3>2. UNCHANGED <<reg, sock>>
      BY <1>9 DEF ReadAgain
    <3>3. ASSUME NEW i \in gc.todo,
                 gc' = [gc EXCEPT !.todo = @ \ {i},
                                  !.live = IF reg[i] = None THEN @ ELSE @ \cup {i}]
          PROVE  SweepKnows(q)'
      BY <1>9, <2>2, <3>1, <3>2, <3>3, ZenonT(40) DEF ReadAgain, Sweep
    <3>4. ASSUME gc.todo = {}, gc' = [gc EXCEPT !.step = "pending"]
          PROVE  SweepKnows(q)'
      BY <1>9, <2>2, <3>1, <3>2, <3>4 DEF ReadAgain, Sweep
    <3> QED
      BY <1>9, <3>3, <3>4 DEF ReadAgain
  <2> QED
    BY <1>9, <2>1, <2>2 DEF ReadAgain
<1>10. CASE SweepPending
  <2>1. UNCHANGED <<pc, settled>> /\ EntryFits'
    BY <1>10 DEF SweepPending
  <2>2. ASSUME NEW q \in settled, gc.step # "idle", pc[q] \in Spared
        PROVE  SweepKnows(q)'
    <3>1. q \in Procs /\ IdOf[q] \in Ids /\ SweepKnows(q)
      BY <2>2
    <3>2. UNCHANGED <<reg, sock>>
      BY <1>10 DEF SweepPending
    <3>3. ASSUME gc.step = "pending", gc' = [gc EXCEPT !.step = "rmPending", !.todo = pend \ gc.live]
          PROVE  SweepKnows(q)'
      BY <1>10, <2>2, <3>1, <3>2, <3>3 DEF SweepPending, Sweep
    <3>4. ASSUME NEW i \in gc.todo, gc.step = "rmPending", gc' = [gc EXCEPT !.todo = @ \ {i}]
          PROVE  SweepKnows(q)'
      BY <1>10, <2>2, <3>1, <3>2, <3>4 DEF SweepPending, Sweep
    <3>5. ASSUME gc.step = "rmPending", gc' = [gc EXCEPT !.step = "dirs"]
          PROVE  SweepKnows(q)'
      BY <1>10, <2>2, <3>1, <3>2, <3>5 DEF SweepPending, Sweep
    <3> QED
      BY <1>10, <3>3, <3>4, <3>5 DEF SweepPending
  <2> QED
    BY <1>10, <2>1, <2>2 DEF SweepPending
<1>11. CASE SweepDirs
  <2>1. UNCHANGED <<pc, settled>> /\ EntryFits'
    BY <1>11 DEF SweepDirs
  <2>2. ASSUME NEW q \in settled, gc.step # "idle", pc[q] \in Spared
        PROVE  SweepKnows(q)'
    <3>1. q \in Procs /\ IdOf[q] \in Ids /\ SweepKnows(q)
      BY <2>2
    <3>2. UNCHANGED reg
      BY <1>11 DEF SweepDirs
    <3>3. ASSUME gc.step = "dirs", gc' = [gc EXCEPT !.step = "rmDirs", !.todo = dir \ gc.live]
          PROVE  SweepKnows(q)'
      BY <1>11, <2>2, <3>1, <3>2, <3>3 DEF SweepDirs, Sweep
    <3>4. ASSUME NEW i \in gc.todo, gc.step = "rmDirs", sock' = sock \ {i},
                 gc' = [gc EXCEPT !.todo = @ \ {i}]
          PROVE  SweepKnows(q)'
      BY <1>11, <2>2, <3>1, <3>2, <3>4 DEF SweepDirs, Sweep
    <3>5. ASSUME gc' = NoSweep, UNCHANGED sock
          PROVE  SweepKnows(q)'
      BY <2>1, <3>1, <3>2, <3>5 DEF NoSweep
    <3> QED
      BY <1>11, <3>3, <3>4, <3>5 DEF SweepDirs
  <2> QED
    BY <1>11, <2>1, <2>2 DEF SweepDirs
<1> QED
  BY <1>1, <1>2, <1>3, <1>4, <1>5, <1>6, <1>7, <1>8, <1>9, <1>10, <1>11 DEF SweepStep
\* What a sweep knows, in every state.
LEMMA SweepInvariant == Spec => []Inv
<1>1. Init => EntryFits /\ SweepFits
  BY DEF Init, EntryFits, SweepFits, Spared, Starting, NoSweep
<1>2. Inv /\ [Next]_vars => EntryFits' /\ SweepFits'
  <2> SUFFICES ASSUME Inv, [Next]_vars
               PROVE  EntryFits' /\ SweepFits'
    OBVIOUS
  <2>1. TypeOK /\ OneOwner
    BY DEF Inv, OwnerInv, OwnerParts, OwnerFits, OneOwner
  <2>2. CASE SweepStep
    BY <2>1, <2>2, SweepSpares
  <2>3. ASSUME NEW p \in Procs, ClaimStep(p) \/ StartStep(p) \/ LifeStep(p)
        PROVE  EntryFits' /\ SweepFits'
    BY <2>1, <2>3, ClaimSweep, StartSweep, LifeSweep
  <2>4. CASE UNCHANGED vars
    BY <2>4 DEF Inv, EntryFits, SweepFits, SweepKnows, InPlace
  <2> QED
    BY <2>2, <2>3, <2>4, NextIsAStep
<1> QED
  BY <1>1, <1>2, OwnerInvariant, PTL DEF Spec, Inv

\* A sweep leaves alone a session that had its entry when the sweep began
\* (gcRuntime, the order of startSessionBroker).
THEOREM SettledSpared == Spec => []SettledIsSpared
<1>1. Inv => SettledIsSpared
  BY DEF Inv, SweepFits, SweepKnows, SettledIsSpared, Spared
<1> QED
  BY <1>1, SweepInvariant, PTL
=============================================================================
