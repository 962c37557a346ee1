--------------------------- MODULE HostOAuthProofs ---------------------------
(***************************************************************************)
(* Theorems about HostOAuth, for any number of sessions, refreshes, failed *)
(* writes and crashes.                                                     *)
(***************************************************************************)
EXTENDS HostOAuth, TLAPS

-----------------------------------------------------------------------------
(* The invariants                                                          *)

Writing == {"write", "torn", "written"}

\* A step that is about to use a token has one.
InHandFits == \A p \in Procs : pc[p] \in Writing \cup {"answer"} => inHand[p] \in Token

\* A source that was abandoned has nothing left to write; one that is closed
\* or dead has no attempt under way, and only an open one plans another.
LifeFits ==
    \A p \in Procs :
        /\ abandoned[p] => pending[p] = None
        /\ life[p] = "dead" => pending[p] = None
        /\ life[p] # "open" => ~timer[p]
        /\ life[p] \in {"shut", "dead"} => pc[p] = "idle"
        /\ life[p] = "saving" => pc[p] # "idle"

SourceInv == TypeOK /\ InHandFits /\ LifeFits /\ PendingIsRetried

\* A token of a source that was never in the file: just received, or waiting
\* for its write-back.
Unsaved(p) ==
    \/ pc[p] = "answer"
    \/ pending[p] # None /\ pc[p] # "written" /\ pending[p] \notin doubtful
UnsavedToken(p) == IF pc[p] = "answer" THEN inHand[p] ELSE pending[p]

\* No token is newer than the server's.
GensFit ==
    /\ disk = Torn \/ (disk.login = 1 /\ disk.gen <= latest[1])
    /\ \A p \in Procs : tokens[p].login = 1 /\ tokens[p].gen <= latest[1]

\* A token that is not in the file is the newest, and nobody else has it: so
\* nobody can refresh it away before it is written.
SoleHolder ==
    /\ \A p \in Procs : Unsaved(p) =>
         /\ UnsavedToken(p) = Live(1)
         /\ disk # Live(1)
         /\ host = None
         /\ \A q \in Procs \ {p} : ~Unsaved(q) /\ tokens[q] # Live(1)
    /\ host # None =>
         /\ host = Live(1)
         /\ disk # Live(1)
         /\ \A q \in Procs : tokens[q] # Live(1)

\* What a source writes is what waits, and what it serves from memory.
WriteFits ==
    \A p \in Procs :
        /\ ~abandoned[p] /\ ~wroteTo[p]
        /\ pc[p] \in Writing => pending[p] # None /\ inHand[p] = pending[p]
        /\ pending[p] # None => tokens[p] = pending[p]
        /\ pc[p] \in {"refresh", "answer"} => pending[p] = None
        /\ pc[p] = "written" /\ pending[p] = Live(1) => Live(1) \in {disk} \cup excused

\* A token waits in one source only.
PendingFits ==
    \A p, q \in Procs : p # q /\ pending[p] # None => pending[q] # pending[p]

Acquiring == {"mkdir", "stat", "rmdir", "remkdir", "own", "contended"}
LastSaveEnds(p) ==
    life[p] = "saving" /\ pc[p] \in {"release", "unlock"} /\ attempt[p] = 0

\* The last attempt of close() gives the lock back only when it has saved the
\* token or has an excuse.
LastSaveFits ==
    \A p \in Procs :
        /\ pc[p] \in Acquiring => attempt[p] # 0
        /\ LastSaveEnds(p) => pending[p] \in {None} \cup excused

TokenParts ==
    /\ ~replaced => GensFit /\ SoleHolder /\ WriteFits /\ PendingFits /\ LastSaveFits
    /\ TokenIsKept

TokenInv == SourceInv /\ TokenParts

-----------------------------------------------------------------------------
(* Types and the life of a source                                          *)

USE DEF vars, file, memory, lock, Goto

TakingStep(p) ==
    \/ Fire(p) \/ Mkdir(p) \/ StatDir(p) \/ RmdirStale(p) \/ Remkdir(p)
    \/ StatOwn(p) \/ StatOwnFails(p) \/ Contended(p) \/ Release(p) \/ Unlock(p)
    \/ \E k \in Locks : Beat(p, k) \/ Touch(p, k)

SavingStep(p) ==
    \/ Read(p) \/ Grant(p) \/ Refuse(p) \/ LoseAnswer(p) \/ Answer(p)
    \/ Truncate(p) \/ WriteLands(p) \/ WriteFails(p) \/ Written(p)

LifeStep(p) ==
    \/ CloseTail(p) \/ Close(p) \/ Revoke(p) \/ Crash(p)

\* The end of an attempt: the next one is planned, unless the source is
\* closed or has nothing to write any more.
LEMMA EndRunKeeps ==
    ASSUME SourceInv, NEW p \in Procs, pc[p] # "idle", EndRun(p),
           UNCHANGED <<pending, abandoned, inHand>>
    PROVE  /\ pc' \in [Procs -> PCs]
           /\ timer' \in [Procs -> BOOLEAN]
           /\ life' \in [Procs -> {"open", "closing", "saving", "shut", "dead"}]
           /\ attempt' \in [Procs -> 0..LockAttempts]
           /\ InHandFits' /\ LifeFits' /\ PendingIsRetried'
<1> USE HostOAuthAssumption DEF SourceInv, TypeOK, EndRun
<1>1. pc' \in [Procs -> PCs] /\ \A q \in Procs : pc'[q] = IF q = p THEN "idle" ELSE pc[q]
  BY DEF PCs
<1>2. timer' \in [Procs -> BOOLEAN]
  <2>1. (life[p] = "open" /\ ~abandoned[p]) \in BOOLEAN
    OBVIOUS
  <2> QED
    BY <2>1
<1>3. \A q \in Procs : timer'[q] <=> IF q = p THEN life[p] = "open" /\ ~abandoned[p] ELSE timer[q]
  OBVIOUS
<1>4. /\ life' \in [Procs -> {"open", "closing", "saving", "shut", "dead"}]
      /\ attempt' \in [Procs -> 0..LockAttempts]
  OBVIOUS
<1>5. \A q \in Procs : life'[q] = IF q = p /\ life[p] = "saving" THEN "shut" ELSE life[q]
  OBVIOUS
<1>6. life[p] \in {"open", "closing", "saving"}
  BY DEF LifeFits
<1> HIDE DEF TypeOK, EndRun
<1>7. InHandFits'
  BY <1>1 DEF InHandFits, Writing
<1>8. LifeFits'
  BY <1>1, <1>3, <1>5, <1>6 DEF LifeFits
<1>9. PendingIsRetried'
  BY <1>1, <1>3, <1>5, <1>6 DEF LifeFits, PendingIsRetried
<1> QED
  BY <1>1, <1>2, <1>4, <1>7, <1>8, <1>9

\* The directories: a mkdir, an rmdir or a utimes changes one of them.
LEMMA DirType ==
    ASSUME dir \in [Locks -> Directory \cup {None}], NEW k \in Locks, NEW S \in SUBSET Procs
    PROVE  /\ [dir EXCEPT ![k] = Fresh(S)] \in [Locks -> Directory \cup {None}]
           /\ [dir EXCEPT ![k] = None] \in [Locks -> Directory \cup {None}]
BY DEF Directory, Fresh

\* The release of a lock ends the attempt, goes on to the other lock, or to
\* the next attempt.
LEMMA ReleasedKeeps ==
    ASSUME SourceInv, NEW p \in Procs, pc[p] \in {"release", "unlock"}, Released(p),
           UNCHANGED <<pending, abandoned, inHand>>
    PROVE  /\ pc' \in [Procs -> PCs]
           /\ timer' \in [Procs -> BOOLEAN]
           /\ life' \in [Procs -> {"open", "closing", "saving", "shut", "dead"}]
           /\ attempt' \in [Procs -> 0..LockAttempts]
           /\ InHandFits' /\ LifeFits' /\ PendingIsRetried'
           /\ which' \in [Procs -> Locks]
           /\ held' \subseteq Procs \X Locks /\ compromised' \subseteq Procs \X Locks
<1>0. TypeOK
  BY DEF SourceInv
<1>1. /\ which' \in [Procs -> Locks]
      /\ held' \subseteq Procs \X Locks /\ compromised' \subseteq Procs \X Locks
  BY <1>0 DEF Released, TypeOK, Locks
<1>2. CASE EndRun(p)
  <2>1. pc[p] # "idle"
    OBVIOUS
  <2> QED
    BY <1>1, <1>2, <2>1, EndRunKeeps
<1>3. CASE /\ pc' = [pc EXCEPT ![p] = IF which[p] = "legacy" THEN "release" ELSE "contended"]
           /\ UNCHANGED <<timer, life, attempt>>
  BY <1>0, <1>1, <1>3 DEF SourceInv, TypeOK, InHandFits, LifeFits, PendingIsRetried, Writing, PCs
<1> QED
  BY <1>2, <1>3 DEF Released

\* The steps around the lock.
LEMMA TakingKeeps ==
    ASSUME SourceInv, NEW p \in Procs, TakingStep(p)
    PROVE  SourceInv'
<1> USE HostOAuthAssumption DEF SourceInv, TypeOK, InHandFits, LifeFits, PendingIsRetried, Writing, PCs
<1>0. which[p] \in Locks /\ dir \in [Locks -> Directory \cup {None}] /\ {} \in SUBSET Procs
  OBVIOUS
<1>1. CASE Fire(p)
  BY <1>1 DEF Fire
<1>2. CASE Mkdir(p)
  <2>1. dir' \in [Locks -> Directory \cup {None}]
    BY <1>0, <1>2, DirType DEF Mkdir, TakeDir
  <2>2. pc' \in [Procs -> PCs]
    BY <1>2 DEF Mkdir, TakeDir
  <2>3. InHandFits' /\ LifeFits' /\ PendingIsRetried'
    BY <1>2 DEF Mkdir, TakeDir
  <2> QED
    BY <1>2, <2>1, <2>2, <2>3 DEF Mkdir
<1>3. CASE StatDir(p)
  BY <1>3 DEF StatDir, IsContended, Locks
<1>4. CASE RmdirStale(p)
  <2>1. dir' \in [Locks -> Directory \cup {None}]
    BY <1>0, <1>4, DirType DEF RmdirStale
  <2> QED
    BY <1>4, <2>1 DEF RmdirStale
<1>5. CASE Remkdir(p)
  <2>1. dir' \in [Locks -> Directory \cup {None}]
    BY <1>0, <1>5, DirType DEF Remkdir, TakeDir
  <2>2. pc' \in [Procs -> PCs] /\ which' \in [Procs -> Locks]
    BY <1>5 DEF Remkdir, TakeDir, IsContended, Locks
  <2>3. InHandFits' /\ LifeFits' /\ PendingIsRetried'
    BY <1>5 DEF Remkdir, TakeDir, IsContended
  <2> QED
    BY <1>5, <2>1, <2>2, <2>3 DEF Remkdir
<1>6. CASE StatOwn(p)
  <2>1. dir' \in [Locks -> Directory \cup {None}]
    <3>1. dir[which[p]] \in Directory
      BY <1>0, <1>6 DEF StatOwn
    <3>2. [dir[which[p]] EXCEPT !.known = @ \cup {p}] \in Directory
      BY <3>1 DEF Directory
    <3> QED
      BY <1>0, <1>6, <3>2 DEF StatOwn
  <2>2. pc' \in [Procs -> PCs] /\ which' \in [Procs -> Locks]
    BY <1>0, <1>6 DEF StatOwn, Locks
  <2>3. InHandFits' /\ LifeFits' /\ PendingIsRetried'
    BY <1>6 DEF StatOwn
  <2>4. held' \subseteq Procs \X Locks /\ attempt' \in [Procs -> 0..LockAttempts]
    BY <1>0, <1>6 DEF StatOwn
  <2> QED
    BY <1>6, <2>1, <2>2, <2>3, <2>4 DEF StatOwn
<1>7. CASE StatOwnFails(p)
  <2>1. excused' \subseteq Token /\ which' \in [Procs -> Locks]
    BY <1>7 DEF StatOwnFails, ExcuseLastSave, Locks
  <2>2. CASE EndRun(p)
    <3>1. EndRun(p) /\ pc[p] = "own" /\ UNCHANGED <<pending, abandoned, inHand>>
      BY <1>7, <2>2 DEF StatOwnFails
    <3> HIDE DEF PCs, InHandFits, LifeFits, PendingIsRetried
    <3>2. /\ pc' \in [Procs -> PCs]
          /\ timer' \in [Procs -> BOOLEAN]
          /\ life' \in [Procs -> {"open", "closing", "saving", "shut", "dead"}]
          /\ attempt' \in [Procs -> 0..LockAttempts]
          /\ InHandFits' /\ LifeFits' /\ PendingIsRetried'
      BY <3>1, EndRunKeeps
    <3> QED
      BY <1>7, <2>1, <3>2 DEF StatOwnFails
  <2>3. CASE /\ pc' = [pc EXCEPT ![p] = "release"]
             /\ attempt' = [attempt EXCEPT ![p] = 0]
             /\ UNCHANGED <<timer, life>>
    BY <1>7, <2>1, <2>3 DEF StatOwnFails
  <2> QED
    BY <1>7, <2>2, <2>3 DEF StatOwnFails
<1>8. CASE Contended(p)
  <2>1. excused' \subseteq Token
    BY <1>8 DEF Contended, ExcuseLastSave
  <2>2. CASE EndRun(p)
    <3>1. EndRun(p) /\ pc[p] # "idle" /\ UNCHANGED <<pending, abandoned, inHand>>
      BY <1>8, <2>2 DEF Contended
    <3> HIDE DEF PCs, InHandFits, LifeFits, PendingIsRetried
    <3>2. /\ pc' \in [Procs -> PCs]
          /\ timer' \in [Procs -> BOOLEAN]
          /\ life' \in [Procs -> {"open", "closing", "saving", "shut", "dead"}]
          /\ attempt' \in [Procs -> 0..LockAttempts]
          /\ InHandFits' /\ LifeFits' /\ PendingIsRetried'
      BY <3>1, EndRunKeeps
    <3>3. tokens' \in [Procs -> Token]
      BY <1>8 DEF Contended
    <3> QED
      BY <1>8, <2>1, <2>2, <3>2, <3>3 DEF Contended
  <2>3. CASE ~EndRun(p)
    BY <1>8, <2>1, <2>3 DEF Contended
  <2> QED
    BY <2>2, <2>3
<1>9. CASE Release(p)
  <2>1. CASE Released(p)
    <3>1. pc[p] \in {"release", "unlock"} /\ UNCHANGED <<pending, abandoned, inHand>>
      BY <1>9 DEF Release
    <3> HIDE DEF PCs, InHandFits, LifeFits, PendingIsRetried
    <3>2. /\ pc' \in [Procs -> PCs]
          /\ timer' \in [Procs -> BOOLEAN]
          /\ life' \in [Procs -> {"open", "closing", "saving", "shut", "dead"}]
          /\ attempt' \in [Procs -> 0..LockAttempts]
          /\ InHandFits' /\ LifeFits' /\ PendingIsRetried'
          /\ which' \in [Procs -> Locks]
          /\ held' \subseteq Procs \X Locks /\ compromised' \subseteq Procs \X Locks
      BY <2>1, <3>1, ReleasedKeeps
    <3> QED
      BY <1>9, <3>2 DEF Release
  <2>2. CASE pc' = [pc EXCEPT ![p] = "unlock"] /\ UNCHANGED <<timer, life, attempt, which, held, compromised>>
    BY <1>9, <2>2 DEF Release
  <2> QED
    BY <1>9, <2>1, <2>2 DEF Release
<1>10. CASE Unlock(p)
  <2>1. pc[p] \in {"release", "unlock"} /\ UNCHANGED <<pending, abandoned, inHand>> /\ Released(p)
    BY <1>10 DEF Unlock
  <2>2. dir' \in [Locks -> Directory \cup {None}]
    BY <1>0, <1>10, DirType DEF Unlock
  <2> HIDE DEF PCs, InHandFits, LifeFits, PendingIsRetried
  <2>3. /\ pc' \in [Procs -> PCs]
        /\ timer' \in [Procs -> BOOLEAN]
        /\ life' \in [Procs -> {"open", "closing", "saving", "shut", "dead"}]
        /\ attempt' \in [Procs -> 0..LockAttempts]
        /\ InHandFits' /\ LifeFits' /\ PendingIsRetried'
        /\ which' \in [Procs -> Locks]
        /\ held' \subseteq Procs \X Locks /\ compromised' \subseteq Procs \X Locks
    BY <2>1, ReleasedKeeps
  <2> QED
    BY <1>10, <2>2, <2>3 DEF Unlock
<1>11. ASSUME NEW k \in Locks, Beat(p, k)
       PROVE  SourceInv'
  BY <1>11 DEF Beat
<1>12. ASSUME NEW k \in Locks, Touch(p, k)
       PROVE  SourceInv'
  <2>1. {p} \in SUBSET Procs
    OBVIOUS
  <2>2. dir' = [dir EXCEPT ![k] = Fresh({p})] \/ dir' = [dir EXCEPT ![k] = None]
    BY <1>12 DEF Touch
  <2>3. dir' \in [Locks -> Directory \cup {None}]
    BY <1>0, <2>1, <2>2, DirType
  <2> QED
    BY <1>12, <2>3 DEF Touch
<1> QED
  BY <1>1, <1>2, <1>3, <1>4, <1>5, <1>6, <1>7, <1>8, <1>9, <1>10, <1>11, <1>12 DEF TakingStep

\* The steps with the lock held.
LEMMA SavingKeeps ==
    ASSUME SourceInv, NEW p \in Procs, SavingStep(p)
    PROVE  SourceInv'
<1> USE HostOAuthAssumption DEF SourceInv, TypeOK, InHandFits, LifeFits, PendingIsRetried, Writing, PCs
<1>1. CASE Read(p)
  BY <1>1 DEF Read, ExcuseLastSave
<1>2. CASE Grant(p)
  BY <1>2 DEF Grant, Token, Live
<1>3. CASE Refuse(p)
  BY <1>3 DEF Refuse
<1>4. CASE LoseAnswer(p)
  BY <1>4 DEF LoseAnswer, Incident
<1>5. CASE Answer(p)
  BY <1>5 DEF Answer
<1>6. CASE Truncate(p)
  BY <1>6 DEF Truncate, ExcuseRewrite
<1>7. CASE WriteLands(p)
  BY <1>7 DEF WriteLands, ExcuseRewrite
<1>8. CASE WriteFails(p)
  BY <1>8 DEF WriteFails, ExcuseLastSave, Incident
<1>9. CASE Written(p)
  BY <1>9 DEF Written
<1> QED
  BY <1>1, <1>2, <1>3, <1>4, <1>5, <1>6, <1>7, <1>8, <1>9 DEF SavingStep

\* The end of a source.
LEMMA LifeKeeps ==
    ASSUME SourceInv, NEW p \in Procs, LifeStep(p)
    PROVE  SourceInv'
<1> USE HostOAuthAssumption DEF SourceInv, TypeOK, InHandFits, LifeFits, PendingIsRetried, Writing, PCs
<1>1. CASE CloseTail(p)
  <2>1. CASE pending[p] # None /\ ~abandoned[p]
    BY <1>1, <2>1 DEF CloseTail
  <2>2. CASE ~(pending[p] # None /\ ~abandoned[p])
    BY <1>1, <2>2 DEF CloseTail
  <2> QED
    BY <2>1, <2>2
<1>2. CASE Close(p)
  BY <1>2 DEF Close
<1>3. CASE Revoke(p)
  BY <1>3 DEF Revoke
<1>4. CASE Crash(p)
  BY <1>4 DEF Crash, Incident, Locks
<1> QED
  BY <1>1, <1>2, <1>3, <1>4 DEF LifeStep

\* The surroundings.
LEMMA WorldKeeps ==
    ASSUME SourceInv, (\E k \in Locks : Lapse(k)) \/ HostRefresh \/ HostSave \/ Relogin
    PROVE  SourceInv'
<1> USE HostOAuthAssumption DEF SourceInv, TypeOK, InHandFits, LifeFits, PendingIsRetried, Writing, PCs
<1>1. ASSUME NEW k \in Locks, Lapse(k)
      PROVE  SourceInv'
  <2>1. dir[k] \in Directory
    BY <1>1 DEF Lapse
  <2>2. [dir[k] EXCEPT !.stale = TRUE] \in Directory
    BY <2>1 DEF Directory
  <2>3. dir' \in [Locks -> Directory \cup {None}]
    BY <1>1, <2>2 DEF Lapse
  <2> QED
    BY <1>1, <2>3 DEF Lapse, Incident
<1>2. CASE HostRefresh
  BY <1>2 DEF HostRefresh, Token, Live, Logins, Torn
<1>3. CASE HostSave
  BY <1>3 DEF HostSave
<1>4. CASE Relogin
  BY <1>4 DEF Relogin, Token, Logins, Incident
<1> QED
  BY <1>1, <1>2, <1>3, <1>4
-----------------------------------------------------------------------------
(* The newest token                                                        *)

\* A step that touches no token: the last save of close() ends only when it
\* may, and no source shuts down with a token that has no excuse.
LEMMA QuietKeeps ==
    ASSUME TokenInv, UNCHANGED <<file, memory, doubtful>>, excused \subseteq excused',
           \A q \in Procs : \/ pc'[q] = pc[q]
                            \/ /\ pc[q] \notin Writing \cup {"answer"}
                               /\ pc'[q] \notin Writing \cup {"answer", "refresh"},
           \A q \in Procs : pc'[q] \in Acquiring => attempt'[q] # 0,
           \A q \in Procs : LastSaveEnds(q)' => pending[q] \in {None} \cup excused',
           \A q \in Procs : life'[q] = "shut" =>
                               life[q] = "shut" \/ pending[q] \in {None} \cup excused'
    PROVE  TokenParts'
<1> USE HostOAuthAssumption DEF TokenParts, GensFit, SoleHolder, WriteFits, TokenIsKept,
        Unsaved, UnsavedToken, Live, Writing
<1>0. SourceInv /\ TypeOK /\ TokenParts
  BY DEF TokenInv, SourceInv
<1> USE <1>0
<1>1. GensFit' <=> GensFit
  OBVIOUS
<1>2. \A q \in Procs : Unsaved(q)' <=> Unsaved(q)
  OBVIOUS
<1>3. \A q \in Procs : Unsaved(q) => UnsavedToken(q)' = UnsavedToken(q)
  OBVIOUS
<1>4. SoleHolder => SoleHolder'
  BY <1>2, <1>3
<1>5. WriteFits => WriteFits'
  OBVIOUS
<1>6. LastSaveFits'
  BY DEF LastSaveFits
<1>7. PendingFits => PendingFits'
  BY DEF PendingFits
<1>8. TokenIsKept'
  <2>1. Live(1)' = Live(1) /\ Live(1) # None
    BY DEF TypeOK, Token, Logins
  <2> HIDE DEF Live
  <2> QED
    BY <2>1
<1> QED
  BY <1>1, <1>4, <1>5, <1>6, <1>7, <1>8

\* The file is read: a token that is adopted from it is not one that waits elsewhere.
LEMMA ReadKeeps ==
    ASSUME TokenInv, NEW p \in Procs, Read(p), ~replaced'
    PROVE  TokenParts'
<1> USE HostOAuthAssumption DEF TokenParts, GensFit, SoleHolder, WriteFits, LastSaveFits,
        TokenIsKept, Unsaved, UnsavedToken, Live, Writing, Acquiring, LastSaveEnds
<1>0. SourceInv /\ TypeOK /\ TokenParts
  BY DEF TokenInv, SourceInv
<1> USE <1>0
<1>1. GensFit'
  BY DEF Read, ExcuseLastSave, TypeOK, Token
<1>2. SoleHolder'
  <2>1. /\ UNCHANGED <<disk, replaced, host, latest, pending, doubtful>>
        /\ \A q \in Procs : pc'[q] # pc[q] => pc[q] = "read" /\ pc'[q] \in {"write", "release", "refresh"}
        /\ \A q \in Procs : pc'[q] = pc[q] => inHand'[q] = inHand[q]
    BY DEF Read, TypeOK
  <2>2. \A q \in Procs : tokens'[q] \in {tokens[q], disk}
    BY DEF Read, TypeOK
  <2>3. \A q \in Procs : /\ Unsaved(q)' <=> Unsaved(q)
                         /\ Unsaved(q) => UnsavedToken(q)' = UnsavedToken(q)
    BY <2>1
  <2> QED
    BY <2>1, <2>2, <2>3
<1>3. WriteFits'
  BY DEF Read, ExcuseLastSave, TypeOK, Token
<1>4. TokenIsKept'
  BY DEF Read, ExcuseLastSave, TypeOK, Token
<1>5. LastSaveFits'
  BY DEF Read, ExcuseLastSave, TypeOK, Token
<1>6. PendingFits'
  BY DEF Read, TypeOK, PendingFits
<1> QED
  BY <1>1, <1>2, <1>3, <1>4, <1>5, <1>6

\* The same while another process has the lock.
LEMMA ContendedKeeps ==
    ASSUME TokenInv, NEW p \in Procs, Contended(p), ~replaced'
    PROVE  TokenParts'
<1> USE HostOAuthAssumption DEF TokenParts, GensFit, SoleHolder, WriteFits, LastSaveFits,
        TokenIsKept, Unsaved, UnsavedToken, Live, Writing, Acquiring, LastSaveEnds
<1>0. SourceInv /\ TypeOK /\ TokenParts
  BY DEF TokenInv, SourceInv
<1> USE <1>0
<1>1. GensFit'
  <2>1. UNCHANGED <<disk, latest, replaced>>
    BY DEF Contended
  <2>2. \A q \in Procs : tokens'[q] = tokens[q] \/ (disk # Torn /\ tokens'[q] = disk)
    BY DEF Contended, ExcuseLastSave, TypeOK
  <2> QED
    BY <2>1, <2>2
<1>2. SoleHolder'
  <2>1. /\ \A q \in Procs : pc'[q] \notin Writing \cup {"answer"} <=> pc[q] \notin Writing \cup {"answer"}
        /\ UNCHANGED <<disk, replaced, host, latest, pending, inHand, doubtful>>
        /\ \A q \in Procs : pc'[q] # pc[q] => pc[q] = "contended" /\ pc'[q] \in {"mkdir", "idle"}
    BY DEF Contended, EndRun, TypeOK
  <2>2. \A q \in Procs : tokens'[q] \in {tokens[q], disk}
    BY DEF Contended, ExcuseLastSave, TypeOK
  <2>3. \A q \in Procs : /\ Unsaved(q)' <=> Unsaved(q)
                         /\ Unsaved(q) => UnsavedToken(q)' = UnsavedToken(q)
    BY <2>1
  <2> QED
    BY <2>1, <2>2, <2>3
<1>3. WriteFits'
  BY DEF Contended, ExcuseLastSave, TypeOK, Token, EndRun
<1>4. TokenIsKept'
  BY DEF Contended, ExcuseLastSave, TypeOK, Token, EndRun
<1>5. LastSaveFits'
  BY DEF Contended, ExcuseLastSave, TypeOK, Token, EndRun
<1>6. PendingFits'
  BY DEF Contended, TypeOK, PendingFits
<1> QED
  BY <1>1, <1>2, <1>3, <1>4, <1>5, <1>6

\* The server issues a token: the one who asked had the newest, so no other one waits.
LEMMA GrantKeeps ==
    ASSUME TokenInv, NEW p \in Procs, Grant(p), ~replaced'
    PROVE  TokenParts'
<1> USE HostOAuthAssumption DEF TokenParts, GensFit, SoleHolder, WriteFits, LastSaveFits,
        TokenIsKept, Unsaved, UnsavedToken, Live, Writing, Acquiring, LastSaveEnds
<1>0. SourceInv /\ TypeOK /\ TokenParts
  BY DEF TokenInv, SourceInv
<1> USE <1>0
<1>1. GensFit'
  BY DEF Grant, TypeOK, Token
<1>2. SoleHolder'
  <2>0. ~replaced /\ GensFit /\ SoleHolder
    BY DEF Grant
  <2>1. tokens[p] = Live(1) /\ latest[1] \in Nat /\ latest'[1] = latest[1] + 1
    BY <2>0 DEF Grant, TypeOK, Token, Logins
  <2>2. \A q \in Procs : ~Unsaved(q)
    BY <2>0, <2>1 DEF Grant
  <2>3. host = None
    BY <2>0, <2>1
  <2>4. disk # Live(1)' /\ \A q \in Procs : tokens[q] # Live(1)'
    <3>1. \A t \in Token \cup {Torn} : t.gen <= latest[1] => t # Live(1)'
      BY <2>1 DEF Token, Torn
    <3>2. disk \in Token \cup {Torn} /\ Torn.gen = 0 /\ \A q \in Procs : tokens[q] \in Token
      BY DEF TypeOK, Torn
    <3> QED
      BY <2>0, <2>1, <3>1, <3>2
  <2>5. \A q \in Procs : Unsaved(q)' => q = p
    BY <2>2 DEF Grant, TypeOK
  <2>6. Unsaved(p)' /\ UnsavedToken(p)' = Live(1)'
    BY <2>1 DEF Grant, TypeOK
  <2>7. UNCHANGED <<disk, host, tokens>>
    BY DEF Grant
  <2> HIDE DEF Unsaved, UnsavedToken, Live
  <2> QED
    BY <2>3, <2>4, <2>5, <2>6, <2>7
<1>3. WriteFits'
  BY DEF Grant, TypeOK, Token
<1>4. TokenIsKept'
  BY DEF Grant, TypeOK, Token
<1>5. LastSaveFits'
  BY DEF Grant, TypeOK, Token
<1>6. PendingFits'
  BY DEF Grant, TypeOK, PendingFits
<1> QED
  BY <1>1, <1>2, <1>3, <1>4, <1>5, <1>6

\* The answer is lost.
LEMMA LoseAnswerKeeps ==
    ASSUME TokenInv, NEW p \in Procs, LoseAnswer(p), ~replaced'
    PROVE  TokenParts'
<1> USE HostOAuthAssumption DEF TokenParts, GensFit, SoleHolder, WriteFits, LastSaveFits,
        TokenIsKept, Unsaved, UnsavedToken, Live, Writing, Acquiring, LastSaveEnds
<1>0. SourceInv /\ TypeOK /\ TokenParts
  BY DEF TokenInv, SourceInv
<1> USE <1>0
<1>1. GensFit'
  BY DEF LoseAnswer, TypeOK, Token
<1>2. SoleHolder'
  BY DEF LoseAnswer, TypeOK, Token
<1>3. WriteFits'
  BY DEF LoseAnswer, TypeOK, Token
<1>4. TokenIsKept'
  BY DEF LoseAnswer, TypeOK, Token
<1>5. LastSaveFits'
  BY DEF LoseAnswer, TypeOK, Token
<1>6. PendingFits'
  BY DEF LoseAnswer, TypeOK, PendingFits
<1> QED
  BY <1>1, <1>2, <1>3, <1>4, <1>5, <1>6

\* The answer arrives.
LEMMA AnswerKeeps ==
    ASSUME TokenInv, NEW p \in Procs, Answer(p), ~replaced'
    PROVE  TokenParts'
<1> USE HostOAuthAssumption DEF TokenParts, GensFit, SoleHolder, WriteFits, LastSaveFits,
        TokenIsKept, Unsaved, UnsavedToken, Live, Writing, Acquiring, LastSaveEnds
<1>0. SourceInv /\ TypeOK /\ TokenParts
  BY DEF TokenInv, SourceInv
<1> USE <1>0
<1>1. GensFit'
  BY DEF Answer, TypeOK, Token
<1>2. SoleHolder'
  BY SMTT(30) DEF Answer, TypeOK, Token
<1>3. WriteFits'
  BY DEF Answer, TypeOK, Token
<1>4. TokenIsKept'
  BY DEF Answer, TypeOK, Token, SourceInv, LifeFits
<1>5. LastSaveFits'
  BY DEF Answer, TypeOK, Token
<1>6. PendingFits'
  BY DEF Answer, TypeOK, PendingFits
<1> QED
  BY <1>1, <1>2, <1>3, <1>4, <1>5, <1>6

\* The file is truncated: what it held is older than what is about to be written.
LEMMA TruncateKeeps ==
    ASSUME TokenInv, NEW p \in Procs, Truncate(p), ~replaced'
    PROVE  TokenParts'
<1> USE HostOAuthAssumption DEF TokenParts, GensFit, SoleHolder, WriteFits, LastSaveFits,
        TokenIsKept, Unsaved, UnsavedToken, Live, Writing, Acquiring, LastSaveEnds
<1>0. SourceInv /\ TypeOK /\ TokenParts
  BY DEF TokenInv, SourceInv
<1> USE <1>0
<1>1. GensFit'
  BY DEF Truncate, ExcuseRewrite, TypeOK, Token, Torn
<1>2. SoleHolder'
  BY DEF Truncate, ExcuseRewrite, TypeOK, Token, Torn
<1>3. WriteFits'
  BY DEF Truncate, ExcuseRewrite, TypeOK, Token, Torn, PendingFits
<1>4. TokenIsKept'
  BY DEF Truncate, ExcuseRewrite, TypeOK, Token, Torn, SourceInv, LifeFits
<1>5. LastSaveFits'
  BY DEF Truncate, ExcuseRewrite, TypeOK, Token, Torn
<1>6. PendingFits'
  BY DEF Truncate, TypeOK, PendingFits
<1> QED
  BY <1>1, <1>2, <1>3, <1>4, <1>5, <1>6

\* The write lands.
LEMMA WriteLandsKeeps ==
    ASSUME TokenInv, NEW p \in Procs, WriteLands(p), ~replaced'
    PROVE  TokenParts'
<1> USE HostOAuthAssumption DEF TokenParts, GensFit, SoleHolder, WriteFits, LastSaveFits,
        TokenIsKept, Unsaved, UnsavedToken, Live, Writing, Acquiring, LastSaveEnds
<1>0. SourceInv /\ TypeOK /\ TokenParts
  BY DEF TokenInv, SourceInv
<1> USE <1>0
<1>1. GensFit'
  BY DEF WriteLands, ExcuseRewrite, TypeOK, Token, Torn
<1>2. SoleHolder'
  BY DEF WriteLands, ExcuseRewrite, TypeOK, Token, Torn
<1>3. WriteFits'
  BY DEF WriteLands, ExcuseRewrite, TypeOK, Token, Torn
<1>4. TokenIsKept'
  BY DEF WriteLands, ExcuseRewrite, TypeOK, Token, Torn
<1>5. LastSaveFits'
  BY DEF WriteLands, ExcuseRewrite, TypeOK, Token, Torn
<1>6. PendingFits'
  BY DEF WriteLands, TypeOK, PendingFits
<1> QED
  BY <1>1, <1>2, <1>3, <1>4, <1>5, <1>6

\* A write fails: before it changed the file, half way, or after it.
LEMMA WriteFailsKeeps ==
    ASSUME TokenInv, NEW p \in Procs, WriteFails(p), ~replaced'
    PROVE  TokenParts'
<1> USE HostOAuthAssumption DEF TokenParts, GensFit, SoleHolder, WriteFits, LastSaveFits,
        TokenIsKept, Unsaved, UnsavedToken, Live, Writing, Acquiring, LastSaveEnds
<1>0. SourceInv /\ TypeOK /\ TokenParts
  BY DEF TokenInv, SourceInv
<1> USE <1>0
<1>1. GensFit'
  BY DEF WriteFails, ExcuseLastSave, TypeOK, Token
<1>2. SoleHolder'
  BY DEF WriteFails, ExcuseLastSave, TypeOK, Token
<1>3. WriteFits'
  BY DEF WriteFails, ExcuseLastSave, TypeOK, Token
<1>4. TokenIsKept'
  BY DEF WriteFails, ExcuseLastSave, TypeOK, Token
<1>5. LastSaveFits'
  BY DEF WriteFails, ExcuseLastSave, TypeOK, Token
<1>6. PendingFits'
  BY DEF WriteFails, TypeOK, PendingFits
<1> QED
  BY <1>1, <1>2, <1>3, <1>4, <1>5, <1>6

\* A write-back is done: its token is in the file, or an older one.
LEMMA WrittenKeeps ==
    ASSUME TokenInv, NEW p \in Procs, Written(p), ~replaced'
    PROVE  TokenParts'
<1> USE HostOAuthAssumption DEF TokenParts, GensFit, SoleHolder, WriteFits, LastSaveFits,
        TokenIsKept, Unsaved, UnsavedToken, Live, Writing, Acquiring, LastSaveEnds
<1>0. SourceInv /\ TypeOK /\ TokenParts
  BY DEF TokenInv, SourceInv
<1> USE <1>0
<1>1. GensFit'
  BY DEF Written, TypeOK, Token
<1>2. SoleHolder'
  BY DEF Written, TypeOK, Token
<1>3. WriteFits'
  BY DEF Written, TypeOK, Token
<1>4. TokenIsKept'
  BY DEF Written, TypeOK, Token
<1>5. LastSaveFits'
  BY DEF Written, TypeOK, Token
<1>6. PendingFits'
  BY DEF Written, TypeOK, PendingFits
<1> QED
  BY <1>1, <1>2, <1>3, <1>4, <1>5, <1>6

\* The end of close: nothing that waits is dropped.
LEMMA CloseTailKeeps ==
    ASSUME TokenInv, NEW p \in Procs, CloseTail(p), ~replaced'
    PROVE  TokenParts'
<1> USE HostOAuthAssumption DEF TokenParts, GensFit, SoleHolder, WriteFits, LastSaveFits,
        TokenIsKept, Unsaved, UnsavedToken, Live, Writing, Acquiring, LastSaveEnds
<1>0. SourceInv /\ TypeOK /\ TokenParts
  BY DEF TokenInv, SourceInv
<1> USE <1>0
<1>1. GensFit'
  BY DEF CloseTail, TypeOK, Token
<1>2. SoleHolder'
  BY DEF CloseTail, TypeOK, Token
<1>3. WriteFits'
  BY DEF CloseTail, TypeOK, Token
<1>4. TokenIsKept'
  BY DEF CloseTail, TypeOK, Token
<1>5. LastSaveFits'
  BY DEF CloseTail, TypeOK, Token
<1>6. PendingFits'
  BY DEF CloseTail, TypeOK, PendingFits
<1> QED
  BY <1>1, <1>2, <1>3, <1>4, <1>5, <1>6

\* A crash.
LEMMA CrashKeeps ==
    ASSUME TokenInv, NEW p \in Procs, Crash(p), ~replaced'
    PROVE  TokenParts'
<1> USE HostOAuthAssumption DEF TokenParts, GensFit, SoleHolder, WriteFits, LastSaveFits,
        TokenIsKept, Unsaved, UnsavedToken, Live, Writing, Acquiring, LastSaveEnds
<1>0. SourceInv /\ TypeOK /\ TokenParts
  BY DEF TokenInv, SourceInv
<1> USE <1>0
<1>1. GensFit'
  BY DEF Crash, TypeOK, Token
<1>2. SoleHolder'
  BY DEF Crash, TypeOK, Token
<1>3. WriteFits'
  BY DEF Crash, TypeOK, Token
<1>4. TokenIsKept'
  BY DEF Crash, TypeOK, Token
<1>5. LastSaveFits'
  BY DEF Crash, TypeOK, Token
<1>6. PendingFits'
  BY DEF Crash, TypeOK, PendingFits
<1> QED
  BY <1>1, <1>2, <1>3, <1>4, <1>5, <1>6

\* The host refreshes the token of the file: so it is the newest.
LEMMA HostRefreshKeeps ==
    ASSUME TokenInv, HostRefresh, ~replaced'
    PROVE  TokenParts'
<1> USE HostOAuthAssumption DEF TokenParts, GensFit, SoleHolder, WriteFits, LastSaveFits,
        TokenIsKept, Unsaved, UnsavedToken, Live, Writing, Acquiring, LastSaveEnds
<1>0. SourceInv /\ TypeOK /\ TokenParts
  BY DEF TokenInv, SourceInv
<1> USE <1>0
<1>1. GensFit'
  BY DEF HostRefresh, TypeOK, Token, Torn
<1>2. SoleHolder'
  BY DEF HostRefresh, TypeOK, Token, Torn
<1>3. WriteFits'
  BY DEF HostRefresh, TypeOK, Token, Torn
<1>4. TokenIsKept'
  BY DEF HostRefresh, TypeOK, Token, Torn
<1>5. LastSaveFits'
  BY DEF HostRefresh, TypeOK, Token, Torn
<1>6. PendingFits'
  BY DEF HostRefresh, TypeOK, PendingFits
<1> QED
  BY <1>1, <1>2, <1>3, <1>4, <1>5, <1>6

\* The host saves its token.
LEMMA HostSaveKeeps ==
    ASSUME TokenInv, HostSave, ~replaced'
    PROVE  TokenParts'
<1> USE HostOAuthAssumption DEF TokenParts, GensFit, SoleHolder, WriteFits, LastSaveFits,
        TokenIsKept, Unsaved, UnsavedToken, Live, Writing, Acquiring, LastSaveEnds
<1>0. SourceInv /\ TypeOK /\ TokenParts
  BY DEF TokenInv, SourceInv
<1> USE <1>0
<1>1. GensFit'
  BY DEF HostSave, TypeOK, Token
<1>2. SoleHolder'
  BY DEF HostSave, TypeOK, Token
<1>3. WriteFits'
  BY DEF HostSave, TypeOK, Token
<1>4. TokenIsKept'
  BY DEF HostSave, TypeOK, Token
<1>5. LastSaveFits'
  BY DEF HostSave, TypeOK, Token
<1>6. PendingFits'
  BY DEF HostSave, TypeOK, PendingFits
<1> QED
  BY <1>1, <1>2, <1>3, <1>4, <1>5, <1>6
\* Every step keeps the newest token.
LEMMA StepKeepsToken ==
    ASSUME TokenInv, [Next]_vars
    PROVE  TokenParts'
<1>1. CASE replaced'
  BY <1>1 DEF TokenParts, TokenIsKept
<1>2. CASE ~replaced'
  <2> USE <1>2
  <2>0. TypeOK
    BY DEF TokenInv, SourceInv
  <2>1. ASSUME NEW p \in Procs,
               \/ Fire(p) \/ Mkdir(p) \/ StatDir(p) \/ RmdirStale(p) \/ Remkdir(p)
               \/ StatOwn(p) \/ StatOwnFails(p) \/ Release(p) \/ Unlock(p)
               \/ (\E k \in Locks : Beat(p, k) \/ Touch(p, k))
               \/ Refuse(p) \/ Close(p)
        PROVE  TokenParts'
    <3> USE DEF Fire, Mkdir, StatDir, RmdirStale, Remkdir, StatOwn, StatOwnFails, Release,
            Unlock, Beat, Touch, Refuse, Close, TakeDir, IsContended, Released, EndRun,
            ExcuseLastSave
    <3>1. UNCHANGED <<file, memory, doubtful>> /\ excused \subseteq excused'
      BY <2>1
    <3>2. WriteFits /\ LastSaveFits
      BY <3>1 DEF TokenInv, TokenParts
    <3>3. /\ pc \in [Procs -> PCs] /\ attempt \in [Procs -> 0..LockAttempts]
          /\ life \in [Procs -> {"open", "closing", "saving", "shut", "dead"}]
          /\ which \in [Procs -> Locks] /\ pending[p] \in Token \cup {None}
      BY <2>0 DEF TypeOK
    <3>4. \A q \in Procs : \/ pc'[q] = pc[q]
                            \/ /\ pc[q] \notin Writing \cup {"answer"}
                               /\ pc'[q] \notin Writing \cup {"answer", "refresh"}
      BY <2>1, <3>3 DEF Writing
    <3>5. \A q \in Procs : pc'[q] \in Acquiring => attempt'[q] # 0
      <4>1. CASE Release(p) \/ Unlock(p)
        <5> HIDE DEF EndRun
        <5>1. EndRun(p) => pc' = [pc EXCEPT ![p] = "idle"] /\ attempt' = [attempt EXCEPT ![p] = 0]
          BY DEF EndRun
        <5> QED
          BY <4>1, <3>2, <3>3, <5>1 DEF Acquiring, LastSaveFits, Locks
      <4>2. CASE ~(Release(p) \/ Unlock(p))
        <5>1. CASE Fire(p) \/ Refuse(p) \/ Close(p) \/ StatOwn(p) \/ StatOwnFails(p)
          BY <5>1, <3>2, <3>3 DEF Acquiring, LastSaveFits
        <5>2. CASE ~(Fire(p) \/ Refuse(p) \/ Close(p) \/ StatOwn(p) \/ StatOwnFails(p))
          <6>1. attempt' = attempt /\ \A q \in Procs : pc'[q] = pc[q] \/ pc[q] \in Acquiring
            BY <2>1, <4>2, <5>2, <3>3 DEF Acquiring
          <6> QED
            BY <3>2, <6>1 DEF LastSaveFits
        <5> QED
          BY <5>1, <5>2
      <4> QED
        BY <4>1, <4>2
    <3>6. \A q \in Procs : LastSaveEnds(q)' => pending[q] \in {None} \cup excused'
      <4>1. CASE Release(p) \/ Unlock(p)
        <5> HIDE DEF EndRun
        <5>1. EndRun(p) => pc' = [pc EXCEPT ![p] = "idle"]
          BY DEF EndRun
        <5> QED
          <6>1. CASE EndRun(p)
            <7>1. \A q \in Procs \ {p} : pc'[q] = pc[q] /\ life'[q] = life[q] /\ attempt'[q] = attempt[q]
              BY <3>3, <6>1 DEF EndRun
            <7> QED
              BY <3>1, <3>2, <3>3, <5>1, <6>1, <7>1 DEF LastSaveFits, LastSaveEnds
          <6>2. CASE ~EndRun(p)
            <7>1. UNCHANGED <<life, attempt>> /\ pc[p] \in {"release", "unlock"}
              BY <4>1, <6>2
            <7>2. \A q \in Procs \ {p} : pc'[q] = pc[q]
              BY <4>1, <3>3, <6>2
            <7> QED
              BY <3>1, <3>2, <7>1, <7>2 DEF LastSaveFits, LastSaveEnds
          <6> QED
            BY <6>1, <6>2
      <4>2. CASE ~(Release(p) \/ Unlock(p))
        <5>1. CASE StatOwnFails(p)
          BY <5>1, <3>1, <3>2, <3>3 DEF LastSaveFits, LastSaveEnds
        <5>2. CASE Refuse(p) \/ Close(p)
          BY <5>2, <3>1, <3>2, <3>3 DEF LastSaveFits, LastSaveEnds, WriteFits
        <5>3. CASE ~(StatOwnFails(p) \/ Refuse(p) \/ Close(p))
          BY <2>1, <4>2, <5>3, <3>1, <3>2, <3>3 DEF Acquiring, LastSaveFits, LastSaveEnds
        <5> QED
          BY <5>1, <5>2, <5>3
      <4> QED
        BY <4>1, <4>2
    <3>7. \A q \in Procs : life'[q] = "shut" =>
                               life[q] = "shut" \/ pending[q] \in {None} \cup excused'
      BY <2>1, <3>1, <3>2, <3>3 DEF Acquiring, LastSaveFits, LastSaveEnds
    <3> QED
      BY <3>1, <3>4, <3>5, <3>6, <3>7, QuietKeeps
  <2>2. ASSUME NEW p \in Procs, Contended(p) \/ SavingStep(p) \/ LifeStep(p)
        PROVE  TokenParts'
    <3>1. ~Revoke(p)
      BY DEF Revoke
    <3> QED
      BY <2>1, <2>2, <3>1, ContendedKeeps, ReadKeeps, GrantKeeps, LoseAnswerKeeps, AnswerKeeps,
         TruncateKeeps, WriteLandsKeeps, WriteFailsKeeps, WrittenKeeps, CloseTailKeeps, CrashKeeps
         DEF SavingStep, LifeStep
  <2>3. CASE (\E k \in Locks : Lapse(k)) \/ UNCHANGED vars
    <3>1. UNCHANGED <<file, memory, doubtful, excused, pc, life, attempt>>
      BY <2>3 DEF Lapse
    <3>2. LastSaveFits
      BY <3>1 DEF TokenInv, TokenParts
    <3>3. /\ \A q \in Procs : pc'[q] \in Acquiring => attempt'[q] # 0
          /\ \A q \in Procs : LastSaveEnds(q)' => pending[q] \in {None} \cup excused'
      BY <3>1, <3>2 DEF LastSaveFits, LastSaveEnds
    <3> QED
      BY <3>1, <3>3, QuietKeeps
  <2>4. CASE HostRefresh \/ HostSave \/ Relogin
    <3>1. ~Relogin
      BY DEF Relogin
    <3> QED
      BY <2>4, <3>1, HostRefreshKeeps, HostSaveKeeps
  <2> QED
    BY <2>1, <2>2, <2>3, <2>4 DEF Next, LockStep, SourceStep, SavingStep, LifeStep
<1> QED
  BY <1>1, <1>2

-----------------------------------------------------------------------------
(* The theorems                                                            *)

\* Every step keeps what holds of a source by itself.
LEMMA StepKeepsSource ==
    ASSUME SourceInv, [Next]_vars
    PROVE  SourceInv'
<1>1. ASSUME NEW p \in Procs, TakingStep(p) \/ SavingStep(p) \/ LifeStep(p)
      PROVE  SourceInv'
  BY <1>1, TakingKeeps, SavingKeeps, LifeKeeps
<1>2. CASE (\E k \in Locks : Lapse(k)) \/ HostRefresh \/ HostSave \/ Relogin
  BY <1>2, WorldKeeps
<1>3. CASE UNCHANGED vars
  BY <1>3 DEF SourceInv, TypeOK, InHandFits, LifeFits, PendingIsRetried
<1> QED
  BY <1>1, <1>2, <1>3 DEF Next, LockStep, SourceStep, TakingStep, SavingStep, LifeStep

\* The source by itself, in every state.
LEMMA SourceInvariant == Spec => []SourceInv
<1>1. Init => SourceInv
  <2> SUFFICES ASSUME Init PROVE SourceInv
    OBVIOUS
  <2>1. Live(1) \in Token
    BY DEF Init, Live, Token, Logins
  <2>2. latest \in [Logins -> Nat]
    BY DEF Init
  <2>3. TypeOK
    <3> HIDE DEF Live, Token
    <3>1. /\ disk \in Token /\ tokens \in [Procs -> Token] /\ flavor \in Flavors
          /\ pc \in [Procs -> PCs] /\ attempt \in [Procs -> 0..LockAttempts]
      BY <2>1, HostOAuthAssumption DEF Init, PCs
    <3>2. /\ timer \in [Procs -> BOOLEAN] /\ abandoned \in [Procs -> BOOLEAN]
          /\ wroteTo \in [Procs -> BOOLEAN] /\ which \in [Procs -> Locks]
          /\ held = {} /\ compromised = {} /\ beat = {}
      BY DEF Init, Locks
    <3>3. /\ life \in [Procs -> {"open", "closing", "saving", "shut", "dead"}]
          /\ pending \in [Procs -> Token \cup {None}] /\ inHand \in [Procs -> Token \cup {None}]
          /\ dir \in [Locks -> Directory \cup {None}]
      BY DEF Init
    <3>4. /\ replaced = FALSE /\ lapsed = FALSE /\ host = None /\ doubtful = {} /\ excused = {}
          /\ incidents \in 0..MaxIncidents[flavor]
      BY HostOAuthAssumption DEF Init
    <3> QED
      BY <2>2, <3>1, <3>2, <3>3, <3>4 DEF TypeOK
  <2>4. InHandFits /\ LifeFits /\ PendingIsRetried
    BY DEF Init, InHandFits, LifeFits, PendingIsRetried, Writing
  <2> QED
    BY <2>3, <2>4 DEF SourceInv
<1> QED
  BY <1>1, StepKeepsSource, PTL DEF Spec

\* Every state of the model has the types its code gives it.
THEOREM TypeCorrect == Spec => []TypeOK
<1>1. SourceInv => TypeOK
  BY DEF SourceInv
<1> QED
  BY <1>1, SourceInvariant, PTL

\* A token that waits for its write-back has an attempt planned or under way
\* (runRefreshNow, scheduleIn, close), whatever fails.
THEOREM PendingRetried == Spec => []PendingIsRetried
<1>1. SourceInv => PendingIsRetried
  BY DEF SourceInv
<1> QED
  BY <1>1, SourceInvariant, PTL

\* A source whose file was replaced starts no write (abandon,
\* refreshUnderLock, persistPendingWriteBack).
THEOREM RevokedIsSilent == Spec => RevokedStartsNoWrite
<1> DEFINE A == \A p \in Procs : abandoned[p] /\ pc[p] # "write" => pc'[p] # "write"
<1>1. SourceInv /\ [Next]_vars => [A]_vars
  <2> SUFFICES ASSUME SourceInv, Next, NEW p \in Procs, abandoned[p], pc[p] # "write"
               PROVE  pc'[p] # "write"
    OBVIOUS
  <2>0. pending[p] = None /\ pc \in [Procs -> PCs]
    BY DEF SourceInv, LifeFits, TypeOK
  <2>1. ASSUME NEW q \in Procs, TakingStep(q) \/ LifeStep(q)
        PROVE  pc'[p] # "write"
    BY <2>0, <2>1 DEF TakingStep, LifeStep, Fire, Mkdir, StatDir, RmdirStale, Remkdir, StatOwn,
       StatOwnFails, Contended, Release, Unlock, Beat, Touch, CloseTail, Close, Revoke, Crash, EndRun,
       TakeDir, IsContended, Released
  <2>2. ASSUME NEW q \in Procs, SavingStep(q)
        PROVE  pc'[p] # "write"
    BY <2>0, <2>2 DEF SavingStep, Read, Grant, Refuse, LoseAnswer, Answer, Truncate, WriteLands,
       WriteFails, Written
  <2>3. CASE (\E k \in Locks : Lapse(k)) \/ HostRefresh \/ HostSave \/ Relogin
    BY <2>3 DEF Lapse, HostRefresh, HostSave, Relogin
  <2> QED
    BY <2>1, <2>2, <2>3 DEF Next, LockStep, SourceStep, TakingStep, SavingStep, LifeStep
<1> QED
  BY <1>1, SourceInvariant, PTL DEF Spec, RevokedStartsNoWrite

\* The refresh token the server accepts is lost only by a crash, an answer
\* that never arrives, a last save of close() that fails, or the retry of a
\* write that failed after its text was in the file: for any number of
\* sessions and refreshes, every way in which a write can fail, lapsing and
\* stolen locks, and a host that refreshes on its own.
THEOREM TokenKept == Spec => []TokenIsKept
<1>1. Init => TokenParts
  <2> SUFFICES ASSUME Init PROVE TokenParts
    OBVIOUS
  <2>1. GensFit
    BY DEF Init, GensFit, Live, Logins
  <2>2. SoleHolder /\ WriteFits /\ PendingFits /\ LastSaveFits
    BY DEF Init, PendingFits, SoleHolder, WriteFits, LastSaveFits, LastSaveEnds, Acquiring, Unsaved, Writing
  <2> QED
    BY <2>1, <2>2 DEF Init, TokenParts, TokenIsKept
<1>2. SourceInv /\ TokenParts /\ [Next]_vars => TokenParts'
  BY StepKeepsToken DEF TokenInv
<1>3. TokenParts => TokenIsKept
  BY DEF TokenParts
<1> QED
  BY <1>1, <1>2, <1>3, SourceInvariant, PTL DEF Spec
==============================================================================
