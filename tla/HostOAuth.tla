----------------------------- MODULE HostOAuth -----------------------------
(***************************************************************************)
(* The sources that hold the host's OAuth credentials                      *)
(* (network/host_oauth_source.ts, claude_oauth_source.ts,                  *)
(* codex_oauth_source.ts, codex_auth_watch.ts) and the directory locks     *)
(* they refresh under (lib/oauth_refresh_lock.ts).                         *)
(*                                                                         *)
(* Every nas session is a process with a source of its own; all of them    *)
(* share one credentials file and its lock: one directory for Codex, two   *)
(* for Claude, taken one after the other.  The server accepts a refresh    *)
(* token once and answers with the next one, so a token that is neither in *)
(* the file nor in a memory that will be written back logs the host out.   *)
(*                                                                         *)
(* A step is the code between two awaits.  Time is left out: a timer may   *)
(* fire at any moment, and a lock directory may lapse (no new mtime within *)
(* STALE_MS) at any moment, which covers a holder that is suspended.       *)
(***************************************************************************)
EXTENDS Integers, FiniteSets

CONSTANTS
    Procs,          \* the nas sessions that use the login
    Flavors,        \* the agents checked: a subset of {"claude", "codex"}
    LockAttempts,   \* LOCK_ATTEMPTS of the source
    MaxGen,         \* bound, per agent and login: the last generation of its tokens
    WriteFailures,  \* how a write may fail: a subset of WriteFailureKinds
    MaxIncidents,   \* bound, per agent: how many incidents happen
    None            \* no token, no directory

\* A write fails before it changed the file, after it was truncated, or
\* after the new text was in place (fsync of the file or its directory).
WriteFailureKinds == {"before", "torn", "after"}

Locks == {"current", "legacy"}  \* "legacy": the older one, for Claude only
Logins == {1, 2}                \* 2 is the login that replaces the file
Token == [login : Logins, gen : Nat]
Torn == [login |-> 0, gen |-> 0]    \* text that does not parse

ASSUME HostOAuthAssumption ==
    /\ IsFiniteSet(Procs)
    /\ Flavors \subseteq {"claude", "codex"}
    /\ LockAttempts \in Nat \ {0}
    /\ MaxGen \in [Flavors -> [Logins -> Nat]]
    /\ WriteFailures \subseteq WriteFailureKinds
    /\ MaxIncidents \in [Flavors -> Nat]
    /\ None \notin Token

VARIABLES
    flavor,      \* the agent: decides how the file is written and watched
    latest,      \* the server: the one generation of a login it accepts
    disk,        \* the token in the credentials file, or Torn
    replaced,    \* whether the file was replaced by another login
    host,        \* the token the host's own agent is about to save, or None
    pc,          \* per source: where its refreshUnderLock stands
    life,        \* per source: "open", "closing", "saving", "shut" or "dead"
    timer,       \* per source: whether cancelScheduled is set
    tokens,      \* per source: this.tokens
    pending,     \* per source: this.pendingWriteBack, or None
    inHand,      \* per source: the token a step got or is about to write
    attempt,     \* per source: attempt of acquireLockOrAdopt
    abandoned,   \* per source: this.abandoned
    wroteTo,     \* per source: value of replaced when the write opened the file
    which,       \* per source: the lock that the steps of its pc are about
    dir,         \* per lock: its directory, None or [known, stale]
    held,        \* the sources and locks that acquireDirLock has returned for
    compromised, \* the sources and locks whose compromised is set
    beat,        \* the sources and locks whose mtime update passed its stat
    incidents,   \* how many failed writes, lost answers, crashes, new logins
                 \* and lapses of a lock that is held there were
    lapsed,      \* history: whether a lock directory ever lapsed
    doubtful,    \* history: tokens whose write failed after it was in the file
    excused      \* history: tokens whose loss has one of the excuses below

memory == <<tokens, pending, inHand, abandoned, wroteTo>>
lock == <<which, dir, held, compromised, beat, lapsed>>
file == <<disk, replaced, host, latest>>
vars == <<flavor, file, pc, life, timer, memory, attempt, lock, incidents, doubtful, excused>>

PCs == {"idle", "mkdir", "stat", "rmdir", "remkdir", "own", "contended",
        "read", "refresh", "answer", "write", "torn", "written",
        "release", "unlock"}

\* A directory: the sources whose ino and lastMtimeMs are what a stat of it
\* returns, and whether its mtime is older than STALE_MS.  A mkdir or a utimes
\* gives it a pair of inode and mtime that nobody remembers.
Directory == [known : SUBSET Procs, stale : BOOLEAN]
Fresh(known) == [known |-> known, stale |-> FALSE]

Live(l) == [login |-> l, gen |-> latest[l]]

\* inPlace: the write truncates the file and fills it (overwriteFileInPlace);
\* otherwise a new file is renamed over it (replaceFileAtomically).
InPlace == flavor = "codex"

TypeOK ==
    /\ flavor \in Flavors
    /\ latest \in [Logins -> Nat]
    /\ disk \in Token \cup {Torn}
    /\ replaced \in BOOLEAN
    /\ host \in Token \cup {None}
    /\ pc \in [Procs -> PCs]
    /\ life \in [Procs -> {"open", "closing", "saving", "shut", "dead"}]
    /\ timer \in [Procs -> BOOLEAN]
    /\ tokens \in [Procs -> Token]
    /\ pending \in [Procs -> Token \cup {None}]
    /\ inHand \in [Procs -> Token \cup {None}]
    /\ attempt \in [Procs -> 0..LockAttempts]
    /\ abandoned \in [Procs -> BOOLEAN]
    /\ wroteTo \in [Procs -> BOOLEAN]
    /\ which \in [Procs -> Locks]
    /\ dir \in [Locks -> Directory \cup {None}]
    /\ held \subseteq Procs \X Locks
    /\ compromised \subseteq Procs \X Locks
    /\ beat \subseteq Procs \X Locks
    /\ incidents \in 0..MaxIncidents[flavor]
    /\ lapsed \in BOOLEAN
    /\ doubtful \subseteq Token
    /\ excused \subseteq Token

Init ==
    /\ flavor \in Flavors
    /\ latest = [l \in Logins |-> IF l = 1 THEN 1 ELSE 0]
    /\ disk = Live(1)
    /\ replaced = FALSE
    /\ host = None
    /\ pc = [p \in Procs |-> "idle"]
    /\ life = [p \in Procs |-> "open"]
    /\ timer = [p \in Procs |-> TRUE]
    /\ tokens = [p \in Procs |-> disk]
    /\ pending = [p \in Procs |-> None]
    /\ inHand = [p \in Procs |-> None]
    /\ attempt = [p \in Procs |-> 0]
    /\ abandoned = [p \in Procs |-> FALSE]
    /\ wroteTo = [p \in Procs |-> FALSE]
    /\ which = [p \in Procs |-> "current"]
    /\ dir = [k \in Locks |-> None]
    /\ held = {}
    /\ compromised = {}
    /\ beat = {}
    /\ incidents = 0
    /\ lapsed = FALSE
    /\ doubtful = {}
    /\ excused = {}

-----------------------------------------------------------------------------
(* Schedule of a source                                                    *)

\* Something goes wrong n times.
Incident(n) == incidents' = incidents + n /\ incidents' <= MaxIncidents[flavor]

Goto(p, from, to) == pc[p] = from /\ pc' = [pc EXCEPT ![p] = to]

\* onScheduledFire with refreshNow: a timer before the expiry date only arms
\* itself again, which changes nothing here.
Fire(p) ==
    /\ timer[p]
    /\ Goto(p, "idle", "mkdir")
    /\ pending[p] # None \/ disk # tokens[p] \/ latest[tokens[p].login] < MaxGen[flavor][tokens[p].login]
    /\ timer' = [timer EXCEPT ![p] = FALSE]
    /\ attempt' = [attempt EXCEPT ![p] = 1]
    /\ UNCHANGED <<flavor, file, life, memory, lock, incidents, doubtful, excused>>

\* Seeded fault: an attempt that ends plans no other one.
EndRunWithoutRetry(p) ==
    /\ pc' = [pc EXCEPT ![p] = "idle"]
    /\ life' = [life EXCEPT ![p] = IF @ = "saving" THEN "shut" ELSE @]
    /\ attempt' = [attempt EXCEPT ![p] = 0]
    /\ UNCHANGED timer

\* The end of refreshUnderLock: runRefreshNow plans the next attempt, before
\* the expiry date or in RETRY_DELAY_MS, unless the source is closed; the
\* last attempt of close() ends the source either way.
EndRun(p) ==
    /\ pc' = [pc EXCEPT ![p] = "idle"]
    /\ timer' = [timer EXCEPT ![p] = life[p] = "open" /\ ~abandoned[p]]
    /\ life' = [life EXCEPT ![p] = IF @ = "saving" THEN "shut" ELSE @]
    /\ attempt' = [attempt EXCEPT ![p] = 0]

-----------------------------------------------------------------------------
(* The excuses                                                             *)

\* The last attempt of close() cannot save: nobody will write the token.
ExcuseLastSave(p) ==
    excused' = excused \cup (IF life[p] = "saving" THEN {pending[p]} \ {None} ELSE {})

\* The retry of a write that had reached the file before it failed replaces
\* what others have put there since.
ExcuseRewrite(p) ==
    excused' = excused \cup
        (IF inHand[p] \in doubtful THEN {disk} \ {inHand[p], Torn} ELSE {})

-----------------------------------------------------------------------------
(* The directory locks                                                     *)

\* mkdir succeeds: the directory is there, with an inode and an mtime.
TakeDir(p) ==
    /\ dir[which[p]] = None
    /\ pc' = [pc EXCEPT ![p] = "own"]
    /\ dir' = [dir EXCEPT ![which[p]] = Fresh({})]

\* LockContendedError.  When it is the second of Claude's locks that is held,
\* acquireClaudeRefreshLock gives back the first.
IsContended(p) ==
    /\ pc' = [pc EXCEPT ![p] = IF which[p] = "legacy" THEN "release" ELSE "contended"]
    /\ which' = [which EXCEPT ![p] = "current"]

\* createLockDir, its first mkdir.
Mkdir(p) ==
    /\ pc[p] = "mkdir"
    /\ \/ TakeDir(p)
       \/ /\ dir[which[p]] # None
          /\ pc' = [pc EXCEPT ![p] = "stat"]
          /\ UNCHANGED dir
    /\ UNCHANGED <<flavor, file, life, timer, memory, attempt, which, held, compromised,
                   beat, lapsed, incidents, doubtful, excused>>

\* createLockDir, the stat of the directory that is in the way.
StatDir(p) ==
    /\ pc[p] = "stat"
    /\ IF dir[which[p]] = None \/ dir[which[p]].stale
       THEN pc' = [pc EXCEPT ![p] = "rmdir"] /\ UNCHANGED which
       ELSE IsContended(p)
    /\ UNCHANGED <<flavor, file, life, timer, memory, attempt, dir, held, compromised,
                   beat, lapsed, incidents, doubtful, excused>>

\* createLockDir, the rmdir: it takes whatever directory is there by now.
RmdirStale(p) ==
    /\ Goto(p, "rmdir", "remkdir")
    /\ dir' = [dir EXCEPT ![which[p]] = None]
    /\ UNCHANGED <<flavor, file, life, timer, memory, attempt, which, held, compromised,
                   beat, lapsed, incidents, doubtful, excused>>

\* createLockDir, the second mkdir.
Remkdir(p) ==
    /\ pc[p] = "remkdir"
    /\ \/ TakeDir(p) /\ UNCHANGED which
       \/ dir[which[p]] # None /\ IsContended(p) /\ UNCHANGED dir
    /\ UNCHANGED <<flavor, file, life, timer, memory, attempt, held, compromised,
                   beat, lapsed, incidents, doubtful, excused>>

\* acquireDirLock: the stat that tells the holder its inode and mtime; it may
\* read another's directory.  Claude's second lock is taken after the first;
\* acquireLockOrAdopt returns with the last one.
StatOwn(p) ==
    /\ pc[p] = "own"
    /\ dir[which[p]] # None
    /\ dir' = [dir EXCEPT ![which[p]].known = @ \cup {p}]
    /\ held' = held \cup {<<p, which[p]>>}
    /\ IF flavor = "claude" /\ which[p] = "current"
       THEN /\ pc' = [pc EXCEPT ![p] = "mkdir"]
            /\ which' = [which EXCEPT ![p] = "legacy"]
            /\ UNCHANGED attempt
       ELSE /\ pc' = [pc EXCEPT ![p] = "read"]
            /\ attempt' = [attempt EXCEPT ![p] = 0]
            /\ UNCHANGED which
    /\ UNCHANGED <<flavor, file, life, timer, memory, compromised, beat, lapsed,
                   incidents, doubtful, excused>>

\* The same stat finds no directory and throws: the attempt is over, once
\* Claude's first lock is given back.
StatOwnFails(p) ==
    /\ pc[p] = "own"
    /\ dir[which[p]] = None
    /\ IF which[p] = "current"
       THEN EndRun(p)
       ELSE /\ pc' = [pc EXCEPT ![p] = "release"]
            /\ attempt' = [attempt EXCEPT ![p] = 0]
            /\ UNCHANGED <<timer, life>>
    /\ which' = [which EXCEPT ![p] = "current"]
    /\ ExcuseLastSave(p)
    /\ UNCHANGED <<flavor, file, memory, dir, held, compromised, beat, lapsed, incidents,
                   doubtful>>

StillOwned(p, k) == dir[k] # None /\ p \in dir[k].known

\* The interval of acquireDirLock, up to its stat; release() clears it.
Beat(p, k) ==
    /\ <<p, k>> \in held
    /\ ~(pc[p] \in {"release", "unlock"} /\ which[p] = k)
    /\ <<p, k>> \notin compromised \cup beat
    /\ IF StillOwned(p, k)
       THEN beat' = beat \cup {<<p, k>>} /\ UNCHANGED compromised
       ELSE compromised' = compromised \cup {<<p, k>>} /\ UNCHANGED beat
    /\ UNCHANGED <<flavor, file, pc, life, timer, memory, attempt, which, dir, held,
                   lapsed, incidents, doubtful, excused>>

\* The utimes and the stat that reads back what was stored: the directory may
\* be another's by now, or gone (then nothing changes).
Touch(p, k) ==
    /\ <<p, k>> \in beat
    /\ beat' = beat \ {<<p, k>>}
    /\ dir' = [dir EXCEPT ![k] = IF @ = None THEN None ELSE Fresh({p})]
    /\ UNCHANGED <<flavor, file, pc, life, timer, memory, attempt, which, held, compromised,
                   lapsed, incidents, doubtful, excused>>

\* The release of a lock is done.  Claude's first lock follows the second;
\* an attempt that gave it back because the second was held is contended.
Released(p) ==
    /\ held' = held \ {<<p, which[p]>>}
    /\ compromised' = compromised \ {<<p, which[p]>>}
    /\ which' = [which EXCEPT ![p] = "current"]
    /\ \/ which[p] = "current" /\ attempt[p] = 0 /\ EndRun(p)
       \/ /\ which[p] = "legacy" \/ attempt[p] # 0
          /\ pc' = [pc EXCEPT ![p] = IF which[p] = "legacy" THEN "release" ELSE "contended"]
          /\ UNCHANGED <<timer, life, attempt>>

\* release: it waits for the update under way, then looks whose lock it is.
Release(p) ==
    /\ pc[p] = "release"
    /\ <<p, which[p]>> \notin beat
    /\ IF <<p, which[p]>> \notin compromised /\ StillOwned(p, which[p])
       THEN /\ pc' = [pc EXCEPT ![p] = "unlock"]
            /\ UNCHANGED <<timer, life, attempt, which, held, compromised>>
       ELSE Released(p)
    /\ UNCHANGED <<flavor, file, memory, dir, beat, lapsed, incidents, doubtful, excused>>

\* release, its rmdir; a failure is logged and forgotten.
Unlock(p) ==
    /\ pc[p] = "unlock"
    /\ Released(p)
    /\ dir' = [dir EXCEPT ![which[p]] = None]
    /\ UNCHANGED <<flavor, file, memory, beat, lapsed, incidents, doubtful, excused>>

\* Seeded fault: one attempt more than LOCK_ATTEMPTS.
ContendedOnceMore(p) ==
    /\ pc[p] = "contended"
    /\ pending[p] # None \/ disk = tokens[p]
    /\ attempt[p] <= LockAttempts
    /\ pc' = [pc EXCEPT ![p] = "mkdir"]
    /\ attempt' = [attempt EXCEPT ![p] = @ + 1]
    /\ UNCHANGED <<flavor, file, life, timer, memory, lock, incidents, doubtful, excused>>

\* acquireLockOrAdopt after a LockContendedError: adopt what another process
\* saved, unless a write-back waits; sleep and try again; give up.
Contended(p) ==
    /\ pc[p] = "contended"
    /\ \/ /\ pending[p] = None
          /\ disk # tokens[p]
          /\ EndRun(p)
          /\ tokens' = [tokens EXCEPT ![p] = IF disk = Torn THEN @ ELSE disk]
          /\ UNCHANGED excused
       \/ /\ pending[p] # None \/ disk = tokens[p]
          /\ IF attempt[p] < LockAttempts
             THEN /\ pc' = [pc EXCEPT ![p] = "mkdir"]
                  /\ attempt' = [attempt EXCEPT ![p] = @ + 1]
                  /\ UNCHANGED <<timer, life, excused>>
             ELSE EndRun(p) /\ ExcuseLastSave(p)
          /\ UNCHANGED tokens
    /\ UNCHANGED <<flavor, file, pending, inHand, abandoned, wroteTo, lock, incidents, doubtful>>

-----------------------------------------------------------------------------
(* refreshUnderLock with the lock held                                     *)

\* The one read of the file: retry the write-back that waits, else adopt the
\* token another process saved, else ask for a new one.  Text that does not
\* parse ends the attempt: apply needs the old text as well.
Read(p) ==
    /\ pc[p] = "read"
    /\ \/ /\ disk = Torn
          /\ pc' = [pc EXCEPT ![p] = "release"]
          /\ ExcuseLastSave(p)
          /\ UNCHANGED <<tokens, inHand>>
       \/ /\ disk # Torn
          /\ pending[p] # None
          /\ pc' = [pc EXCEPT ![p] = "write"]
          /\ inHand' = [inHand EXCEPT ![p] = pending[p]]
          /\ UNCHANGED <<tokens, excused>>
       \/ /\ disk # Torn
          /\ pending[p] = None
          /\ pc' = [pc EXCEPT ![p] = IF disk = tokens[p] THEN "refresh" ELSE "release"]
          /\ tokens' = [tokens EXCEPT ![p] = disk]
          /\ UNCHANGED <<inHand, excused>>
    /\ UNCHANGED <<flavor, file, life, timer, pending, abandoned, wroteTo, attempt,
                   lock, incidents, doubtful>>

\* The server takes the refresh token and issues the next one.  (external)
Grant(p) ==
    LET l == tokens[p].login
    IN  /\ tokens[p] = Live(l)
        /\ latest[l] < MaxGen[flavor][l]
        /\ Goto(p, "refresh", "answer")
        /\ latest' = [latest EXCEPT ![l] = @ + 1]
        /\ inHand' = [inHand EXCEPT ![p] = [login |-> l, gen |-> latest[l] + 1]]
        /\ UNCHANGED <<flavor, disk, replaced, host, life, timer, tokens, pending,
                       abandoned, wroteTo, attempt, lock, incidents, doubtful, excused>>

\* The refresh throws and the server issued nothing: the token is used up, or
\* the request did not arrive.  (external)
Refuse(p) ==
    /\ Goto(p, "refresh", "release")
    /\ UNCHANGED <<flavor, file, life, timer, memory, attempt, lock, incidents, doubtful, excused>>

\* The refresh throws although the server issued a token: the answer came
\* after REFRESH_TIMEOUT_MS or was cut off.  (external)
LoseAnswer(p) ==
    /\ Goto(p, "answer", "release")
    /\ excused' = excused \cup {inHand[p]}
    /\ inHand' = [inHand EXCEPT ![p] = None]
    /\ Incident(1)
    /\ UNCHANGED <<flavor, file, life, timer, tokens, pending, abandoned, wroteTo,
                   attempt, lock, doubtful>>

\* Seeded fault: abandoned is not looked at again after the refresh.
AnswerAfterAbandon(p) ==
    /\ Goto(p, "answer", "write")
    /\ tokens' = [tokens EXCEPT ![p] = inHand[p]]
    /\ pending' = [pending EXCEPT ![p] = inHand[p]]
    /\ UNCHANGED <<flavor, file, life, timer, inHand, abandoned, wroteTo, attempt,
                   lock, incidents, doubtful, excused>>

\* The refresh returns: what it got is dropped when the source was abandoned
\* meanwhile; otherwise it is served from memory, waits for its write-back,
\* and the write begins, whether or not the lock was lost.
Answer(p) ==
    /\ IF abandoned[p]
       THEN /\ Goto(p, "answer", "release")
            /\ inHand' = [inHand EXCEPT ![p] = None]
            /\ UNCHANGED <<tokens, pending>>
       ELSE /\ Goto(p, "answer", "write")
            /\ tokens' = [tokens EXCEPT ![p] = inHand[p]]
            /\ pending' = [pending EXCEPT ![p] = inHand[p]]
            /\ UNCHANGED inHand
    /\ UNCHANGED <<flavor, file, life, timer, abandoned, wroteTo, attempt, lock,
                   incidents, doubtful, excused>>

\* overwriteFileInPlace: open the file that is there and truncate it.
Truncate(p) ==
    /\ InPlace
    /\ Goto(p, "write", "torn")
    /\ disk' = Torn
    /\ wroteTo' = [wroteTo EXCEPT ![p] = replaced]
    /\ ExcuseRewrite(p)
    /\ UNCHANGED <<flavor, replaced, host, latest, life, timer, tokens, pending,
                   inHand, abandoned, attempt, lock, incidents, doubtful>>

\* The new text is in the file: filled in place (a file replaced since it was
\* opened is not reached), or renamed over whatever is there.
WriteLands(p) ==
    /\ Goto(p, IF InPlace THEN "torn" ELSE "write", "written")
    /\ disk' = IF InPlace /\ wroteTo[p] # replaced THEN disk ELSE inHand[p]
    /\ wroteTo' = [wroteTo EXCEPT ![p] = FALSE]
    /\ ExcuseRewrite(p)
    /\ UNCHANGED <<flavor, replaced, host, latest, life, timer, tokens, pending,
                   inHand, abandoned, attempt, lock, incidents, doubtful>>

\* writeCredentials throws: pendingWriteBack stays for the next attempt.
WriteFails(p) ==
    /\ \/ pc[p] = "write" /\ "before" \in WriteFailures
       \/ pc[p] = "torn" /\ "torn" \in WriteFailures
       \/ pc[p] = "written" /\ "after" \in WriteFailures
    /\ pc' = [pc EXCEPT ![p] = "release"]
    /\ inHand' = [inHand EXCEPT ![p] = None]
    /\ Incident(1)
    /\ doubtful' = doubtful \cup (IF pc[p] = "written" THEN {inHand[p]} ELSE {})
    /\ ExcuseLastSave(p)
    /\ UNCHANGED <<flavor, file, life, timer, tokens, pending, abandoned, wroteTo,
                   attempt, lock>>

\* persistPendingWriteBack after the write.
Written(p) ==
    /\ Goto(p, "written", "release")
    /\ tokens' = [tokens EXCEPT ![p] = inHand[p]]
    /\ pending' = [pending EXCEPT ![p] = None]
    /\ inHand' = [inHand EXCEPT ![p] = None]
    /\ UNCHANGED <<flavor, file, life, timer, abandoned, wroteTo, attempt, lock,
                   incidents, doubtful, excused>>

-----------------------------------------------------------------------------
(* The end of a source                                                     *)

\* close, up to its await of the refresh under way.
Close(p) ==
    /\ life[p] = "open"
    /\ life' = [life EXCEPT ![p] = "closing"]
    /\ timer' = [timer EXCEPT ![p] = FALSE]
    /\ UNCHANGED <<flavor, file, pc, memory, attempt, lock, incidents, doubtful, excused>>

\* Seeded fault: close does not save what waits.
CloseTailWithoutSave(p) ==
    /\ life[p] = "closing"
    /\ pc[p] = "idle"
    /\ life' = [life EXCEPT ![p] = "shut"]
    /\ pending' = [pending EXCEPT ![p] = IF abandoned[p] THEN None ELSE @]
    /\ UNCHANGED <<flavor, file, pc, timer, tokens, inHand, abandoned, wroteTo, attempt,
                   lock, incidents, doubtful, excused>>

\* close, the rest: one last attempt to save what waits.
CloseTail(p) ==
    /\ life[p] = "closing"
    /\ pc[p] = "idle"
    /\ IF pending[p] # None /\ ~abandoned[p]
       THEN /\ life' = [life EXCEPT ![p] = "saving"]
            /\ pc' = [pc EXCEPT ![p] = "mkdir"]
            /\ attempt' = [attempt EXCEPT ![p] = 1]
            /\ UNCHANGED pending
       ELSE /\ life' = [life EXCEPT ![p] = "shut"]
            /\ pending' = [pending EXCEPT ![p] = None]
            /\ UNCHANGED <<pc, attempt>>
    /\ UNCHANGED <<flavor, file, timer, tokens, inHand, abandoned, wroteTo, lock,
                   incidents, doubtful, excused>>

\* watchCodexAuthFile finds another file: revoke, which abandons the source.
\* The watch ends when the session closes.
Revoke(p) ==
    /\ flavor = "codex"
    /\ replaced
    /\ life[p] = "open"
    /\ ~abandoned[p]
    /\ abandoned' = [abandoned EXCEPT ![p] = TRUE]
    /\ timer' = [timer EXCEPT ![p] = FALSE]
    /\ pending' = [pending EXCEPT ![p] = None]
    /\ UNCHANGED <<flavor, file, pc, life, tokens, inHand, wroteTo, attempt, lock,
                   incidents, doubtful, excused>>

-----------------------------------------------------------------------------
(* The surroundings                                                        *)

\* The process dies: its memory is gone, its lock directory stays.
Crash(p) ==
    /\ life[p] \notin {"dead", "shut"}
    /\ life' = [life EXCEPT ![p] = "dead"]
    /\ pc' = [pc EXCEPT ![p] = "idle"]
    /\ timer' = [timer EXCEPT ![p] = FALSE]
    /\ excused' = excused \cup ({pending[p], inHand[p]} \ {None})
    /\ pending' = [pending EXCEPT ![p] = None]
    /\ inHand' = [inHand EXCEPT ![p] = None]
    /\ attempt' = [attempt EXCEPT ![p] = 0]
    /\ which' = [which EXCEPT ![p] = "current"]
    /\ held' = {h \in held : h[1] # p}
    /\ compromised' = {h \in compromised : h[1] # p}
    /\ beat' = {h \in beat : h[1] # p}
    /\ Incident(1)
    /\ UNCHANGED <<flavor, file, tokens, abandoned, wroteTo, dir, lapsed, doubtful>>

\* Whoever made the directory is dead, or has lost it.
Abandoned(k) ==
    \A p \in Procs :
        /\ ~(pc[p] = "own" /\ which[p] = k)
        /\ ~(<<p, k>> \in held /\ p \in dir[k].known)

\* The mtime of the directory is older than STALE_MS: its holder is dead, or
\* stopped for that long (an incident).
Lapse(k) ==
    /\ dir[k] # None
    /\ ~dir[k].stale
    /\ dir' = [dir EXCEPT ![k].stale = TRUE]
    /\ lapsed' = TRUE
    /\ Incident(IF Abandoned(k) THEN 0 ELSE 1)
    /\ UNCHANGED <<flavor, file, pc, life, timer, memory, attempt, which, held,
                   compromised, beat, doubtful, excused>>

\* The host's own Codex refreshes without this lock.  (external)
HostRefresh ==
    /\ flavor = "codex"
    /\ host = None
    /\ disk # Torn
    /\ disk = Live(disk.login)
    /\ latest[disk.login] < MaxGen[flavor][disk.login]
    /\ latest' = [latest EXCEPT ![disk.login] = @ + 1]
    /\ host' = [login |-> disk.login, gen |-> latest[disk.login] + 1]
    /\ UNCHANGED <<flavor, disk, replaced, pc, life, timer, memory, attempt, lock,
                   incidents, doubtful, excused>>

\* The host's own Codex saves the token it got.  (external)
HostSave ==
    /\ host # None
    /\ disk' = host
    /\ host' = None
    /\ UNCHANGED <<flavor, replaced, latest, pc, life, timer, memory, attempt,
                   lock, incidents, doubtful, excused>>

\* The user logs out and in: another file, with a token of another login.
\* Left out for Claude, whose sources adopt such a file like any other.
Relogin ==
    /\ flavor = "codex"
    /\ ~replaced
    /\ Incident(1)
    /\ replaced' = TRUE
    /\ latest' = [latest EXCEPT ![2] = 1]
    /\ disk' = [login |-> 2, gen |-> 1]
    /\ host' = None
    /\ UNCHANGED <<flavor, pc, life, timer, memory, attempt, lock, doubtful, excused>>

LockStep(p) ==
    \/ Mkdir(p) \/ StatDir(p) \/ RmdirStale(p) \/ Remkdir(p) \/ StatOwn(p)
    \/ StatOwnFails(p) \/ Contended(p) \/ Release(p) \/ Unlock(p)

SourceStep(p) ==
    \/ Read(p) \/ Grant(p) \/ Refuse(p) \/ Answer(p)
    \/ Truncate(p) \/ WriteLands(p) \/ Written(p) \/ CloseTail(p)

Next ==
    \/ \E p \in Procs :
        \/ Fire(p) \/ LockStep(p) \/ SourceStep(p)
        \/ \E k \in Locks : Beat(p, k) \/ Touch(p, k)
        \/ LoseAnswer(p) \/ WriteFails(p)
        \/ Close(p) \/ Revoke(p) \/ Crash(p)
    \/ \E k \in Locks : Lapse(k)
    \/ HostRefresh \/ HostSave \/ Relogin

Spec == Init /\ [][Next]_vars

-----------------------------------------------------------------------------
(* Properties                                                              *)

\* The refresh token the server accepts is never lost by the sources,
\* whatever the locks do and however a write fails: it is in the file, waits
\* for its write-back in a source that has not shut down, or is on its way
\* from the server or to the host's own save.  Only four things may lose it:
\* a crash; an answer that never arrives; a last attempt of close() that
\* cannot take the lock, read the file or write it; and the retry of a write
\* that failed although its text was in the file, which puts the older token
\* back (refreshUnderLock, persistPendingWriteBack, acquireLockOrAdopt, close).
TokenIsKept ==
    \/ replaced
    \/ Live(1) \in excused
    \/ Live(1) \in {disk, host}
    \/ \E p \in Procs :
        \/ pending[p] = Live(1) /\ life[p] # "shut"
        \/ pc[p] = "answer" /\ inHand[p] = Live(1)

\* A token that waits for its write-back is not forgotten: the source has an
\* attempt planned or under way, or is closing and will make its last one
\* (runRefreshNow, scheduleIn, close).
PendingIsRetried ==
    \A p \in Procs :
        pending[p] # None /\ life[p] # "shut" =>
            timer[p] \/ pc[p] # "idle" \/ life[p] = "closing"

\* Two sources never ask the server with the same refresh token at the same
\* time, as long as no lock directory was left without a new mtime for
\* STALE_MS (createLockDir; the comment on acquireCodexRefreshLock says that
\* the lock excludes the nas sessions from each other).
TokenUsedByOne ==
    \A p, q \in Procs :
        p # q /\ pc[p] = "refresh" /\ pc[q] = "refresh" /\ tokens[p] = tokens[q]
            => lapsed

\* A source whose file was replaced starts no write: neither a write-back
\* that waited, nor the answer of a refresh under way, nor the last attempt of
\* close (abandon, refreshUnderLock, persistPendingWriteBack, close).
RevokedStartsNoWrite ==
    [][\A p \in Procs : abandoned[p] /\ pc[p] # "write" => pc'[p] # "write"]_vars

=============================================================================
