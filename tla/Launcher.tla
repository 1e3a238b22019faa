------------------------------ MODULE Launcher ------------------------------
(***************************************************************************)
(* The self-host launcher: any number of launcher processes started for    *)
(* one data directory, the pid file that is to keep them apart, the        *)
(* session pepper they provision, and the server child that each of them   *)
(* supervises.  Files and processes behave as on a POSIX system: removing  *)
(* a file that somebody holds open succeeds, and a killed launcher leaves  *)
(* its files and its child behind.  A process id is not used twice.        *)
(***************************************************************************)
EXTENDS Naturals, FiniteSets

CONSTANTS Launchers,               \* the launcher processes that may be started
          MinBackoff, MaxBackoff   \* of the supervisor

ASSUME LauncherAssumption ==
    /\ IsFiniteSet(Launchers)
    /\ Launchers \cap {"nobody", "none", "absent", "short", "old"} = {}
    /\ MinBackoff \in Nat \ {0} /\ MaxBackoff \in Nat /\ MinBackoff <= MaxBackoff

Attempts == 3

VARIABLES
    lockFile,    \* launcher.lock: who created it, and whether it holds the pid yet
    pepper,      \* session_pepper: what it holds
    main,        \* launcher -> where Run stands
    tries,       \* launcher -> passes of acquireLock that are left
    given,       \* launcher -> the pepper it hands to its children
    ctxDone,     \* launcher -> its context is cancelled
    sup,         \* launcher -> where supervisor.run stands
    backoff,     \* launcher -> the supervisor's current backoff
    child,       \* launcher -> the state of the server it spawned last
    overlapped   \* history: one launcher was started while another acquired the lock

files == <<lockFile, pepper>>
superv == <<sup, backoff, child>>
lauvars == <<files, main, tries, given, ctxDone, superv, overlapped>>


-----------------------------------------------------------------------------
NoFile == [by |-> "nobody"]

Acquiring == {"create", "write", "read", "remove"}
Working   == {"provision", "generate", "compose", "waiting", "ready", "failed", "release"}

Holders == {p \in Launchers : main[p] \in Working}
Alive(p) == main[p] \in Acquiring \cup Working
Running(p) == child[p] \in {"opening", "serving"}

LauncherTypeOK ==
    /\ lockFile \in {NoFile} \cup [by : Launchers, written : BOOLEAN]
    /\ pepper \in {"absent", "short", "old"} \cup Launchers
    /\ main \in [Launchers -> {"unborn", "gone", "killed"} \cup Acquiring \cup Working]
    /\ tries \in [Launchers -> 0..Attempts]
    /\ \A p \in Launchers : main[p] \in {"read", "remove"} => tries[p] > 0
    /\ given \in [Launchers -> {"none", "old"} \cup Launchers]
    /\ ctxDone \in [Launchers -> BOOLEAN]
    /\ sup \in [Launchers -> {"none", "start", "watch", "sleep", "stop", "done"}]
    /\ backoff \in [Launchers -> MinBackoff..MaxBackoff]
    /\ child \in [Launchers -> {"none", "opening", "serving", "failed", "clean"}]
    /\ overlapped \in BOOLEAN

\* An operator may have put a pepper into the directory, or cut one short.
LauncherInit ==
    /\ lockFile = NoFile
    /\ pepper \in {"absent", "short", "old"}
    /\ main = [p \in Launchers |-> "unborn"]
    /\ tries = [p \in Launchers |-> Attempts]
    /\ given = [p \in Launchers |-> "none"]
    /\ ctxDone = [p \in Launchers |-> FALSE]
    /\ sup = [p \in Launchers |-> "none"]
    /\ backoff = [p \in Launchers |-> MinBackoff]
    /\ child = [p \in Launchers |-> "none"]
    /\ overlapped = FALSE

-----------------------------------------------------------------------------
(* The single-instance lock (lock.go)                                       *)

Goto(p, at) == main' = [main EXCEPT ![p] = at]

\* The process ends, and what it kept in memory with it.
Exit(p, how) ==
    /\ Goto(p, how)
    /\ tries' = [tries EXCEPT ![p] = Attempts]
    /\ given' = [given EXCEPT ![p] = IF Running(p) THEN @ ELSE "none"]
    /\ ctxDone' = [ctxDone EXCEPT ![p] = FALSE]
    /\ sup' = [sup EXCEPT ![p] = "none"]
    /\ backoff' = [backoff EXCEPT ![p] = MinBackoff]

\* A process that has ended and of which no file with its pid and no child is left
\* stands for the next one that is started.
Startable(p) ==
    \/ main[p] = "unborn"
    \/ main[p] \in {"gone", "killed"} /\ lockFile.by # p /\ child[p] = "none"

\* Run, up to acquireLock.
Launch(p) ==
    /\ Startable(p)
    /\ Goto(p, "create")
    /\ overlapped' = (overlapped \/ \E q \in Launchers : main[q] \in Acquiring)
    /\ UNCHANGED <<files, tries, given, ctxDone, superv>>

\* The O_EXCL create that succeeds: the file is there and still empty.
CreateLock(p) ==
    /\ main[p] = "create" /\ tries[p] > 0 /\ lockFile = NoFile
    /\ lockFile' = [by |-> p, written |-> FALSE]
    /\ Goto(p, "write")
    /\ UNCHANGED <<pepper, tries, given, ctxDone, superv, overlapped>>

\* Mutant: the pid stays in a buffer.
WriteLockUnflushed(p) ==
    /\ main[p] = "write"
    /\ Goto(p, "provision")
    /\ UNCHANGED <<files, tries, given, ctxDone, superv, overlapped>>

\* The pid goes to the file this launcher created, which need not be the one
\* under that name any more.
WriteLock(p) ==
    /\ main[p] = "write"
    /\ lockFile' = IF lockFile.by = p THEN [by |-> p, written |-> TRUE] ELSE lockFile
    /\ Goto(p, "provision")
    /\ UNCHANGED <<pepper, tries, given, ctxDone, superv, overlapped>>

\* A full disk: the write fails, the file under the name goes and Run returns.
WriteLockFails(p) ==
    /\ main[p] = "write"
    /\ lockFile' = NoFile
    /\ Exit(p, "gone")
    /\ UNCHANGED <<pepper, child, overlapped>>

\* The create that finds a file.
LockTaken(p) ==
    /\ main[p] = "create" /\ tries[p] > 0 /\ lockFile # NoFile
    /\ Goto(p, "read")
    /\ UNCHANGED <<files, tries, given, ctxDone, superv, overlapped>>

\* No permission, no such directory: not the error of a file that is there.
AcquireFails(p) ==
    /\ main[p] \in {"create", "remove"} /\ tries[p] > 0
    /\ Exit(p, "gone")
    /\ UNCHANGED <<files, child, overlapped>>

NoMoreTries(p) ==
    /\ main[p] = "create" /\ tries[p] = 0
    /\ Exit(p, "gone")
    /\ UNCHANGED <<files, child, overlapped>>

\* readPid and processAlive: a pid that is there and names a live process.
HeldAlive == lockFile # NoFile /\ lockFile.written /\ Alive(lockFile.by)

AlreadyRunning(p) ==
    /\ main[p] = "read" /\ HeldAlive
    /\ Exit(p, "gone")
    /\ UNCHANGED <<files, child, overlapped>>

FoundStale(p) ==
    /\ main[p] = "read" /\ ~HeldAlive
    /\ Goto(p, "remove")
    /\ UNCHANGED <<files, tries, given, ctxDone, superv, overlapped>>

\* Whatever is under the name now is removed.
RemoveStale(p) ==
    /\ main[p] = "remove"
    /\ lockFile' = NoFile
    /\ tries' = [tries EXCEPT ![p] = @ - 1]
    /\ Goto(p, "create")
    /\ UNCHANGED <<pepper, given, ctxDone, superv, overlapped>>

-----------------------------------------------------------------------------
(* Run under the lock: the pepper, the supervisor, readiness, the way out    *)

\* provisionPepper reads: the pepper is reused, is too short, or is to be
\* generated.
ReadPepper(p) ==
    /\ main[p] = "provision"
    /\ \/ pepper = "absent" /\ Goto(p, "generate") /\ UNCHANGED given
       \/ pepper = "short" /\ Goto(p, "release") /\ UNCHANGED given
       \/ pepper \notin {"absent", "short"} /\ Goto(p, "compose")
          /\ given' = [given EXCEPT ![p] = pepper]
    /\ UNCHANGED <<files, tries, ctxDone, superv, overlapped>>

\* atomicWriteFile replaces whatever is there.
WritePepper(p) ==
    /\ main[p] = "generate"
    /\ pepper' = p
    /\ given' = [given EXCEPT ![p] = p]
    /\ Goto(p, "compose")
    /\ UNCHANGED <<lockFile, tries, ctxDone, superv, overlapped>>

\* A failure before or after the rename: Run returns.
WritePepperFails(p) ==
    /\ main[p] = "generate"
    /\ pepper' \in {pepper, p}
    /\ Goto(p, "release")
    /\ UNCHANGED <<lockFile, tries, given, ctxDone, superv, overlapped>>

\* No server binary, no readable pepper, an invalid origin, no server.log.
GiveUp(p) ==
    /\ main[p] \in {"provision", "compose"}
    /\ Goto(p, "release")
    /\ UNCHANGED <<files, tries, given, ctxDone, superv, overlapped>>

\* The supervisor's goroutine starts, and Run waits for the server.
Supervise(p) ==
    /\ main[p] = "compose"
    /\ sup' = [sup EXCEPT ![p] = "start"]
    /\ Goto(p, "waiting")
    /\ UNCHANGED <<files, tries, given, ctxDone, backoff, child, overlapped>>

\* waitReady: somebody answers on the port.
Ready(p) ==
    /\ main[p] = "waiting" /\ ~ctxDone[p]
    /\ \E q \in Launchers : child[q] = "serving"
    /\ Goto(p, "ready")
    /\ UNCHANGED <<files, tries, given, ctxDone, superv, overlapped>>

\* Mutant: waitReady has no timeout.
NotReadyUntimed(p) ==
    /\ main[p] = "waiting" /\ ctxDone[p]
    /\ Goto(p, "failed")
    /\ UNCHANGED <<files, tries, given, ctxDone, superv, overlapped>>

\* The timeout, or a cancelled context.
NotReady(p) ==
    /\ main[p] = "waiting"
    /\ ctxDone' = [ctxDone EXCEPT ![p] = TRUE]
    /\ Goto(p, "failed")
    /\ UNCHANGED <<files, tries, given, superv, overlapped>>

\* <-supDone.
Finish(p) ==
    /\ main[p] \in {"ready", "failed"} /\ sup[p] = "done"
    /\ Goto(p, "release")
    /\ UNCHANGED <<files, tries, given, ctxDone, superv, overlapped>>

\* lock.release, by name, and the end of the process.
Release(p) ==
    /\ main[p] = "release"
    /\ lockFile' = NoFile
    /\ Exit(p, "gone")
    /\ UNCHANGED <<pepper, child, overlapped>>

\* SIGINT or SIGTERM.
Signal(p) ==
    /\ Alive(p) /\ ~ctxDone[p]
    /\ ctxDone' = [ctxDone EXCEPT ![p] = TRUE]
    /\ UNCHANGED <<files, main, tries, given, superv, overlapped>>

\* SIGKILL: the files and the child stay.
Kill(p) ==
    /\ Alive(p)
    /\ Exit(p, "killed")
    /\ child' = [child EXCEPT ![p] = IF Running(p) THEN @ ELSE "none"]
    /\ UNCHANGED <<files, overlapped>>

-----------------------------------------------------------------------------
(* supervisor.run and the server                                             *)

nextBackoff(cur) == IF cur * 2 > MaxBackoff THEN MaxBackoff ELSE cur * 2

SupTo(p, at) == sup' = [sup EXCEPT ![p] = at]
Outside == <<files, main, tries, given, ctxDone, overlapped>>

StartChild(p) ==
    /\ sup[p] = "start"
    /\ child' = [child EXCEPT ![p] = "opening"]
    /\ SupTo(p, "watch")
    /\ UNCHANGED <<backoff, Outside>>

StartFails(p) ==
    /\ sup[p] = "start"
    /\ SupTo(p, "sleep")
    /\ UNCHANGED <<backoff, child, Outside>>

\* case <-ctx.Done(): stop sends an interrupt, which the child may follow.
BeginStop(p) ==
    /\ sup[p] = "watch" /\ ctxDone[p]
    /\ SupTo(p, "stop")
    /\ UNCHANGED <<backoff, child, Outside>>

\* Mutant: the interrupt is sent again, and no kill.
GraceOverAsksAgain(p) ==
    /\ sup[p] = "stop" /\ Running(p)
    /\ UNCHANGED lauvars

\* The grace is over: the child is killed.
GraceOver(p) ==
    /\ sup[p] = "stop" /\ Running(p)
    /\ child' = [child EXCEPT ![p] = "failed"]
    /\ UNCHANGED <<sup, backoff, Outside>>

\* <-waitErr in stop.
Stopped(p) ==
    /\ sup[p] = "stop" /\ ~Running(p)
    /\ child' = [child EXCEPT ![p] = "none"]
    /\ SupTo(p, "done")
    /\ UNCHANGED <<backoff, Outside>>

\* case err := <-waitErr: the end of a shutdown, a clean exit, or a crash after
\* a run that was long enough to reset the backoff or not.
ChildExited(p) ==
    /\ sup[p] = "watch" /\ child[p] \in {"failed", "clean"}
    /\ child' = [child EXCEPT ![p] = "none"]
    /\ IF ctxDone[p] \/ child[p] = "clean"
       THEN SupTo(p, "done") /\ UNCHANGED backoff
       ELSE SupTo(p, "sleep") /\ \E ran \in {backoff[p], MinBackoff} :
                                    backoff' = [backoff EXCEPT ![p] = ran]
    /\ UNCHANGED Outside

\* sleepCtx: the timer, or the context.
Awake(p) ==
    /\ sup[p] = "sleep"
    /\ \/ SupTo(p, "start") /\ backoff' = [backoff EXCEPT ![p] = nextBackoff(@)]
       \/ ctxDone[p] /\ SupTo(p, "done") /\ UNCHANGED backoff
    /\ UNCHANGED <<child, Outside>>

\* The server is up: the store is open and migrated, and the port was free.
ServerListens(p) ==
    /\ child[p] = "opening"
    /\ \A q \in Launchers : child[q] # "serving"
    /\ child' = [child EXCEPT ![p] = "serving"]
    /\ UNCHANGED <<sup, backoff, Outside>>

\* It exits with an error (no store, no port, a crash) or, after a signal of
\* the supervisor, of the terminal or of the operator, cleanly.  Nobody hears
\* of the exit of an orphan.
ServerExits(p) ==
    /\ Running(p)
    /\ \E how \in IF Alive(p) THEN {"failed", "clean"} ELSE {"none"} :
          child' = [child EXCEPT ![p] = how]
    /\ UNCHANGED <<sup, backoff, Outside>>

-----------------------------------------------------------------------------
AcquireStep(p) == \/ CreateLock(p) \/ WriteLock(p) \/ WriteLockFails(p) \/ LockTaken(p)
                  \/ AcquireFails(p) \/ NoMoreTries(p) \/ AlreadyRunning(p)
                  \/ FoundStale(p) \/ RemoveStale(p)
RunStep(p) == \/ ReadPepper(p) \/ WritePepper(p) \/ WritePepperFails(p) \/ GiveUp(p)
              \/ Supervise(p) \/ Ready(p) \/ NotReady(p) \/ Finish(p) \/ Release(p)
SupStep(p) == \/ StartChild(p) \/ StartFails(p) \/ BeginStop(p) \/ GraceOver(p)
              \/ Stopped(p) \/ ChildExited(p) \/ Awake(p)

LauncherNext ==
    \E p \in Launchers :
        \/ Launch(p) \/ Signal(p) \/ Kill(p)
        \/ AcquireStep(p) \/ RunStep(p) \/ SupStep(p)
        \/ ServerListens(p) \/ ServerExits(p)

\* Both goroutines of a launcher keep running and their timers fire; a server
\* binary that is there is started in the end.
LauncherFairness ==
    \A p \in Launchers :
        /\ WF_lauvars(AcquireStep(p) \/ RunStep(p))
        /\ WF_lauvars(SupStep(p)) /\ SF_lauvars(StartChild(p))

LauncherSpec == LauncherInit /\ [][LauncherNext]_lauvars /\ LauncherFairness

-----------------------------------------------------------------------------
\* What keeps launchers that are started apart apart: one at a time acquires,
\* whoever has the lock is named in the file, a file without a pid is being
\* written, and who is about to remove the file has seen that nobody lives
\* behind it; a pepper that is not there has not been given to anybody.
HeldApart ==
    /\ \A p, q \in Launchers : main[p] \in Acquiring /\ main[q] \in Acquiring => p = q
    /\ \A p \in Launchers :
          /\ main[p] \in Working => lockFile = [by |-> p, written |-> TRUE]
          /\ main[p] = "write" => lockFile = [by |-> p, written |-> FALSE]
          /\ main[p] = "remove" => \A q \in Launchers : main[q] \notin Working
          /\ main[p] = "generate" => pepper = "absent"
          /\ given[p] \in {"none", pepper}
          /\ pepper \in {"absent", "short"} => given[p] = "none"

LauncherInv == ~overlapped => HeldApart

\* The lock as its comment describes it: however launchers race, one of them
\* at most works in the data directory (lock.go, acquireLock: "The bounded
\* retry loop is race-safe: only one racer wins the next O_EXCL create").
OneHolder == Cardinality(Holders) <= 1

\* Launchers that are started one after the other are kept apart, and every
\* server there is was given the pepper that is on disk, so no session is lost:
\* through kills at any point, half-written pid files, failed provisioning and
\* restarts, as long as none is started while another acquires the lock
\* (acquireLock, provisionPepper).
StartedApartHeldApart ==
    ~overlapped =>
        /\ OneHolder
        /\ \A p \in Launchers : given[p] \in {"none", pepper}

\* A launcher told to stop takes its server with it, unless it is killed
\* itself, also when the server ignores the interrupt and when the signal comes
\* while the server is being started or restarted (supervisor.run, stop).
StopEndsServer ==
    \A p \in Launchers :
        ctxDone[p] ~> (main[p] = "killed" \/ (main[p] = "gone" /\ child[p] = "none"))

\* Every start, and every crash of a server, is answered: the launcher goes (the
\* lock refused or given back), is told or decides to stop, or has a server
\* running that is ready, whatever the races for the lock and however often the
\* server has failed (acquireLock, waitReady, supervisor.run).
EveryStartSettles ==
    \A p \in Launchers :
        (main[p] = "create" \/ child[p] = "failed")
            ~> (main[p] \in {"gone", "killed"} \/ ctxDone[p] \/ (main[p] = "ready" /\ Running(p)))
=============================================================================
