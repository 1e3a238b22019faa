----------------------------- MODULE HostProofs -----------------------------
(***************************************************************************)
(* Proofs about one host of a self-hosted server: its launchers, and the   *)
(* gate in front of its sign-ins.                                          *)
(***************************************************************************)
EXTENDS Launcher, Lockout, FiniteSetTheorems, WellFoundedInduction, TLAPS

-----------------------------------------------------------------------------
(***************************************************************************)
(* Launchers that are started apart are held apart, for any number of      *)
(* launchers and however they are killed.                                  *)
(***************************************************************************)

\* The initial states have the types of LauncherTypeOK and satisfy LauncherInv.
LEMMA LauncherInitOK == LauncherInit => LauncherTypeOK /\ LauncherInv
<1> SUFFICES ASSUME LauncherInit PROVE LauncherTypeOK /\ LauncherInv
  OBVIOUS
<1>1. /\ lockFile \in {NoFile} /\ pepper \in {"absent", "short", "old"} /\ overlapped = FALSE
      /\ MinBackoff \in MinBackoff..MaxBackoff /\ Attempts \in 0..Attempts
  BY LauncherAssumption DEF LauncherInit, Attempts
<1>2. LauncherTypeOK
  BY <1>1 DEF LauncherInit, LauncherTypeOK
<1>3. HeldApart
  BY DEF LauncherInit, HeldApart, Acquiring, Working
<1> QED
  BY <1>2, <1>3 DEF LauncherInv

\* The back-off stays between its floor and its ceiling.
LEMMA BackoffInRange ==
    ASSUME NEW b \in MinBackoff..MaxBackoff
    PROVE  nextBackoff(b) \in MinBackoff..MaxBackoff
  BY LauncherAssumption DEF nextBackoff

\* The end of a process keeps the types of its fields.
LEMMA ExitTypes ==
    ASSUME LauncherTypeOK, NEW p \in Launchers, NEW how \in {"gone", "killed"}, Exit(p, how)
    PROVE  /\ main' = [main EXCEPT ![p] = how]
           /\ main' \in [Launchers -> {"unborn", "gone", "killed"} \cup Acquiring \cup Working]
           /\ tries' \in [Launchers -> 0..Attempts]
           /\ \A q \in Launchers : main'[q] \in {"read", "remove"} => tries'[q] > 0
           /\ given' \in [Launchers -> {"none", "old"} \cup Launchers]
           /\ \A q \in Launchers : given'[q] \in {"none", given[q]}
           /\ ctxDone' \in [Launchers -> BOOLEAN]
           /\ sup' \in [Launchers -> {"none", "start", "watch", "sleep", "stop", "done"}]
           /\ backoff' \in [Launchers -> MinBackoff..MaxBackoff]
  BY LauncherAssumption DEF Exit, Goto, LauncherTypeOK, Attempts

\* A step of acquireLock keeps the types.
LEMMA AcquireTypes ==
    ASSUME LauncherTypeOK, NEW p \in Launchers, AcquireStep(p)
    PROVE  LauncherTypeOK'
<1>1. CASE CreateLock(p)
  BY <1>1 DEF CreateLock, LauncherTypeOK, Goto, files, superv, Acquiring
<1>2. CASE WriteLock(p)
  BY <1>2 DEF WriteLock, LauncherTypeOK, Goto, files, superv, Working
<1>3. CASE WriteLockFails(p)
  BY <1>3, ExitTypes DEF WriteLockFails, LauncherTypeOK
<1>4. CASE LockTaken(p)
  BY <1>4 DEF LockTaken, LauncherTypeOK, Goto, files, superv, Acquiring
<1>5. CASE AcquireFails(p) \/ NoMoreTries(p) \/ AlreadyRunning(p)
  BY <1>5, ExitTypes DEF AcquireFails, NoMoreTries, AlreadyRunning, LauncherTypeOK, files
<1>6. CASE FoundStale(p)
  BY <1>6 DEF FoundStale, LauncherTypeOK, Goto, files, superv, Acquiring
<1>7. CASE RemoveStale(p)
  <2>1. tries[p] - 1 \in 0..Attempts /\ tries' = [tries EXCEPT ![p] = tries[p] - 1]
    BY <1>7 DEF RemoveStale, LauncherTypeOK, Attempts
  <2> QED
    BY <1>7, <2>1 DEF RemoveStale, LauncherTypeOK, Goto, files, superv, Acquiring
<1> QED
  BY <1>1, <1>2, <1>3, <1>4, <1>5, <1>6, <1>7 DEF AcquireStep

\* A step of Run under the lock keeps the types.
LEMMA RunTypes ==
    ASSUME LauncherTypeOK, NEW p \in Launchers, RunStep(p)
    PROVE  LauncherTypeOK'
<1>1. CASE ReadPepper(p)
  BY <1>1 DEF ReadPepper, LauncherTypeOK, Goto, files, superv, Working
<1>2. CASE WritePepper(p) \/ WritePepperFails(p)
  BY <1>2 DEF WritePepper, WritePepperFails, LauncherTypeOK, Goto, files, superv, Working
<1>3. CASE GiveUp(p) \/ Ready(p) \/ Finish(p)
  BY <1>3 DEF GiveUp, Ready, Finish, LauncherTypeOK, Goto, files, superv, Working
<1>4. CASE Supervise(p)
  BY <1>4 DEF Supervise, LauncherTypeOK, Goto, files, superv, Working
<1>5. CASE NotReady(p)
  BY <1>5 DEF NotReady, LauncherTypeOK, Goto, files, superv, Working
<1>6. CASE Release(p)
  BY <1>6, ExitTypes DEF Release, LauncherTypeOK
<1> QED
  BY <1>1, <1>2, <1>3, <1>4, <1>5, <1>6 DEF RunStep

\* A step of the supervisor or of its server changes neither Run nor the files.
LEMMA SupervisorFrame ==
    ASSUME NEW p \in Launchers, SupStep(p) \/ ServerListens(p) \/ ServerExits(p)
    PROVE  UNCHANGED Outside
  BY DEF SupStep, ServerListens, ServerExits, StartChild, StartFails, BeginStop, GraceOver,
         Stopped, ChildExited, Awake

\* A step of the supervisor or of its server keeps the types.
LEMMA SupervisorTypes ==
    ASSUME LauncherTypeOK, NEW p \in Launchers,
           SupStep(p) \/ ServerListens(p) \/ ServerExits(p)
    PROVE  LauncherTypeOK'
<1>0. UNCHANGED <<lockFile, pepper, main, tries, given, ctxDone, overlapped>>
  BY SupervisorFrame DEF Outside, files
<1>1. SUFFICES /\ sup' \in [Launchers -> {"none", "start", "watch", "sleep", "stop", "done"}]
               /\ backoff' \in [Launchers -> MinBackoff..MaxBackoff]
               /\ child' \in [Launchers -> {"none", "opening", "serving", "failed", "clean"}]
  BY <1>0 DEF LauncherTypeOK
<1>2. CASE StartChild(p) \/ StartFails(p) \/ BeginStop(p) \/ GraceOver(p) \/ Stopped(p)
  BY <1>2 DEF StartChild, StartFails, BeginStop, GraceOver, Stopped, SupTo, LauncherTypeOK
<1>3. CASE ChildExited(p)
  <2>1. MinBackoff \in MinBackoff..MaxBackoff
    BY LauncherAssumption
  <2> QED
    BY <1>3, <2>1 DEF ChildExited, SupTo, LauncherTypeOK
<1>4. CASE Awake(p)
  <2>1. nextBackoff(backoff[p]) \in MinBackoff..MaxBackoff
    BY BackoffInRange DEF LauncherTypeOK
  <2> QED
    BY <1>4, <2>1 DEF Awake, SupTo, LauncherTypeOK
<1>5. CASE ServerListens(p) \/ ServerExits(p)
  BY <1>5 DEF ServerListens, ServerExits, LauncherTypeOK
<1> QED
  BY <1>2, <1>3, <1>4, <1>5 DEF SupStep

\* Every step keeps the types.
LEMMA LauncherTypesKept ==
    LauncherTypeOK /\ [LauncherNext]_lauvars => LauncherTypeOK'
<1> SUFFICES ASSUME LauncherTypeOK, [LauncherNext]_lauvars PROVE LauncherTypeOK'
  OBVIOUS
<1>1. ASSUME NEW p \in Launchers, Launch(p) PROVE LauncherTypeOK'
  BY <1>1 DEF Launch, LauncherTypeOK, Goto, files, superv, Acquiring
<1>2. ASSUME NEW p \in Launchers, Signal(p) PROVE LauncherTypeOK'
  BY <1>2 DEF Signal, LauncherTypeOK, files, superv
<1>3. ASSUME NEW p \in Launchers, Kill(p) PROVE LauncherTypeOK'
  BY <1>3, ExitTypes DEF Kill, LauncherTypeOK, files
<1>4. CASE UNCHANGED lauvars
  BY <1>4 DEF lauvars, files, superv, LauncherTypeOK
<1> QED
  BY <1>1, <1>2, <1>3, <1>4, AcquireTypes, RunTypes, SupervisorTypes DEF LauncherNext

-----------------------------------------------------------------------------
\* A launcher that goes without touching the file leaves the others apart.
LEMMA ApartExit ==
    ASSUME LauncherTypeOK, HeldApart, NEW p \in Launchers, NEW how \in {"gone", "killed"},
           Exit(p, how), UNCHANGED <<lockFile, pepper>>
    PROVE  HeldApart'
<1>1. /\ main' = [main EXCEPT ![p] = how]
      /\ \A q \in Launchers : given'[q] \in {"none", given[q]}
  BY ExitTypes
<1>2. \A q \in Launchers : main'[q] = IF q = p THEN how ELSE main[q]
  BY <1>1 DEF LauncherTypeOK
<1> QED
  BY <1>1, <1>2 DEF HeldApart, Acquiring, Working

\* A launcher that removes its own file when it goes leaves the others apart:
\* nobody else holds the lock or writes the file.
LEMMA ApartRelease ==
    ASSUME LauncherTypeOK, HeldApart, NEW p \in Launchers, main[p] \in {"write", "release"},
           Exit(p, "gone"), lockFile' = NoFile, UNCHANGED pepper
    PROVE  HeldApart'
<1>1. /\ main' = [main EXCEPT ![p] = "gone"]
      /\ \A q \in Launchers : given'[q] \in {"none", given[q]}
  BY ExitTypes
<1>2. \A q \in Launchers : main'[q] = IF q = p THEN "gone" ELSE main[q]
  BY <1>1 DEF LauncherTypeOK
<1>3. \A q \in Launchers : q # p => main[q] \notin Working /\ main[q] # "write"
  BY DEF HeldApart, Acquiring, Working
<1> QED
  BY <1>1, <1>2, <1>3 DEF HeldApart, Acquiring, Working

\* A step of acquireLock keeps launchers apart.
LEMMA ApartAcquire ==
    ASSUME LauncherTypeOK, HeldApart, NEW p \in Launchers, AcquireStep(p)
    PROVE  HeldApart'
<1>1. CASE CreateLock(p)
  <2>1. \A q \in Launchers : main'[q] = IF q = p THEN "write" ELSE main[q]
    BY <1>1 DEF CreateLock, Goto, LauncherTypeOK
  <2>2. \A q \in Launchers : main[q] \notin Working
    BY <1>1 DEF CreateLock, HeldApart, NoFile
  <2> QED
    BY <1>1, <2>1, <2>2 DEF CreateLock, HeldApart, Acquiring, Working
<1>2. CASE WriteLock(p)
  <2>1. \A q \in Launchers : main'[q] = IF q = p THEN "provision" ELSE main[q]
    BY <1>2 DEF WriteLock, Goto, LauncherTypeOK
  <2>2. /\ lockFile = [by |-> p, written |-> FALSE]
        /\ \A q \in Launchers : main[q] \notin Working
    BY <1>2 DEF WriteLock, HeldApart
  <2>3. lockFile' = [by |-> p, written |-> TRUE]
    BY <1>2, <2>2 DEF WriteLock
  <2>4. \A q \in Launchers : main[q] \in Acquiring => q = p
    BY <1>2 DEF WriteLock, HeldApart, Acquiring
  <2>5. \A q \in Launchers : main'[q] \notin Acquiring
    BY <2>1, <2>4 DEF Acquiring
  <2>6. \A q \in Launchers : main'[q] \in Working => q = p
    BY <2>1, <2>2
  <2>7. \A q \in Launchers : main'[q] # "generate"
    BY <2>1, <2>2 DEF Working
  <2>8. UNCHANGED <<given, pepper>>
    BY <1>2 DEF WriteLock
  <2> QED
    BY <2>3, <2>5, <2>6, <2>7, <2>8 DEF HeldApart, Acquiring
<1>3. CASE WriteLockFails(p)
  BY <1>3, ApartRelease DEF WriteLockFails
<1>4. CASE LockTaken(p)
  <2>1. \A q \in Launchers : main'[q] = IF q = p THEN "read" ELSE main[q]
    BY <1>4 DEF LockTaken, Goto, LauncherTypeOK
  <2> QED
    BY <1>4, <2>1 DEF LockTaken, files, HeldApart, Acquiring, Working
<1>5. CASE AcquireFails(p) \/ NoMoreTries(p) \/ AlreadyRunning(p)
  BY <1>5, ApartExit DEF AcquireFails, NoMoreTries, AlreadyRunning, files
<1>6. CASE FoundStale(p)
  <2>1. \A q \in Launchers : main'[q] = IF q = p THEN "remove" ELSE main[q]
    BY <1>6 DEF FoundStale, Goto, LauncherTypeOK
  <2>2. \A q \in Launchers : main[q] \notin Working
    <3> SUFFICES ASSUME NEW q \in Launchers, main[q] \in Working PROVE FALSE
      OBVIOUS
    <3>1. lockFile = [by |-> q, written |-> TRUE]
      BY DEF HeldApart
    <3>2. HeldAlive
      BY <3>1 DEF HeldAlive, NoFile, Alive
    <3> QED
      BY <1>6, <3>2 DEF FoundStale
  <2> QED
    BY <1>6, <2>1, <2>2 DEF FoundStale, files, HeldApart, Acquiring, Working
<1>7. CASE RemoveStale(p)
  <2>1. \A q \in Launchers : main'[q] = IF q = p THEN "create" ELSE main[q]
    BY <1>7 DEF RemoveStale, Goto, LauncherTypeOK
  <2>2. \A q \in Launchers : main[q] \notin Working /\ (main[q] \in Acquiring => q = p)
    BY <1>7 DEF RemoveStale, HeldApart, Acquiring
  <2> QED
    BY <1>7, <2>1, <2>2 DEF RemoveStale, HeldApart, Acquiring, Working
<1> QED
  BY <1>1, <1>2, <1>3, <1>4, <1>5, <1>6, <1>7 DEF AcquireStep

\* A step of Run under the lock keeps launchers apart: its launcher is the only
\* one that holds the lock, so nobody else touches the pepper.
LEMMA ApartRun ==
    ASSUME LauncherTypeOK, HeldApart, NEW p \in Launchers, RunStep(p)
    PROVE  HeldApart'
<1>1. \A q \in Launchers : main[p] \in Working /\ main[q] \in Working => q = p
  BY DEF HeldApart
<1>2. CASE ReadPepper(p)
  <2>1. PICK at \in {"generate", "release", "compose"} :
            /\ main' = [main EXCEPT ![p] = at]
            /\ at = "generate" => pepper = "absent"
            /\ at # "compose" => given' = given
            /\ at = "compose" => /\ pepper \notin {"absent", "short"}
                                 /\ given' = [given EXCEPT ![p] = pepper]
    BY <1>2 DEF ReadPepper, Goto
  <2>2. \A q \in Launchers : main'[q] = IF q = p THEN at ELSE main[q]
    BY <2>1 DEF LauncherTypeOK
  <2>3. \A q \in Launchers : given'[q] \in {given[q], pepper}
    BY <2>1 DEF LauncherTypeOK
  <2>4. pepper \in {"absent", "short"} => \A q \in Launchers : given'[q] = given[q]
    BY <2>1
  <2>5. main[p] \in Working /\ lockFile' = lockFile /\ pepper' = pepper
    BY <1>2 DEF ReadPepper, files, Working
  <2> QED
    BY <2>1, <2>2, <2>3, <2>4, <2>5 DEF HeldApart, Acquiring, Working
<1>3. CASE WritePepper(p) \/ WritePepperFails(p)
  <2>1. PICK at \in {"compose", "release"} : main' = [main EXCEPT ![p] = at]
    BY <1>3 DEF WritePepper, WritePepperFails, Goto
  <2>2. \A q \in Launchers : main'[q] = IF q = p THEN at ELSE main[q]
    BY <2>1 DEF LauncherTypeOK
  <2>3. main[p] = "generate" /\ lockFile' = lockFile /\ pepper' \in {pepper, p}
    BY <1>3 DEF WritePepper, WritePepperFails
  <2>4. pepper = "absent" /\ \A q \in Launchers : given[q] = "none"
    BY <2>3 DEF HeldApart
  <2>5. \A q \in Launchers : given'[q] = "none" \/ (given'[q] = p /\ pepper' = p)
    BY <1>3, <2>4 DEF WritePepper, WritePepperFails, LauncherTypeOK
  <2>6. p \notin {"absent", "short"}
    BY LauncherAssumption
  <2>7. \A q \in Launchers : q # p => main[q] \notin Working
    BY <1>1, <2>3 DEF Working
  <2> QED
    BY <2>2, <2>3, <2>4, <2>5, <2>6, <2>7 DEF HeldApart, Acquiring, Working
<1>4. CASE GiveUp(p) \/ Supervise(p) \/ Ready(p) \/ NotReady(p) \/ Finish(p)
  <2>1. PICK at \in {"release", "waiting", "ready", "failed"} : main' = [main EXCEPT ![p] = at]
    BY <1>4 DEF GiveUp, Supervise, Ready, NotReady, Finish, Goto
  <2>2. \A q \in Launchers : main'[q] = IF q = p THEN at ELSE main[q]
    BY <2>1 DEF LauncherTypeOK
  <2>3. main[p] \in Working /\ UNCHANGED <<lockFile, pepper, given>>
    BY <1>4 DEF GiveUp, Supervise, Ready, NotReady, Finish, files, Working
  <2> QED
    BY <2>2, <2>3 DEF HeldApart, Acquiring, Working
<1>5. CASE Release(p)
  BY <1>5, ApartRelease DEF Release
<1> QED
  BY <1>2, <1>3, <1>4, <1>5 DEF RunStep

\* Every step keeps launchers apart as long as they are started apart.
LEMMA ApartKept ==
    LauncherTypeOK /\ LauncherInv /\ [LauncherNext]_lauvars => LauncherInv'
<1> SUFFICES ASSUME LauncherTypeOK, LauncherInv, [LauncherNext]_lauvars, ~overlapped'
             PROVE  HeldApart'
  BY DEF LauncherInv
<1>0. ~overlapped
  <2>1. ASSUME NEW p \in Launchers, Launch(p) PROVE ~overlapped
    BY <2>1 DEF Launch
  <2>2. ASSUME NEW p \in Launchers, Signal(p) \/ Kill(p) PROVE ~overlapped
    BY <2>2 DEF Signal, Kill
  <2>3. ASSUME NEW p \in Launchers, AcquireStep(p) PROVE ~overlapped
    BY <2>3 DEF AcquireStep, CreateLock, WriteLock, WriteLockFails, LockTaken, AcquireFails,
                NoMoreTries, AlreadyRunning, FoundStale, RemoveStale
  <2>4. ASSUME NEW p \in Launchers, RunStep(p) PROVE ~overlapped
    BY <2>4 DEF RunStep, ReadPepper, WritePepper, WritePepperFails, GiveUp, Supervise,
                Ready, NotReady, Finish, Release
  <2>5. ASSUME NEW p \in Launchers, SupStep(p) \/ ServerListens(p) \/ ServerExits(p)
        PROVE  ~overlapped
    BY <2>5, SupervisorFrame DEF Outside
  <2> QED
    BY <2>1, <2>2, <2>3, <2>4, <2>5 DEF LauncherNext, lauvars
<1>1. HeldApart
  BY <1>0 DEF LauncherInv
<1>2. ASSUME NEW p \in Launchers, Launch(p) PROVE HeldApart'
  <2>1. \A q \in Launchers : main'[q] = IF q = p THEN "create" ELSE main[q]
    BY <1>2 DEF Launch, Goto, LauncherTypeOK
  <2>2. \A q \in Launchers : main[q] \notin Acquiring
    BY <1>2 DEF Launch
  <2> QED
    BY <1>1, <1>2, <2>1, <2>2 DEF Launch, files, HeldApart, Acquiring, Working
<1>3. ASSUME NEW p \in Launchers, Signal(p) PROVE HeldApart'
  BY <1>1, <1>3 DEF Signal, files, HeldApart
<1>4. ASSUME NEW p \in Launchers, Kill(p) PROVE HeldApart'
  BY <1>1, <1>4, ApartExit DEF Kill, files
<1>5. ASSUME NEW p \in Launchers, SupStep(p) \/ ServerListens(p) \/ ServerExits(p)
      PROVE  HeldApart'
  BY <1>1, <1>5, SupervisorFrame DEF Outside, files, HeldApart
<1>6. CASE UNCHANGED lauvars
  BY <1>1, <1>6 DEF lauvars, files, HeldApart
<1> QED
  BY <1>1, <1>2, <1>3, <1>4, <1>5, <1>6, ApartAcquire, ApartRun DEF LauncherNext

\* Two launchers that hold the lock are the same one.
LEMMA HeldApartIsOne == LauncherTypeOK /\ LauncherInv => StartedApartHeldApart
<1> SUFFICES ASSUME HeldApart
             PROVE  OneHolder /\ \A p \in Launchers : given[p] \in {"none", pepper}
  BY DEF LauncherInv, StartedApartHeldApart
<1>1. \A p, q \in Holders : p = q
  BY DEF HeldApart, Holders
<1>2. CASE Holders = {}
  BY <1>2, FS_EmptySet DEF OneHolder, HeldApart
<1>3. CASE Holders # {}
  <2>1. PICK p \in Holders : TRUE
    BY <1>3
  <2>2. Holders = {p}
    BY <1>1, <2>1
  <2>3. Cardinality(Holders) = 1
    BY <2>2, FS_Singleton
  <2> QED
    BY <2>3 DEF OneHolder, HeldApart
<1> QED
  BY <1>2, <1>3

-----------------------------------------------------------------------------
\* The launchers, their files and their servers keep their types.
THEOREM LauncherTypeCorrect == LauncherSpec => []LauncherTypeOK
  BY LauncherInitOK, LauncherTypesKept, PTL DEF LauncherSpec

\* Launchers that are started one after the other hold the lock one after the
\* other and use one pepper, whatever is killed and whatever fails on the way
\* (acquireLock, provisionPepper).
THEOREM LaunchersAreHeldApart == LauncherSpec => []StartedApartHeldApart
  BY LauncherInitOK, LauncherTypesKept, ApartKept, HeldApartIsOne, PTL DEF LauncherSpec

-----------------------------------------------------------------------------
(***************************************************************************)
(* The rate limiter, and the lockout it carries.                           *)
(***************************************************************************)

\* A bucket is full, or holds at least what its silence has refilled.
SilenceRefills(b) == b.tokens = Burst \/ b.tokens >= Rate * b.idle

LimiterInv == LimiterTypeOK /\ \A k \in Keys : SilenceRefills(buckets[k])

level == [k \in Keys |-> buckets[k].tokens]

LEMMA LimiterInitInv == LimiterInit => LimiterInv /\ Ideal!Init
  BY DEF LimiterInit, LimiterInv, LimiterTypeOK, SilenceRefills, NoBucket, Ideal!Init

\* A bucket in the map, and one that is not.
LEMMA BucketFields ==
    ASSUME LimiterTypeOK, NEW k \in Keys
    PROVE  /\ buckets[k].tokens \in 0..Burst /\ buckets[k].idle \in 0..(Ttl + 2)
           /\ buckets[k].idle = Ttl + 2 <=> buckets[k] = NoBucket
           /\ buckets[k] # NoBucket => buckets[k] \in Bucket
           /\ buckets[k] = NoBucket => buckets[k].tokens = Burst
<1>1. buckets[k] \in Bucket \cup {NoBucket}
  BY DEF LimiterTypeOK
<1>2. CASE buckets[k] = NoBucket
  BY <1>2, LimiterAssumption DEF NoBucket
<1>3. CASE buckets[k] \in Bucket
  BY <1>3, LimiterAssumption DEF NoBucket, Bucket
<1> QED
  BY <1>1, <1>2, <1>3

\* Allow takes a token of the ideal bucket, or none.
LEMMA AllowStep ==
    ASSUME LimiterInv, NEW k \in Keys, Allow(k) \/ Refuse(k)
    PROVE  LimiterInv' /\ (Ideal!Take(k) \/ level' = level)
<1> DEFINE n == IF Allow(k) THEN buckets[k].tokens - 1 ELSE 0
           b == [tokens |-> n, idle |-> 0]
<1>1. LimiterTypeOK /\ buckets[k].tokens \in 0..Burst
  BY BucketFields DEF LimiterInv
<1>2. n \in 0..Burst /\ (Refuse(k) => n = buckets[k].tokens)
  BY <1>1, LimiterAssumption DEF Allow, Refuse, Level
<1>3. buckets' = [buckets EXCEPT ![k] = b]
  BY DEF Allow, Refuse, Level
<1>4. Allow(k) => n = buckets[k].tokens - 1 /\ buckets[k].tokens >= 1
  BY DEF Allow, Level
<1> HIDE DEF n
<1>5. b \in Bucket
  BY <1>2, LimiterAssumption DEF Bucket
<1>6. SilenceRefills(b)
  BY <1>2, LimiterAssumption DEF SilenceRefills
<1>7. \A j \in Keys : buckets'[j] = IF j = k THEN b ELSE buckets[j]
  BY <1>1, <1>3 DEF LimiterTypeOK
<1>8. LimiterInv'
  BY <1>1, <1>3, <1>5, <1>6, <1>7 DEF LimiterInv, LimiterTypeOK
<1>9. \A j \in Keys : buckets'[j].tokens = IF j = k THEN n ELSE buckets[j].tokens
  BY <1>7
<1>10. CASE Allow(k)
  <2>1. level' = [level EXCEPT ![k] = level[k] - 1] /\ level[k] >= 1
    BY <1>4, <1>9, <1>10 DEF level
  <2> QED
    BY <1>8, <2>1 DEF level, Ideal!Take
<1>11. CASE Refuse(k)
  BY <1>2, <1>8, <1>9, <1>11 DEF level
<1> QED
  BY <1>8, <1>10, <1>11

\* Time refills the ideal buckets.
LEMMA TickStep ==
    ASSUME LimiterInv, LimiterTick
    PROVE  LimiterInv' /\ Ideal!Refill
<1>1. ASSUME NEW k \in Keys
      PROVE  /\ buckets'[k] \in Bucket \cup {NoBucket}
             /\ SilenceRefills(buckets'[k])
             /\ buckets'[k].tokens = IF buckets[k].tokens + Rate <= Burst
                                     THEN buckets[k].tokens + Rate ELSE Burst
  <2> DEFINE b == buckets[k]
  <2>1. /\ b.tokens \in 0..Burst /\ b.idle \in 0..(Ttl + 2)
        /\ b.idle = Ttl + 2 <=> b = NoBucket
        /\ b # NoBucket => b \in Bucket
        /\ b = NoBucket => b.tokens = Burst
        /\ SilenceRefills(b)
    BY BucketFields DEF LimiterInv
  <2>2. buckets'[k] = Refilled(b)
    BY DEF LimiterTick
  <2> HIDE DEF b
  <2>3. CASE b = NoBucket
    BY <2>1, <2>2, <2>3, LimiterAssumption DEF Refilled, b
  <2>4. CASE b # NoBucket
    <3> DEFINE t == IF b.tokens + Rate <= Burst THEN b.tokens + Rate ELSE Burst
               i == IF b.idle <= Ttl THEN b.idle + 1 ELSE b.idle
    <3>1. buckets'[k] = [tokens |-> t, idle |-> i]
      BY <2>2, <2>4 DEF Refilled
    <3>2. t \in 0..Burst /\ i \in 0..(Ttl + 1)
      BY <2>1, <2>4, LimiterAssumption
    <3>3. t = Burst \/ t >= Rate * i
      <4>1. CASE b.tokens = Burst
        BY <4>1, LimiterAssumption
      <4>2. CASE b.tokens >= Rate * b.idle
        <5>1. Rate \in Nat /\ b.idle \in Nat /\ b.tokens \in Nat /\ Burst \in Nat
          BY <2>1, LimiterAssumption
        <5>2. Rate * (b.idle + 1) = Rate * b.idle + Rate /\ Rate * b.idle \in Nat
          BY <5>1
        <5>3. Rate * i <= Rate * b.idle + Rate
          BY <5>1, <5>2
        <5> QED
          BY <4>2, <5>1, <5>2, <5>3
      <4> QED
        BY <2>1, <4>1, <4>2 DEF SilenceRefills
    <3> HIDE DEF t, i
    <3>4. buckets'[k] \in Bucket /\ buckets'[k].tokens = t /\ SilenceRefills(buckets'[k])
      BY <3>1, <3>2, <3>3 DEF Bucket, SilenceRefills
    <3> QED
      BY <3>4 DEF t, b
  <2> QED
    BY <2>3, <2>4
<1>2. LimiterInv'
  BY <1>1 DEF LimiterInv, LimiterTypeOK, LimiterTick
<1>3. Ideal!Refill
  BY <1>1 DEF Ideal!Refill
<1> QED
  BY <1>2, <1>3

\* A bucket that is dropped is full.
LEMMA CleanupStep ==
    ASSUME LimiterInv, Cleanup
    PROVE  LimiterInv' /\ level' = level
<1>1. ASSUME NEW k \in Keys
      PROVE  /\ buckets'[k] \in Bucket \cup {NoBucket}
             /\ SilenceRefills(buckets'[k])
             /\ buckets'[k].tokens = buckets[k].tokens
  <2>1. /\ buckets[k] \in Bucket \cup {NoBucket} /\ SilenceRefills(buckets[k])
        /\ buckets[k].tokens \in 0..Burst
    BY BucketFields DEF LimiterInv, LimiterTypeOK
  <2>2. CASE buckets[k].idle = Ttl + 1
    <3>1. buckets'[k] = NoBucket
      BY <2>2 DEF Cleanup
    <3>2. Rate * (Ttl + 1) >= Burst
      BY LimiterAssumption
    <3>3. buckets[k].tokens = Burst
      BY <2>1, <2>2, <3>2, LimiterAssumption DEF SilenceRefills
    <3> QED
      BY <3>1, <3>3 DEF NoBucket, SilenceRefills
  <2>3. CASE buckets[k].idle # Ttl + 1
    BY <2>1, <2>3 DEF Cleanup
  <2> QED
    BY <2>2, <2>3
<1> QED
  BY <1>1 DEF LimiterInv, LimiterTypeOK, Cleanup, level

LEMMA LimiterFrame ==
    ASSUME LimiterInv, UNCHANGED buckets
    PROVE  LimiterInv' /\ level' = level
  BY DEF LimiterInv, LimiterTypeOK, level

LEMMA LimiterStep == LimiterInv /\ [LimiterNext]_buckets => LimiterInv' /\ [Ideal!Next]_level
  BY AllowStep, TickStep, CleanupStep, LimiterFrame DEF LimiterNext, Ideal!Next

\* Dropping idle buckets is invisible for any burst, rate and idle time such
\* that a bucket is full again when it is dropped (KeyedLimiter.cleanup).
THEOREM LimiterImplementsBuckets == LimiterSpec => EvictionIsInvisible
<1>1. LimiterInit => LimiterInv /\ Ideal!Init
  BY LimiterInitInv
<1>2. LimiterInv /\ [LimiterNext]_buckets => LimiterInv' /\ [Ideal!Next]_[k \in Keys |-> buckets[k].tokens]
  BY LimiterStep DEF level
<1> QED
  BY <1>1, <1>2, PTL DEF LimiterSpec, EvictionIsInvisible, Ideal!Spec

-----------------------------------------------------------------------------
(***************************************************************************)
(* The lockout: overlapping guesses are bounded.                           *)
(***************************************************************************)

LEMMA LockoutInitTypes == LockoutInit => LockoutTypeOK
  BY DEF LockoutInit, LockoutTypeOK, LimiterInit, LimiterTypeOK, Request

\* What the lockout does to the buckets.
BucketStep == \/ \E k \in Keys : Allow(k) \/ Refuse(k)
              \/ LimiterTick \/ Cleanup
              \/ UNCHANGED buckets

LEMMA LockoutUsesLimiter == LockoutNext => BucketStep
  BY DEF LockoutNext, BucketStep, LoginLimited, LoginStart, LoginLocked, Proceed,
         Recorded, RecordFailure, RecordSuccess, AttemptUnrecorded,
         LockoutTick, Janitor

LEMMA BucketStepInv == LimiterInv /\ BucketStep => LimiterInv' /\ [Ideal!Next]_level
  BY AllowStep, TickStep, CleanupStep, LimiterFrame DEF BucketStep, Ideal!Next

\* The fields of a request that is under way.
LEMMA RequestFields ==
    ASSUME LockoutTypeOK, NEW r \in Requests, req[r] # Idle
    PROVE  req[r] \in [pc : {"checked"}, email : Emails, ip : Keys]
  BY DEF LockoutTypeOK, Request

LEMMA FailureType ==
    ASSUME NEW e \in Emails, NEW ip \in Keys
    PROVE  /\ Failure(e, ip) \in Attempt
           /\ Failure(e, ip).email = e /\ Failure(e, ip).mark = "counted"
<1>1. 0 \in 0..(Window - 1)
  BY LockoutAssumption
<1> QED
  BY <1>1 DEF Failure, Attempt

\* The attempts after a success: the failures of its account are cleared.
Cleared(e) == [i \in 1..Len(attempts) |->
                  IF attempts[i].email = e
                  THEN [attempts[i] EXCEPT !.mark = "cleared"] ELSE attempts[i]]

LEMMA ClearedAttempts ==
    ASSUME attempts \in Seq(Attempt), NEW e
    PROVE  /\ Cleared(e) \in Seq(Attempt)
           /\ Len(Cleared(e)) = Len(attempts)
           /\ \A i \in 1..Len(attempts) :
                 /\ Cleared(e)[i].email = attempts[i].email
                 /\ Cleared(e)[i].mark = "counted" => attempts[i].mark = "counted"
<1>1. Len(attempts) \in Nat
  OBVIOUS
<1>2. ASSUME NEW i \in 1..Len(attempts)
      PROVE  /\ Cleared(e)[i] \in Attempt
             /\ Cleared(e)[i].email = attempts[i].email
             /\ Cleared(e)[i].mark = "counted" => attempts[i].mark = "counted"
  <2>1. attempts[i] \in Attempt
    BY <1>2
  <2>2. Cleared(e)[i] = IF attempts[i].email = e
                        THEN [attempts[i] EXCEPT !.mark = "cleared"] ELSE attempts[i]
    BY DEF Cleared
  <2> QED
    BY <2>1, <2>2 DEF Attempt
<1>3. Cleared(e) \in [1..Len(attempts) -> Attempt]
  BY <1>2 DEF Cleared
<1> QED
  BY <1>1, <1>2, <1>3

\* The attempts after a tick are those of the window, shifted.
Aged(n) == [i \in 1..(Len(attempts) - n) |-> [attempts[i + n] EXCEPT !.age = @ + 1]]

LEMMA AgedAttempts ==
    ASSUME attempts \in Seq(Attempt), NEW n \in 0..Len(attempts), Outdated(n)
    PROVE  /\ Aged(n) \in Seq(Attempt)
           /\ Len(Aged(n)) = Len(attempts) - n
           /\ \A i \in 1..(Len(attempts) - n) :
                 /\ i + n \in 1..Len(attempts)
                 /\ Aged(n)[i].email = attempts[i + n].email
                 /\ Aged(n)[i].mark = attempts[i + n].mark
<1>1. Len(attempts) \in Nat /\ Len(attempts) - n \in Nat
  OBVIOUS
<1>2. ASSUME NEW i \in 1..(Len(attempts) - n)
      PROVE  /\ i + n \in 1..Len(attempts)
             /\ Aged(n)[i] \in Attempt
             /\ Aged(n)[i].email = attempts[i + n].email
             /\ Aged(n)[i].mark = attempts[i + n].mark
  <2>1. i + n \in 1..Len(attempts) /\ ~(i + n <= n)
    BY <1>1
  <2>2. attempts[i + n] \in Attempt
    BY <2>1
  <2>3. attempts[i + n].age + 1 \in 0..(Window - 1)
    BY <2>1, <2>2, LockoutAssumption DEF Outdated, Attempt
  <2>4. Aged(n)[i] = [attempts[i + n] EXCEPT !.age = attempts[i + n].age + 1]
    BY DEF Aged
  <2> QED
    BY <2>1, <2>2, <2>3, <2>4 DEF Attempt
<1>3. Aged(n) \in [1..(Len(attempts) - n) -> Attempt]
  BY <1>2 DEF Aged
<1> QED
  BY <1>1, <1>2, <1>3

\* A request that has passed the check.
UnderWay(r) == req[r] # Idle /\ req[r].email \in Emails /\ req[r].ip \in Keys

LEMMA Checked ==
    ASSUME LockoutTypeOK, NEW r \in Requests, req[r].pc = "checked"
    PROVE  UnderWay(r)
<1>1. req[r] # Idle
  BY DEF Idle
<1> QED
  BY <1>1, RequestFields DEF UnderWay

LEMMA LockoutStepTypes ==
    ASSUME LockoutTypeOK, LimiterTypeOK', LockoutNext
    PROVE  LockoutTypeOK'
<1>1. ASSUME NEW r \in Requests, NEW ip \in Keys, LoginLimited(r, ip)
      PROVE  LockoutTypeOK'
  BY <1>1 DEF LoginLimited, LockoutTypeOK
<1>2. ASSUME NEW r \in Requests, NEW ip \in Keys, NEW e \in Emails, LoginStart(r, e, ip)
      PROVE  LockoutTypeOK'
  BY <1>2 DEF LoginStart, LockoutTypeOK, Request
<1>3. ASSUME NEW r \in Requests, NEW ip \in Keys, NEW e \in Emails, LoginLocked(r, e, ip)
      PROVE  LockoutTypeOK'
  BY <1>3 DEF LoginLocked, LockoutTypeOK
<1>4. ASSUME NEW r \in Requests, RecordFailure(r)
      PROVE  LockoutTypeOK'
  <2>1. UnderWay(r) /\ attempts' = Append(attempts, Failure(req[r].email, req[r].ip))
    BY <1>4, Checked DEF RecordFailure, Recorded, RecordLoginAttempt
  <2>2. attempts' \in Seq(Attempt)
    BY <2>1, FailureType DEF LockoutTypeOK, UnderWay
  <2> QED
    BY <1>4, <2>2 DEF RecordFailure, Recorded, LockoutTypeOK, Request
<1>5. ASSUME NEW r \in Requests, RecordSuccess(r)
      PROVE  LockoutTypeOK'
  <2>1. attempts' = Cleared(req[r].email)
    BY <1>5 DEF RecordSuccess, Recorded, RecordLoginAttempt, Cleared
  <2>2. attempts' \in Seq(Attempt)
    BY <2>1, ClearedAttempts DEF LockoutTypeOK
  <2> QED
    BY <1>5, <2>2 DEF RecordSuccess, Recorded, LockoutTypeOK, Request
<1>6. ASSUME NEW r \in Requests, AttemptUnrecorded(r)
      PROVE  LockoutTypeOK'
  BY <1>6 DEF AttemptUnrecorded, LockoutTypeOK, Request
<1>7. ASSUME LockoutTick
      PROVE  LockoutTypeOK'
  <2>1. PICK n \in 0..Len(attempts) : Outdated(n) /\ attempts' = Aged(n)
    BY <1>7 DEF LockoutTick, Aged
  <2>2. attempts' \in Seq(Attempt)
    BY <2>1, AgedAttempts DEF LockoutTypeOK
  <2> QED
    BY <1>7, <2>2 DEF LockoutTick, LockoutTypeOK
<1>8. ASSUME Janitor
      PROVE  LockoutTypeOK'
  BY <1>8 DEF Janitor, LockoutTypeOK
<1> QED
  BY <1>1, <1>2, <1>3, <1>4, <1>5, <1>6, <1>7, <1>8 DEF LockoutNext, Proceed

\* The rows and the requests that are counted are finitely many.
LEMMA CountsAreFinite ==
    ASSUME LockoutTypeOK, NEW e
    PROVE  /\ IsFiniteSet(FailuresByEmail(e)) /\ Cardinality(FailuresByEmail(e)) \in Nat
           /\ IsFiniteSet(InFlight(e)) /\ Cardinality(InFlight(e)) \in Nat
           /\ Cardinality(InFlight(e)) <= Cardinality(Requests)
           /\ Cardinality(Requests) \in Nat
<1>1. IsFiniteSet(1..Len(attempts))
  BY FS_Interval DEF LockoutTypeOK
<1>2. FailuresByEmail(e) \in SUBSET (1..Len(attempts)) /\ InFlight(e) \in SUBSET Requests
  BY DEF FailuresByEmail, InFlight
<1>3. IsFiniteSet(FailuresByEmail(e))
  BY <1>1, <1>2, FS_Subset
<1>4. IsFiniteSet(InFlight(e)) /\ Cardinality(InFlight(e)) <= Cardinality(Requests)
  BY <1>2, FS_Subset, LockoutAssumption
<1> QED
  BY <1>3, <1>4, FS_CardinalityType, LockoutAssumption

Bound(e) == CountRecentFailuresByEmail(e) + Cardinality(InFlight(e))
                <= EmailThreshold - 1 + Cardinality(Requests)

LEMMA CountsAreFiniteNext ==
    ASSUME LockoutTypeOK', NEW e
    PROVE  Cardinality(FailuresByEmail(e)') \in Nat /\ Cardinality(InFlight(e)') \in Nat
<1>1. IsFiniteSet(1..Len(attempts'))
  BY FS_Interval DEF LockoutTypeOK
<1>2. FailuresByEmail(e)' \in SUBSET (1..Len(attempts')) /\ InFlight(e)' \in SUBSET Requests
  BY DEF FailuresByEmail, InFlight
<1>3. IsFiniteSet(FailuresByEmail(e)')
  BY <1>1, <1>2, FS_Subset
<1>4. IsFiniteSet(InFlight(e)')
  BY <1>2, FS_Subset, LockoutAssumption
<1> QED
  BY <1>3, <1>4, FS_CardinalityType

\* A step that counts no failure more and lets no request in keeps the bound.
LEMMA FewerCounted ==
    ASSUME LockoutTypeOK, LockoutTypeOK', NEW e, Bound(e),
           Cardinality(FailuresByEmail(e)') <= Cardinality(FailuresByEmail(e)),
           InFlight(e)' \subseteq InFlight(e)
    PROVE  Bound(e)'
<1>1. Cardinality(InFlight(e)') <= Cardinality(InFlight(e))
  BY CountsAreFinite, FS_Subset
<1>2. /\ Cardinality(FailuresByEmail(e)) \in Nat /\ Cardinality(InFlight(e)) \in Nat
      /\ Cardinality(Requests) \in Nat
  BY CountsAreFinite
<1>3. Cardinality(FailuresByEmail(e)') \in Nat /\ Cardinality(InFlight(e)') \in Nat
  BY CountsAreFiniteNext
<1> QED
  BY <1>1, <1>2, <1>3, LockoutAssumption DEF Bound, CountRecentFailuresByEmail

\* A request that passes the check saw a count below the threshold.
LEMMA StartKeepsBound ==
    ASSUME LockoutTypeOK, LockoutTypeOK', NEW e \in Emails, Bound(e),
           NEW r \in Requests, NEW ip \in Keys, NEW f \in Emails, LoginStart(r, f, ip)
    PROVE  Bound(e)'
<1>1. FailuresByEmail(e)' = FailuresByEmail(e)
  BY DEF LoginStart, FailuresByEmail
<1>2. CASE f = e
  <2>1. ~(Cardinality(FailuresByEmail(e)) >= EmailThreshold)
    BY <1>2 DEF LoginStart, Locked, CountRecentFailuresByEmail
  <2>2. InFlight(e)' \in SUBSET Requests
    BY DEF InFlight
  <2>3. Cardinality(InFlight(e)') <= Cardinality(Requests)
    BY <2>2, FS_Subset, LockoutAssumption
  <2>4. Cardinality(FailuresByEmail(e)) \in Nat /\ Cardinality(Requests) \in Nat
    BY CountsAreFinite
  <2>5. Cardinality(InFlight(e)') \in Nat
    BY CountsAreFiniteNext
  <2> QED
    BY <1>1, <2>1, <2>3, <2>4, <2>5, LockoutAssumption DEF Bound, CountRecentFailuresByEmail
<1>3. CASE f # e
  <2>1. \A q \in Requests : req'[q] = IF q = r THEN [pc |-> "checked", email |-> f, ip |-> ip]
                                               ELSE req[q]
    BY DEF LoginStart, LockoutTypeOK
  <2>2. InFlight(e)' \subseteq InFlight(e)
    BY <1>3, <2>1 DEF InFlight
  <2>3. Cardinality(FailuresByEmail(e)) \in Nat
    BY CountsAreFinite
  <2> QED
    BY <1>1, <2>2, <2>3, FewerCounted
<1> QED
  BY <1>2, <1>3

LEMMA Appended ==
    ASSUME NEW S, NEW s \in Seq(S), NEW x \in S
    PROVE  /\ Len(s) \in Nat /\ Len(Append(s, x)) = Len(s) + 1
           /\ \A i \in 1..Len(s) : Append(s, x)[i] = s[i]
           /\ Append(s, x)[Len(s) + 1] = x
  OBVIOUS

\* What a new row does to the count of an account.
LEMMA CountAfterFailure ==
    ASSUME LockoutTypeOK, NEW x \in Attempt, x.mark = "counted", attempts' = Append(attempts, x), NEW e
    PROVE  /\ x.email = e => FailuresByEmail(e)' = FailuresByEmail(e) \cup {Len(attempts) + 1}
           /\ x.email # e => FailuresByEmail(e)' = FailuresByEmail(e)
           /\ Len(attempts) + 1 \notin FailuresByEmail(e)
<1> DEFINE L == Len(attempts)
<1>1. /\ L \in Nat /\ Len(attempts') = L + 1
      /\ \A i \in 1..L : attempts'[i] = attempts[i]
      /\ attempts'[L + 1] = x
  BY Appended DEF LockoutTypeOK
<1>2. FailuresByEmail(e) = {i \in 1..L : attempts[i].email = e /\ attempts[i].mark = "counted"}
  BY DEF FailuresByEmail
<1>3. FailuresByEmail(e)' = {i \in 1..(L + 1) : attempts'[i].email = e /\ attempts'[i].mark = "counted"}
  BY <1>1 DEF FailuresByEmail
<1> HIDE DEF L
<1>4. \A i \in 1..L : i \in FailuresByEmail(e)' <=> i \in FailuresByEmail(e)
  BY <1>1, <1>2, <1>3
<1>5. L + 1 \in FailuresByEmail(e)' <=> x.email = e
  BY <1>1, <1>3
<1>6. FailuresByEmail(e)' \subseteq 1..L \cup {L + 1} /\ FailuresByEmail(e) \subseteq 1..L
  BY <1>1, <1>2, <1>3
<1>7. L + 1 \notin 1..L
  BY <1>1
<1> QED
  BY <1>4, <1>5, <1>6, <1>7 DEF L

\* A failure that is recorded is counted once: as a row, no more as a request.
LEMMA FailureKeepsBound ==
    ASSUME LockoutTypeOK, LockoutTypeOK', NEW e \in Emails, Bound(e),
           NEW r \in Requests, RecordFailure(r)
    PROVE  Bound(e)'
<1> DEFINE x == Failure(req[r].email, req[r].ip)
<1>1. attempts' = Append(attempts, x) /\ req' = [req EXCEPT ![r] = Idle] /\ req[r].pc = "checked"
  BY DEF RecordFailure, Recorded, RecordLoginAttempt
<1>2. UnderWay(r)
  BY <1>1, Checked
<1>3. x \in Attempt /\ x.email = req[r].email /\ x.mark = "counted"
  BY <1>2, FailureType DEF UnderWay
<1> HIDE DEF x
<1>4. \A q \in Requests : req'[q] = IF q = r THEN Idle ELSE req[q]
  BY <1>1 DEF LockoutTypeOK
<1>5. Idle.pc # "checked"
  BY DEF Idle
<1>6. CASE req[r].email = e
  <2>1. /\ FailuresByEmail(e)' = FailuresByEmail(e) \cup {Len(attempts) + 1}
        /\ Len(attempts) + 1 \notin FailuresByEmail(e)
    BY <1>1, <1>3, <1>6, CountAfterFailure
  <2>2. InFlight(e)' = InFlight(e) \ {r} /\ r \in InFlight(e)
    BY <1>1, <1>4, <1>5, <1>6 DEF InFlight
  <2>3. Cardinality(FailuresByEmail(e)') = Cardinality(FailuresByEmail(e)) + 1
    BY <2>1, CountsAreFinite, FS_AddElement
  <2>4. Cardinality(InFlight(e)') = Cardinality(InFlight(e)) - 1
    BY <2>2, CountsAreFinite, FS_RemoveElement
  <2>5. /\ Cardinality(FailuresByEmail(e)) \in Nat /\ Cardinality(InFlight(e)) \in Nat
        /\ Cardinality(Requests) \in Nat
    BY CountsAreFinite
  <2> QED
    BY <2>3, <2>4, <2>5, LockoutAssumption DEF Bound, CountRecentFailuresByEmail
<1>7. CASE req[r].email # e
  <2>1. FailuresByEmail(e)' = FailuresByEmail(e)
    BY <1>1, <1>3, <1>7, CountAfterFailure
  <2>2. InFlight(e)' \subseteq InFlight(e)
    BY <1>4, <1>5 DEF InFlight
  <2>3. Cardinality(FailuresByEmail(e)) \in Nat
    BY CountsAreFinite
  <2> QED
    BY <2>1, <2>2, <2>3, FewerCounted
<1> QED
  BY <1>6, <1>7

\* A success ends the count of its account.
LEMMA SuccessKeepsBound ==
    ASSUME LockoutTypeOK, LockoutTypeOK', NEW e \in Emails, Bound(e),
           NEW r \in Requests, RecordSuccess(r)
    PROVE  Bound(e)'
<1>1. attempts' = Cleared(req[r].email) /\ req' = [req EXCEPT ![r] = Idle]
  BY DEF RecordSuccess, Recorded, RecordLoginAttempt, Cleared
<1>2. /\ Len(attempts') = Len(attempts)
      /\ \A i \in 1..Len(attempts) : /\ attempts'[i].email = attempts[i].email
                                     /\ attempts'[i].mark = "counted" => attempts[i].mark = "counted"
  BY <1>1, ClearedAttempts DEF LockoutTypeOK
<1>3. FailuresByEmail(e)' \in SUBSET FailuresByEmail(e)
  <2>1. FailuresByEmail(e)' =
            {i \in 1..Len(attempts) : attempts'[i].email = e /\ attempts'[i].mark = "counted"}
    BY <1>2 DEF FailuresByEmail
  <2>2. ASSUME NEW i \in FailuresByEmail(e)'
        PROVE  i \in FailuresByEmail(e)
    BY <1>2, <2>1 DEF FailuresByEmail
  <2> QED
    BY <2>2
<1>4. Cardinality(FailuresByEmail(e)') <= Cardinality(FailuresByEmail(e))
  BY <1>3, CountsAreFinite, FS_Subset
<1>5. InFlight(e)' \subseteq InFlight(e)
  BY <1>1 DEF InFlight, LockoutTypeOK, Idle
<1> QED
  BY <1>4, <1>5, FewerCounted

\* Time only takes rows away: those that stay are the old ones, shifted.
LEMMA TickKeepsBound ==
    ASSUME LockoutTypeOK, LockoutTypeOK', NEW e \in Emails, Bound(e), LockoutTick
    PROVE  Bound(e)'
<1>1. PICK n \in 0..Len(attempts) : Outdated(n) /\ attempts' = Aged(n)
  BY DEF LockoutTick, Aged
<1> DEFINE S == FailuresByEmail(e)'
           T == FailuresByEmail(e)
           f == [i \in S |-> i + n]
<1>2. /\ Len(attempts') = Len(attempts) - n /\ Len(attempts) \in Nat /\ n \in Nat
      /\ \A i \in 1..(Len(attempts) - n) :
            /\ i + n \in 1..Len(attempts)
            /\ attempts'[i].email = attempts[i + n].email
            /\ attempts'[i].mark = attempts[i + n].mark
  <2>1. attempts \in Seq(Attempt)
    BY DEF LockoutTypeOK
  <2>2. Len(attempts) \in Nat /\ n \in Nat
    BY <2>1
  <2> QED
    BY <1>1, <2>1, <2>2, AgedAttempts
<1>3. ASSUME NEW i \in S
      PROVE  i + n \in T /\ i \in Nat
  <2>1. /\ i \in 1..(Len(attempts) - n)
        /\ attempts'[i].email = e /\ attempts'[i].mark = "counted"
    BY <1>2 DEF FailuresByEmail
  <2>2. i + n \in 1..Len(attempts) /\ attempts[i + n].email = e /\ attempts[i + n].mark = "counted"
    BY <1>2, <2>1
  <2> QED
    BY <2>1, <2>2 DEF FailuresByEmail
<1>4. f \in Injection(S, T)
  <2>1. f \in [S -> T]
    BY <1>3
  <2>2. \A i, j \in S : f[i] = f[j] => i = j
    BY <1>1, <1>3
  <2> HIDE DEF f
  <2> QED
    BY <2>1, <2>2 DEF Injection, IsInjective
<1> HIDE DEF f
<1>5. Cardinality(S) <= Cardinality(T)
  BY <1>4, CountsAreFinite, FS_Injection
<1>6. InFlight(e)' = InFlight(e)
  BY DEF LockoutTick, InFlight
<1> QED
  BY <1>5, <1>6, FewerCounted

LEMMA OthersKeepBound ==
    ASSUME LockoutTypeOK, LockoutTypeOK', NEW e \in Emails, Bound(e), UNCHANGED attempts,
           \/ UNCHANGED req
           \/ \E r \in Requests : AttemptUnrecorded(r)
    PROVE  Bound(e)'
<1>1. FailuresByEmail(e)' = FailuresByEmail(e)
  BY DEF FailuresByEmail
<1>2. InFlight(e)' \subseteq InFlight(e)
  <2>1. CASE UNCHANGED req
    BY <2>1 DEF InFlight
  <2>3. ASSUME NEW r \in Requests, AttemptUnrecorded(r)
        PROVE  InFlight(e)' \subseteq InFlight(e)
    BY <2>3 DEF AttemptUnrecorded, InFlight, LockoutTypeOK, Idle
  <2> QED
    BY <2>1, <2>3
<1>3. Cardinality(FailuresByEmail(e)) \in Nat
  BY CountsAreFinite
<1> QED
  BY <1>1, <1>2, <1>3, FewerCounted

LockoutInv == LimiterInv /\ LockoutTypeOK /\ GuessesAreBounded

LEMMA LockoutInitInv == LockoutInit => LockoutInv /\ Ideal!Init
<1> SUFFICES ASSUME LockoutInit PROVE LockoutInv /\ Ideal!Init
  OBVIOUS
<1>1. LimiterInv /\ Ideal!Init /\ LockoutTypeOK
  BY LimiterInitInv, LockoutInitTypes DEF LockoutInit
<1>2. ASSUME NEW e \in Emails
      PROVE  Bound(e)
  <2>1. FailuresByEmail(e) = {} /\ InFlight(e) = {}
    BY DEF LockoutInit, FailuresByEmail, InFlight, Idle
  <2>2. Cardinality({}) = 0
    BY FS_EmptySet
  <2>3. Cardinality(Requests) \in Nat
    BY FS_CardinalityType, LockoutAssumption
  <2> QED
    BY <2>1, <2>2, <2>3, LockoutAssumption DEF Bound, CountRecentFailuresByEmail
<1> QED
  BY <1>1, <1>2 DEF LockoutInv, GuessesAreBounded, Bound

LEMMA LockoutStep == LockoutInv /\ [LockoutNext]_lvars => LockoutInv' /\ [Ideal!Next]_level
<1> SUFFICES ASSUME LockoutInv, [LockoutNext]_lvars
             PROVE  LockoutInv' /\ [Ideal!Next]_level
  OBVIOUS
<1>1. LimiterInv' /\ [Ideal!Next]_level
  <2>1. BucketStep
    BY LockoutUsesLimiter DEF BucketStep, lvars
  <2> QED
    BY <2>1, BucketStepInv DEF LockoutInv
<1>2. LockoutTypeOK'
  <2>1. CASE LockoutNext
    BY <1>1, <2>1, LockoutStepTypes DEF LockoutInv, LimiterInv
  <2>2. CASE UNCHANGED lvars
    BY <2>2 DEF lvars, LockoutInv, LockoutTypeOK, LimiterTypeOK
  <2> QED
    BY <2>1, <2>2
<1>3. ASSUME NEW e \in Emails
      PROVE  Bound(e)'
  <2>1. LockoutTypeOK /\ Bound(e)
    BY DEF LockoutInv, GuessesAreBounded, Bound
  <2>2. CASE \E r \in Requests, ip \in Keys, f \in Emails : LoginStart(r, f, ip)
    BY <1>2, <2>1, <2>2, StartKeepsBound
  <2>3. CASE \E r \in Requests : RecordFailure(r)
    BY <1>2, <2>1, <2>3, FailureKeepsBound
  <2>4. CASE \E r \in Requests : RecordSuccess(r)
    BY <1>2, <2>1, <2>4, SuccessKeepsBound
  <2>5. CASE LockoutTick
    BY <1>2, <2>1, <2>5, TickKeepsBound
  <2>6. CASE \/ UNCHANGED lvars \/ Janitor
             \/ \E r \in Requests, ip \in Keys, f \in Emails : LoginLocked(r, f, ip)
    BY <1>2, <2>1, <2>6, OthersKeepBound DEF lvars, Janitor, LoginLocked
  <2>7. CASE \E r \in Requests, ip \in Keys : LoginLimited(r, ip)
    BY <1>2, <2>1, <2>7, OthersKeepBound DEF LoginLimited
  <2>8. CASE \E r \in Requests : AttemptUnrecorded(r)
    BY <1>2, <2>1, <2>8, OthersKeepBound DEF AttemptUnrecorded
  <2> QED
    BY <2>2, <2>3, <2>4, <2>5, <2>6, <2>7, <2>8 DEF LockoutNext, Proceed
<1> QED
  BY <1>1, <1>2, <1>3 DEF LockoutInv, GuessesAreBounded, Bound

\* The rows of login_attempts and the requests keep their types, at every
\* interleaving of the sign-ins, the limiter and time (lockout.go).
THEOREM LockoutTypeCorrect == LockoutSpec => []LockoutTypeOK
<1>1. LockoutInv => LockoutTypeOK
  BY DEF LockoutInv
<1> QED
  BY <1>1, LockoutInitInv, LockoutStep, PTL DEF LockoutSpec

\* Overlapping sign-ins pass the count of checkLockout by no more than there
\* are requests under way, for any thresholds, window and number of requests.
THEOREM OverlapBoundsGuesses == LockoutSpec => []GuessesAreBounded
<1>1. LockoutInv => GuessesAreBounded
  BY DEF LockoutInv
<1> QED
  BY <1>1, LockoutInitInv, LockoutStep, PTL DEF LockoutSpec

\* The sign-ins see ideal token buckets: the limiter's janitor, which drops
\* idle keys, changes no answer.
THEOREM SignInsSeeIdealBuckets == LockoutSpec => EvictionIsInvisible
<1>1. LockoutInv /\ [LockoutNext]_lvars => LockoutInv' /\ [Ideal!Next]_[k \in Keys |-> buckets[k].tokens]
  BY LockoutStep DEF level
<1> QED
  BY <1>1, LockoutInitInv, PTL DEF LockoutSpec, EvictionIsInvisible, Ideal!Spec
=============================================================================
