------------------------------ MODULE Lockout ------------------------------
(***************************************************************************)
(* The first half of POST /auth/login: the per-address rate limiter, the   *)
(* lockout kept in login_attempts, and the password check.  A request is a *)
(* goroutine that stops between its statements: the failures are counted   *)
(* before the password is checked and recorded after it, so requests that  *)
(* overlap pass the same count.  The second half is SignIn.                *)
(***************************************************************************)
EXTENDS RateLimiter, Sequences, FiniteSets

CONSTANTS Emails, Requests,
          NoIP,             \* login_attempts.ip is NULL
          StoreIP,          \* IP_LOG_RETENTION_DAYS > 0: addresses are kept
          Window,           \* ticks for which a failure counts
          EmailThreshold,   \* failures that lock an account
          IPThreshold       \* failures that lock an address

ASSUME LockoutAssumption ==
    /\ StoreIP \in BOOLEAN
    /\ NoIP \notin Keys
    /\ Window \in Nat \ {0}
    /\ EmailThreshold \in Nat \ {0}
    /\ IPThreshold \in Nat \ {0}
    /\ IsFiniteSet(Requests)

VARIABLES
    attempts,   \* failures in login_attempts still inside the window, oldest first
    req         \* where each request stands

lvars == <<buckets, attempts, req>>

\* The only query that reads a success asks for the failures after the last
\* one: a success is kept as a mark on the failures before it.
Attempt == [email : Emails, ip : Keys \cup {NoIP}, mark : {"counted", "cleared"}, age : 0..(Window - 1)]

Idle == [pc |-> "idle"]
Request == {Idle} \cup [pc : {"checked"}, email : Emails, ip : Keys]

LockoutTypeOK ==
    /\ LimiterTypeOK
    /\ attempts \in Seq(Attempt)
    /\ req \in [Requests -> Request]

LockoutInit == LimiterInit /\ attempts = <<>> /\ req = [r \in Requests |-> Idle]

-----------------------------------------------------------------------------
\* Failures after the last success, if there is one.
FailuresByEmail(e) ==
    {i \in 1..Len(attempts) : attempts[i].email = e /\ attempts[i].mark = "counted"}

CountRecentFailuresByEmail(e) == Cardinality(FailuresByEmail(e))

CountRecentFailuresByIP(ip) ==
    Cardinality({i \in 1..Len(attempts) : attempts[i].ip = ip})

\* A lockout that counts by address alone.
LockedByAddressOnly(e, ip) == CountRecentFailuresByIP(ip) >= IPThreshold

\* checkLockout: it reads only.
Locked(e, ip) == \/ CountRecentFailuresByEmail(e) >= EmailThreshold
                 \/ CountRecentFailuresByIP(ip) >= IPThreshold

Failure(e, ip) == [email |-> e, ip |-> IF StoreIP THEN ip ELSE NoIP, mark |-> "counted", age |-> 0]

\* recordAttempt, on a context that outlives the request.
RecordLoginAttempt(r, ok) ==
    attempts' = IF ok
                THEN [i \in 1..Len(attempts) |->
                         IF attempts[i].email = req[r].email
                         THEN [attempts[i] EXCEPT !.mark = "cleared"] ELSE attempts[i]]
                ELSE Append(attempts, Failure(req[r].email, req[r].ip))

-----------------------------------------------------------------------------
\* The limiter answers 429 before the handler runs.
LoginLimited(r, ip) ==
    /\ req[r] = Idle
    /\ Refuse(ip)
    /\ UNCHANGED <<attempts, req>>

LoginStart(r, e, ip) ==
    /\ req[r] = Idle
    /\ Allow(ip)
    /\ ~Locked(e, ip)
    /\ req' = [req EXCEPT ![r] = [pc |-> "checked", email |-> e, ip |-> ip]]
    /\ UNCHANGED attempts

\* A lockout that records what it refuses as another failure.
LoginLockedRecords(r, e, ip) ==
    /\ req[r] = Idle
    /\ Allow(ip)
    /\ Locked(e, ip)
    /\ attempts' = Append(attempts, Failure(e, ip))
    /\ UNCHANGED req

\* A locked account or address is refused, and the attempt is not recorded.
LoginLocked(r, e, ip) ==
    /\ req[r] = Idle
    /\ Allow(ip)
    /\ Locked(e, ip)
    /\ UNCHANGED <<attempts, req>>

\* GetUserByEmail and VerifyPassword change nothing, so the outcome is a choice
\* of the step that records it; an unknown account takes as long and fails as
\* a wrong password does.
Recorded(r, ok) ==
    /\ req[r].pc = "checked"
    /\ RecordLoginAttempt(r, ok)
    /\ req' = [req EXCEPT ![r] = Idle]
    /\ UNCHANGED buckets

RecordFailure(r) == Recorded(r, FALSE)

\* The request goes on to SignIn.
RecordSuccess(r) == Recorded(r, TRUE)

\* A statement fails: the look-up, or the INSERT, whose error is ignored.
AttemptUnrecorded(r) ==
    /\ req[r] # Idle
    /\ req' = [req EXCEPT ![r] = Idle]
    /\ UNCHANGED <<buckets, attempts>>

\* A tick ages the attempts; one that leaves the window is never read again
\* and PruneLoginAttempts deletes it within a day.  Rows are in the order of
\* their times, so the first n leave.
Outdated(n) == \A i \in 1..Len(attempts) : i <= n <=> attempts[i].age + 1 >= Window

LockoutTick ==
    /\ LimiterTick
    /\ \E n \in 0..Len(attempts) :
          /\ Outdated(n)
          /\ attempts' = [i \in 1..(Len(attempts) - n) |->
                             [attempts[i + n] EXCEPT !.age = @ + 1]]
    /\ UNCHANGED req

Janitor == Cleanup /\ UNCHANGED <<attempts, req>>

Proceed(r) == RecordFailure(r) \/ RecordSuccess(r) \/ AttemptUnrecorded(r)

LockoutNext ==
    \/ \E r \in Requests, ip \in Keys :
          \/ LoginLimited(r, ip)
          \/ \E e \in Emails : LoginStart(r, e, ip) \/ LoginLocked(r, e, ip)
    \/ \E r \in Requests : Proceed(r)
    \/ LockoutTick \/ Janitor

\* Requests are goroutines that run on, and time passes; nobody has to sign in.
LockoutSpec ==
    /\ LockoutInit /\ [][LockoutNext]_lvars
    /\ WF_lvars(LockoutTick)
    /\ \A r \in Requests : WF_lvars(Proceed(r))

-----------------------------------------------------------------------------
InFlight(e) == {r \in Requests : req[r].pc = "checked" /\ req[r].email = e}

\* checkLockout only reads and recordAttempt comes after the password check:
\* attempts that overlap can pass the same count.  They cannot pass it by more
\* than the number of requests that are under way at once, however the checks,
\* the records and the passing of time interleave.
GuessesAreBounded ==
    \A e \in Emails :
        CountRecentFailuresByEmail(e) + Cardinality(InFlight(e))
            <= EmailThreshold - 1 + Cardinality(Requests)

\* The lock of an account and the lock of an address each end although the
\* sign-ins go on, from other addresses and for other accounts as well:
\* refused attempts are not recorded, so hammering a locked account or address
\* does not keep it locked.  (One of the two may begin as the other ends.)
LocksEnd ==
    /\ \A e \in Emails :
          CountRecentFailuresByEmail(e) >= EmailThreshold ~>
              CountRecentFailuresByEmail(e) < EmailThreshold
    /\ \A ip \in Keys :
          CountRecentFailuresByIP(ip) >= IPThreshold ~> CountRecentFailuresByIP(ip) < IPThreshold
=============================================================================
