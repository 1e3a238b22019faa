------------------------------- MODULE SignIn -------------------------------
(***************************************************************************)
(* Accounts, devices and the sessions that join them: registration, the    *)
(* second half of a sign-in (the first is Lockout), sign-out and the       *)
(* revocation of a device.  Requests stop between their statements, on     *)
(* either backend of the store.                                            *)
(***************************************************************************)
EXTENDS StoreBackend, Naturals, Sequences

CONSTANTS Emails, Requests, PubKeys,
          NoKey,                       \* a device without an identity key
          MaxDevices, MaxSessions      \* bounds of the tables

ASSUME SignInAssumption ==
    /\ NoKey \notin PubKeys
    /\ MaxDevices \in Nat /\ MaxSessions \in Nat

VARIABLES
    users,      \* the registered addresses
    devices,    \* rows of devices, by id
    sessions,   \* rows of sessions, by id
    req         \* where each request stands

tables == <<users, devices, sessions>>
svars == <<backend, tables, req>>

NoDevice == 0
Device == [owner : Emails, key : PubKeys \cup {NoKey}]
Session == [user : Emails, device : 1..MaxDevices, live : BOOLEAN]

Idle == [pc |-> "idle"]
Request ==
    {Idle} \cup [pc : {"hashing", "verified"}, email : Emails]
           \cup [pc : {"resolved"}, email : Emails, device : 0..MaxDevices,
                 key : PubKeys \cup {NoKey}, stale : BOOLEAN]

SignInTypeOK ==
    /\ backend \in Backends
    /\ users \subseteq Emails
    /\ devices \in Seq(Device) /\ Len(devices) <= MaxDevices
    /\ sessions \in Seq(Session) /\ Len(sessions) <= MaxSessions
    /\ req \in [Requests -> Request]

SignInInit ==
    /\ BackendInit
    /\ users = {} /\ devices = <<>> /\ sessions = <<>>
    /\ req = [r \in Requests |-> Idle]

-----------------------------------------------------------------------------
EmailExists(e) == e \in users

\* A look-up of the id alone.
GetDeviceForAnyUser(d, e) == d \in 1..Len(devices)

GetDeviceForUser(d, e) == d \in 1..Len(devices) /\ devices[d].owner = e

ListDevicesForUser(e) == {d \in 1..Len(devices) : devices[d].owner = e}

CreateDevice(e, k) ==
    /\ Len(devices) < MaxDevices
    /\ devices' = Append(devices, [owner |-> e, key |-> k])

SetDevicePubkey(d, k) == devices' = [devices EXCEPT ![d].key = k]

\* issueSession
CreateSession(e, d) ==
    /\ Len(sessions) < MaxSessions
    /\ sessions' = Append(sessions, [user |-> e, device |-> d, live |-> TRUE])

\* A commit makes the snapshots of open SQLite transactions old.
Committed(q) ==
    [r \in Requests |-> IF IsSQLite /\ q[r].pc = "resolved"
                        THEN [q[r] EXCEPT !.stale = TRUE] ELSE q[r]]

Goto(r, s) == [req EXCEPT ![r] = s]

-----------------------------------------------------------------------------
(* POST /auth/register *)

\* The address is free; the password is hashed next, which takes a while.
RegisterStart(r, e) ==
    /\ req[r] = Idle
    /\ ~EmailExists(e)
    /\ req' = Goto(r, [pc |-> "hashing", email |-> e])
    /\ UNCHANGED <<backend, tables>>

\* Without a transaction: the session cannot be stored and the rest stays.
RegisterCommitTorn(r, k) ==
    /\ req[r].pc = "hashing"
    /\ ~EmailExists(req[r].email)
    /\ users' = users \cup {req[r].email}
    /\ CreateDevice(req[r].email, k)
    /\ sessions' = sessions
    /\ req' = Committed(Goto(r, Idle))
    /\ UNCHANGED backend

\* CreateUser, CreateDevice and issueSession in one transaction.
RegisterCommit(r, k) ==
    /\ req[r].pc = "hashing"
    /\ ~EmailExists(req[r].email)
    /\ users' = users \cup {req[r].email}
    /\ CreateDevice(req[r].email, k)
    /\ CreateSession(req[r].email, Len(devices) + 1)
    /\ req' = Committed(Goto(r, Idle))
    /\ UNCHANGED backend

\* A statement fails (the unique index, when the address was taken meanwhile)
\* and everything is rolled back.
RegisterFails(r) ==
    /\ req[r].pc = "hashing"
    /\ req' = Goto(r, Idle)
    /\ UNCHANGED <<backend, tables>>

-----------------------------------------------------------------------------
(* POST /auth/login, once the password is verified and the attempt recorded. *)

LoginVerified(r, e) ==
    /\ req[r] = Idle
    /\ EmailExists(e)
    /\ req' = Goto(r, [pc |-> "verified", email |-> e])
    /\ UNCHANGED <<backend, tables>>

Resolved(r, d, k) ==
    [pc |-> "resolved", email |-> req[r].email, device |-> d, key |-> k, stale |-> FALSE]

\* resolveOrCreateDevice with a device id: the device has to be the user's.
\* A key is adopted if the device, as read here, has none.
ResolveById(r, d, k) ==
    /\ req[r].pc = "verified"
    /\ req' = Goto(r, IF GetDeviceForUser(d, req[r].email)
                      THEN Resolved(r, d, IF devices[d].key = NoKey THEN k ELSE NoKey)
                      ELSE Idle)
    /\ UNCHANGED <<backend, tables>>

\* Always a new device for a sign-in that names none.
ResolveByNothing(r, k) ==
    /\ req[r].pc = "verified"
    /\ req' = Goto(r, Resolved(r, NoDevice, k))
    /\ UNCHANGED <<backend, tables>>

\* Without an id the first device with the same key is adopted.
ResolveByKey(r, k) ==
    /\ req[r].pc = "verified"
    /\ LET same == {d \in ListDevicesForUser(req[r].email) : k # NoKey /\ devices[d].key = k}
       IN  req' = Goto(r, IF same = {} THEN Resolved(r, NoDevice, k)
                          ELSE Resolved(r, CHOOSE d \in same : \A c \in same : d <= c, NoKey))
    /\ UNCHANGED <<backend, tables>>

\* Neither an id nor a key: the transaction begins with its first write.
ReadNothing(r) == req[r].device = NoDevice /\ req[r].key = NoKey

\* CreateDevice or SetDevicePubkey, issueSession, and the commit.
LoginCommit(r) ==
    /\ req[r].pc = "resolved"
    /\ req[r].stale => ReadNothing(r)
    /\ LET d == req[r].device
           k == req[r].key
       IN  /\ \/ d = NoDevice /\ CreateDevice(req[r].email, k)
              \/ d # NoDevice /\ k # NoKey /\ SetDevicePubkey(d, k)
              \/ d # NoDevice /\ k = NoKey /\ UNCHANGED devices
           /\ CreateSession(req[r].email, IF d = NoDevice THEN Len(devices) + 1 ELSE d)
    /\ req' = Committed(Goto(r, Idle))
    /\ UNCHANGED <<backend, users>>

\* SQLITE_BUSY, or any other failure: rolled back, and the answer is 500.
LoginFails(r) ==
    /\ req[r].pc \in {"verified", "resolved"}
    /\ req' = Goto(r, Idle)
    /\ UNCHANGED <<backend, tables>>

-----------------------------------------------------------------------------
(* Authenticated requests, and the rest of the server. *)

\* GetSessionByAccessHash finds a session that is not revoked; Sessions has its
\* expiry.
Resolve(s) == s \in 1..Len(sessions) /\ sessions[s].live

\* The user behind the access token, if there is one.
RequireAuth(s, u) == Resolve(s) /\ sessions[s].user = u

Logout(s) ==
    /\ \E u \in users : RequireAuth(s, u)
    /\ sessions' = [sessions EXCEPT ![s].live = FALSE]
    /\ req' = Committed(req)
    /\ UNCHANGED <<backend, users, devices>>

\* DELETE /account/devices/{id}: all sessions of a device the caller owns.
RevokeDevice(s, d) ==
    /\ \E u \in users : RequireAuth(s, u) /\ GetDeviceForUser(d, u)
    /\ sessions' = [i \in 1..Len(sessions) |->
                       IF sessions[i].device = d
                       THEN [sessions[i] EXCEPT !.live = FALSE] ELSE sessions[i]]
    /\ req' = Committed(req)
    /\ UNCHANGED <<backend, users, devices>>

\* Some other part of the server commits: a failed attempt, a ping, a key.
OtherWrite ==
    /\ req' = Committed(req)
    /\ UNCHANGED <<backend, tables>>

SignInNext ==
    \/ \E r \in Requests, e \in Emails : RegisterStart(r, e) \/ LoginVerified(r, e)
    \/ \E r \in Requests, k \in PubKeys \cup {NoKey} :
          \/ RegisterCommit(r, k)
          \/ ResolveByKey(r, k)
          \/ \E d \in 1..MaxDevices : ResolveById(r, d, k)
    \/ \E r \in Requests : RegisterFails(r) \/ LoginCommit(r) \/ LoginFails(r)
    \/ \E s \in 1..MaxSessions : Logout(s) \/ \E d \in 1..MaxDevices : RevokeDevice(s, d)
    \/ OtherWrite

SignInSpec == SignInInit /\ [][SignInNext]_svars

-----------------------------------------------------------------------------
\* A session never joins a user to a device of somebody else, whatever device
\* id the sign-in named and whatever happened between its statements.
SessionsOfOwnDevices ==
    \A i \in 1..Len(sessions) : devices[sessions[i].device].owner = sessions[i].user

\* Registration is all or nothing, also when two register one address at once:
\* every account has a device, every device an account and a session.
AccountsAreWhole ==
    /\ users = {devices[d].owner : d \in 1..Len(devices)}
    /\ \A d \in 1..Len(devices) : \E i \in 1..Len(sessions) : sessions[i].device = d

\* On SQLite a sign-in never creates a second device for a key its user has
\* already, and never replaces the key of a device, although both are decided
\* by a read that comes before the write: the snapshot of an overlapping
\* sign-in is old and its transaction fails.
DeviceIdentityIsStable ==
    [][IsSQLite =>
        /\ \A d \in 1..Len(devices) :
              devices[d].key # NoKey => devices'[d].key = devices[d].key
        /\ \A d \in 1..Len(devices') :
              d > Len(devices) /\ devices'[d].key # NoKey =>
                \A c \in 1..Len(devices) : devices[c] # devices'[d]]_svars

=============================================================================
