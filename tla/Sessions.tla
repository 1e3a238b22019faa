------------------------------- MODULE Sessions -------------------------------
(***************************************************************************)
(* Sessions and the rotation of refresh tokens: server/internal/auth/      *)
(* service.go over the sessions table.                                     *)
(*                                                                         *)
(* A refresh request makes up to three statements, each atomic in the      *)
(* database and each on its own: look the token up, compare-and-swap it    *)
(* for a fresh one, and, when the token turns out to have been used        *)
(* already, revoke the session.  Any number of requests interleave, with   *)
(* each other, with logins, logouts, device revocations, expiry and the    *)
(* clean-up of old rows.  Whoever holds a copy of a token may present it   *)
(* at any time: a client that retries, two clients that share it, a thief. *)
(*                                                                         *)
(* Access and refresh token are always issued together; the number of a    *)
(* token stands for the pair.  Hashing is injective and is left out.       *)
(***************************************************************************)
EXTENDS Integers, FiniteSets

CONSTANTS
    SessionIds,   \* ids of session rows; a row id is never used twice
    NoSession,    \* a value that is no session id
    DeviceOf,     \* the device each row is created for
    Requests,     \* slots for refresh requests in progress
    MaxTokens,    \* bound: how many token pairs are ever issued
    Fallible      \* the requests whose statements may fail

ASSUME SessionConstants ==
    /\ NoSession \notin SessionIds
    /\ MaxTokens \in Nat
    /\ Fallible \subseteq Requests

VARIABLES
    state,     \* of a row: "unused", "live", "revoked" (revoked_at set), "deleted"
    cur,       \* sessions.refresh_token_hash
    prev,      \* sessions.prev_refresh_hash; 0 is NULL
    expired,   \* rows whose refresh_expires_at has passed
    issued,    \* token pairs generated so far: they are 1..issued
    req,       \* refresh requests: where they are, with which token and row
    exchanges  \* history: triples <<token, token it was exchanged for, session>>

rows == <<state, cur, prev, expired>>
vars == <<state, cur, prev, expired, issued, req, exchanges>>

States == {"unused", "live", "revoked", "deleted"}
Stages == {"idle", "rotating", "missed", "revoking"}

SessionTypeOK ==
    /\ state \in [SessionIds -> States]
    /\ cur \in [SessionIds -> Nat]
    /\ prev \in [SessionIds -> Nat]
    /\ expired \in SUBSET SessionIds
    /\ issued \in Nat
    /\ req \in [Requests -> [at : Stages, tok : Nat, row : SessionIds \cup {NoSession}]]
    /\ exchanges \in SUBSET (Nat \X Nat \X SessionIds)

NoRequest == [at |-> "idle", tok |-> 0, row |-> NoSession]

Init ==
    /\ state = [s \in SessionIds |-> "unused"]
    /\ cur = [s \in SessionIds |-> 0]
    /\ prev = [s \in SessionIds |-> 0]
    /\ expired = {}
    /\ issued = 0
    /\ req = [q \in Requests |-> NoRequest]
    /\ exchanges = {}

\* The bound leaves a token for every request in progress.
CanIssue == issued + Cardinality({q \in Requests : req[q].at # "idle"}) < MaxTokens

-----------------------------------------------------------------------------
(***************************************************************************)
(* Opening and closing sessions.                                           *)
(***************************************************************************)

\* issueSession, in the transaction of Register or Login.
IssueSession(s) ==
    /\ state[s] = "unused"
    /\ CanIssue
    /\ state' = [state EXCEPT ![s] = "live"]
    /\ cur' = [cur EXCEPT ![s] = issued + 1]
    /\ issued' = issued + 1
    /\ UNCHANGED <<prev, expired, req, exchanges>>

\* UPDATE ... SET revoked_at WHERE revoked_at IS NULL, on the rows of S.
RevokeRows(S) ==
    state' = [s \in SessionIds |-> IF s \in S /\ state[s] = "live"
                                   THEN "revoked" ELSE state[s]]

\* Logout: the caller authenticated with an access token of s.
Logout(s) ==
    /\ state[s] = "live"
    /\ RevokeRows({s})
    /\ UNCHANGED <<cur, prev, expired, issued, req, exchanges>>

\* RevokeDevice, by the owner of the device from any of their sessions.
RevokeDevice(d) ==
    /\ RevokeRows({s \in SessionIds : DeviceOf[s] = d})
    /\ UNCHANGED <<cur, prev, expired, issued, req, exchanges>>

\* refresh_expires_at passes.
Expire(s) ==
    /\ state[s] \in {"live", "revoked"}
    /\ expired' = expired \cup {s}
    /\ UNCHANGED <<state, cur, prev, issued, req, exchanges>>

\* DeleteExpiredSessions, a day after expiry or revocation.
DeleteExpired(s) ==
    /\ state[s] = "revoked" \/ (state[s] = "live" /\ s \in expired)
    /\ state' = [state EXCEPT ![s] = "deleted"]
    /\ UNCHANGED <<cur, prev, expired, issued, req, exchanges>>

-----------------------------------------------------------------------------
(***************************************************************************)
(* Refresh, statement by statement.                                        *)
(***************************************************************************)

\* GetSessionByRefreshHash finds the row whose current token this is.
FindCurrent(t) == {s \in SessionIds : state[s] = "live" /\ s \notin expired /\ cur[s] = t}

\* GetSessionByPrevRefreshHash finds the row that had this token before.
FindPrevious(t) == {s \in SessionIds : state[s] = "live" /\ prev[s] = t}

\* The request arrives with token t and looks it up.
RefreshLookup(q, t) ==
    /\ req[q].at = "idle"
    /\ CanIssue
    /\ \/ \E s \in FindCurrent(t) :
            req' = [req EXCEPT ![q] = [at |-> "rotating", tok |-> t, row |-> s]]
       \/ /\ FindCurrent(t) = {}
          /\ req' = [req EXCEPT ![q] = [at |-> "missed", tok |-> t, row |-> NoSession]]
    /\ UNCHANGED <<rows, issued, exchanges>>

\* Faulty variant: the reuse is reported and the session goes on.
RefreshMissedReportsOnly(q) ==
    /\ req[q].at = "missed"
    /\ req' = [req EXCEPT ![q] = NoRequest]
    /\ UNCHANGED <<rows, issued, exchanges>>

\* Not a current token: a replayed previous one is reuse, any other is invalid.
RefreshMissed(q) ==
    /\ req[q].at = "missed"
    /\ \/ \E s \in FindPrevious(req[q].tok) :
            req' = [req EXCEPT ![q] = [at |-> "revoking", tok |-> req[q].tok, row |-> s]]
       \/ /\ FindPrevious(req[q].tok) = {}
          /\ req' = [req EXCEPT ![q] = NoRequest]
    /\ UNCHANGED <<rows, issued, exchanges>>

\* Faulty variant: the row keeps the token that was presented.
RotatedKeepsToken(s, t) ==
    /\ prev' = [prev EXCEPT ![s] = t]
    /\ expired' = expired \ {s}
    /\ issued' = issued + 1
    /\ exchanges' = exchanges \cup {<<t, issued + 1, s>>}
    /\ UNCHANGED <<state, cur>>

\* What RotateSession does to row s when a request presented token t.
Rotated(s, t) ==
    /\ cur' = [cur EXCEPT ![s] = issued + 1]
    /\ prev' = [prev EXCEPT ![s] = t]
    /\ expired' = expired \ {s}
    /\ issued' = issued + 1
    /\ exchanges' = exchanges \cup {<<t, issued + 1, s>>}
    /\ UNCHANGED state

\* Faulty variants: the update is keyed on the row id and revoked_at only; on the
\* id and the token only; the loser of the race leaves the session alone.
RefreshRotateById(q) ==
    LET s == req[q].row IN
    /\ req[q].at = "rotating"
    /\ \/ /\ state[s] = "live"
          /\ Rotated(s, req[q].tok)
          /\ req' = [req EXCEPT ![q] = NoRequest]
       \/ /\ state[s] # "live"
          /\ req' = [req EXCEPT ![q].at = "revoking"]
          /\ UNCHANGED <<rows, issued, exchanges>>

RefreshRotateLoserGoes(q) ==
    LET s == req[q].row IN
    /\ req[q].at = "rotating"
    /\ req' = [req EXCEPT ![q] = NoRequest]
    /\ \/ /\ state[s] = "live" /\ cur[s] = req[q].tok
          /\ Rotated(s, req[q].tok)
       \/ /\ state[s] # "live" \/ cur[s] # req[q].tok
          /\ UNCHANGED <<rows, issued, exchanges>>

\* RotateSession, a compare-and-swap on the presented token.  Expiry is not
\* looked at again.  No row matched means that another request was faster.
RefreshRotate(q) ==
    LET s == req[q].row IN
    /\ req[q].at = "rotating"
    /\ \/ /\ state[s] = "live" /\ cur[s] = req[q].tok
          /\ Rotated(s, req[q].tok)
          /\ req' = [req EXCEPT ![q] = NoRequest]
       \/ /\ state[s] # "live" \/ cur[s] # req[q].tok
          /\ req' = [req EXCEPT ![q].at = "revoking"]
          /\ UNCHANGED <<rows, issued, exchanges>>

\* RevokeSession after a reuse was found.
RefreshRevoke(q) ==
    /\ req[q].at = "revoking"
    /\ RevokeRows({req[q].row})
    /\ req' = [req EXCEPT ![q] = NoRequest]
    /\ UNCHANGED <<cur, prev, expired, issued, exchanges>>

\* The next statement fails: the client has gone and its request context is
\* cancelled, or the database returns an error.  The error of RevokeSession is
\* ignored, any other is returned; the table is as it was.
RefreshFails(q) ==
    /\ q \in Fallible
    /\ req[q].at # "idle"
    /\ req' = [req EXCEPT ![q] = NoRequest]
    /\ UNCHANGED <<rows, issued, exchanges>>

-----------------------------------------------------------------------------
Next ==
    \/ \E s \in SessionIds : \/ IssueSession(s) \/ Logout(s)
                             \/ Expire(s) \/ DeleteExpired(s)
    \/ \E s \in SessionIds : RevokeDevice(DeviceOf[s])
    \/ \E q \in Requests : \/ \E t \in 1..issued : RefreshLookup(q, t)
                           \/ RefreshMissed(q)
                           \/ RefreshRotate(q)
                           \/ RefreshRevoke(q)
                           \/ RefreshFails(q)

Spec == Init /\ [][Next]_vars

\* A request that has arrived is executed to its end.  Nobody need log in,
\* refresh or log out, and no row need expire or be deleted.
FairSpec ==
    /\ Spec
    /\ \A q \in Requests : /\ WF_vars(RefreshMissed(q))
                           /\ WF_vars(RefreshRotate(q))
                           /\ WF_vars(RefreshRevoke(q))

-----------------------------------------------------------------------------
\* Rotation with each refresh one atomic exchange.
Chain == INSTANCE RefreshChain WITH
            Sessions <- SessionIds,
            spent <- {x[1] : x \in exchanges}

\* The statements of concurrent refreshes add up to atomic exchanges: every
\* refresh token is exchanged only while it is the current token of a live
\* session (service.go, Refresh; sessions.sql, RotateSession).
RefreshIsAtomic == Chain!Spec

\* A refresh token yields at most one successor, however many requests present
\* it at once: the compare-and-swap admits no double spend (RotateSession:
\* "two concurrent refreshes of the same token cannot both succeed").
ExchangedOnce ==
    \A x, y \in exchanges : x[1] = y[1] => x = y

\* A revoked session never comes back: a refresh that had looked its token up
\* before the logout does not give the session a new token after it
\* (RotateSession, "AND revoked_at IS NULL").
RevokedIsFinal ==
    [][\A s \in SessionIds :
         state[s] \in {"revoked", "deleted"} =>
             /\ state'[s] \in {"revoked", "deleted"}
             /\ cur'[s] = cur[s]]_vars

\* Two requests that both found the same token current, and whose statements do
\* not fail, end with the session revoked, whoever won (service.go, Refresh: "a double-spend of the same
\* refresh token. Treat it as reuse and revoke the session").
DoubleSpendRevokes ==
    \A p, q \in Requests \ Fallible, s \in SessionIds :
        (/\ p # q
         /\ req[p].at = "rotating" /\ req[p].row = s
         /\ req[q].at = "rotating" /\ req[q].row = s
         /\ req[p].tok = req[q].tok)
            ~> (state[s] # "live")

\* A token presented right after it was rotated out ends the session, unless the
\* session moves on by yet another rotation before the token is looked for
\* (service.go, Refresh: "Presenting an already-rotated (previous) token is
\* treated as theft and revokes the session").
PreviousTokenRevokes ==
    \A q \in Requests \ Fallible, s \in SessionIds, t \in 1..MaxTokens :
        (req[q].at = "missed" /\ req[q].tok = t /\ state[s] = "live" /\ prev[s] = t)
            ~> (state[s] # "live" \/ prev[s] # t)

=============================================================================
