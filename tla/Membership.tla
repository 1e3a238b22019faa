----------------------------- MODULE Membership -----------------------------
(***************************************************************************)
(* Who belongs to a circle: members and their roles, invites, leaving,     *)
(* removal and deletion (server/internal/httpapi/circles.go, invites.go,   *)
(* helpers.go and the queries behind them).                                *)
(*                                                                         *)
(* A request is served in two steps or more.  requireCircleMember reads    *)
(* the caller's membership and the handler checks the role at once on what *)
(* was read; the query that takes effect runs later, on whatever the       *)
(* tables then hold.  Between the two, other requests are served.  Only    *)
(* what a single query or a transaction does is atomic.                    *)
(*                                                                         *)
(* One circle is modelled, from the moment its founder has created it.     *)
(* The evictions and events that follow a removal are in CircleFeed, the   *)
(* key's epoch is in KeyRotation; nothing here depends on them.            *)
(***************************************************************************)
EXTENDS Integers

CONSTANTS
    Users,     \* accounts
    Founder,   \* the one who created the circle
    Invites,   \* invite ids
    Calls,     \* slots for requests being served
    None,      \* a value that is no user, no invite and no mode
    Modes,     \* precision modes; the code has precise, city and paused
    UsesCap    \* the largest max_uses an invite may have: 1000 in the code

ASSUME MembershipConstants ==
    /\ Founder \in Users
    /\ None \notin Users \union Invites \union Modes
    /\ "precise" \in Modes
    /\ UsesCap \in Nat \ {0}

VARIABLES
    exists,  \* whether the row of circles is there
    role,    \* circle_members.role; "none" when there is no row
    mode,    \* circle_members.precision_mode; None when there is no row
    invite,  \* rows of invites; status "unused" when there is no row
    call     \* requests between their first read and their last query

vars == <<exists, role, mode, invite, call>>

InviteRoles == {"member", "guardian"}
Roles == {"none", "owner"} \union InviteRoles
Statuses == {"unused", "active", "revoked"}
Operations == {"create_invite", "revoke_invite", "accept_invite", "remove_member",
               "count_owners", "leave", "delete_circle", "set_precision"}

NoInvite == [status |-> "unused", role |-> "member", max |-> 1, uses |-> 0, expired |-> FALSE]
NoCall == [op |-> "none", user |-> None, about |-> None]
Served(op, u, x) == [op |-> op, user |-> u, about |-> x]

\* What handleCreateCircle's transaction leaves behind.
Init ==
    /\ exists = TRUE
    /\ role = [u \in Users |-> IF u = Founder THEN "owner" ELSE "none"]
    /\ mode = [u \in Users |-> IF u = Founder THEN "precise" ELSE None]
    /\ invite = [i \in Invites |-> NoInvite]
    /\ call = [r \in Calls |-> NoCall]

-----------------------------------------------------------------------------
(* The first step of a request: read, check, go on or answer at once.  A   *)
(* request that is refused here changes nothing and is left out.           *)

\* requireCircleMember, then the handler's check of the role that was read.
Authorise(r, u, allowed, op, x) ==
    /\ call[r] = NoCall
    /\ role[u] \in allowed
    /\ call' = [call EXCEPT ![r] = Served(op, u, x)]
    /\ UNCHANGED <<exists, role, mode, invite>>

BeginCreateInvite(r, u) == Authorise(r, u, {"owner", "member"}, "create_invite", None)

BeginRevokeInvite(r, u, i) == Authorise(r, u, {"owner"}, "revoke_invite", i)

BeginRemoveMember(r, u, target) ==
    /\ target # u
    /\ Authorise(r, u, {"owner"}, "remove_member", target)

\* An owner is counted first; anyone else goes straight to the removal.
BeginLeave(r, u) ==
    \/ Authorise(r, u, {"owner"}, "count_owners", None)
    \/ Authorise(r, u, InviteRoles, "leave", None)

BeginDeleteCircle(r, u) == Authorise(r, u, {"owner"}, "delete_circle", None)

BeginSetPrecision(r, u, m) ==
    Authorise(r, u, {"owner"} \union InviteRoles, "set_precision", m)

\* handleAcceptInvite is not behind requireCircleMember.  It reads the invite,
\* of which it keeps only the circle, and answers "already_member" to a member.
BeginAcceptInvite(r, u, i) ==
    /\ call[r] = NoCall
    /\ invite[i].status # "unused"
    /\ role[u] = "none"
    /\ call' = [call EXCEPT ![r] = Served("accept_invite", u, i)]
    /\ UNCHANGED <<exists, role, mode, invite>>

-----------------------------------------------------------------------------
(* The steps that take effect.                                             *)

Done(r) == call' = [call EXCEPT ![r] = NoCall]

\* max_uses defaults to 1; asking for more than the limit is refused at once.
Granted(asked) == IF asked <= 0 THEN 1 ELSE asked

\* The foreign key refuses an invite into a circle that is gone.
CreateInvite(r) ==
    /\ call[r].op = "create_invite"
    /\ exists
    /\ \E i \in Invites, ir \in InviteRoles, asked \in 0..UsesCap :
          /\ invite[i].status = "unused"
          /\ invite' = [invite EXCEPT ![i] =
                [status |-> "active", role |-> ir, max |-> Granted(asked),
                 uses |-> 0, expired |-> FALSE]]
    /\ Done(r)
    /\ UNCHANGED <<exists, role, mode>>

\* An UPDATE: it does nothing when the row is gone.
RevokeInvite(r) ==
    /\ call[r].op = "revoke_invite"
    /\ invite' = [i \in Invites |->
                    IF i = call[r].about /\ invite[i].status # "unused"
                    THEN [invite[i] EXCEPT !.status = "revoked"]
                    ELSE invite[i]]
    /\ Done(r)
    /\ UNCHANGED <<exists, role, mode>>

\* The WHERE clause of ConsumeInvite.
Live(inv) == inv.status = "active" /\ ~inv.expired /\ inv.uses < inv.max

\* An upsert: a member who is there already keeps the precision mode.
AddMember(u, rl) ==
    /\ role' = [role EXCEPT ![u] = rl]
    /\ mode' = [mode EXCEPT ![u] = IF role[u] = "none" THEN "precise" ELSE mode[u]]

\* The transaction of handleAcceptInvite, with the invite's row accepted if ok.
Consume(r, ok) ==
    LET u == call[r].user
        i == call[r].about
    IN  /\ call[r].op = "accept_invite"
        /\ \/ /\ ok
              /\ invite' = [invite EXCEPT ![i].uses = @ + 1]
              /\ AddMember(u, invite[i].role)
           \/ /\ ~ok
              /\ UNCHANGED <<invite, role, mode>>
        /\ Done(r)
        /\ UNCHANGED exists

\* Mutant: the expiry is not compared again.
AcceptInviteLate(r) ==
    LET inv == invite[call[r].about]
    IN  Consume(r, inv.status = "active" /\ inv.uses < inv.max)

\* Mutant: the uses are not compared again.
AcceptInviteUncounted(r) ==
    LET inv == invite[call[r].about]
    IN  Consume(r, inv.status = "active" /\ ~inv.expired)

\* One transaction: a use is consumed and the caller added, or neither.
AcceptInvite(r) == Consume(r, Live(invite[call[r].about]))

DropMember(u) ==
    /\ role' = [role EXCEPT ![u] = "none"]
    /\ mode' = [mode EXCEPT ![u] = None]

RemoveMember(r) ==
    /\ call[r].op = "remove_member"
    /\ DropMember(call[r].about)
    /\ Done(r)
    /\ UNCHANGED <<exists, invite>>

Owners == {u \in Users : role[u] = "owner"}

\* Mutant: off by one.
CountOwnersLoosely(r) ==
    /\ call[r].op = "count_owners"
    /\ call' = [call EXCEPT ![r] = IF Owners # {}
                                   THEN Served("leave", call[r].user, None)
                                   ELSE NoCall]
    /\ UNCHANGED <<exists, role, mode, invite>>

\* owners <= 1 is answered with a conflict.
CountOwners(r) ==
    /\ call[r].op = "count_owners"
    /\ call' = [call EXCEPT ![r] = IF \E u, v \in Owners : u # v
                                   THEN Served("leave", call[r].user, None)
                                   ELSE NoCall]
    /\ UNCHANGED <<exists, role, mode, invite>>

Leave(r) ==
    /\ call[r].op = "leave"
    /\ DropMember(call[r].user)
    /\ Done(r)
    /\ UNCHANGED <<exists, invite>>

\* Members and invites go with the circle (ON DELETE CASCADE).
DeleteCircle(r) ==
    /\ call[r].op = "delete_circle"
    /\ exists' = FALSE
    /\ role' = [u \in Users |-> "none"]
    /\ mode' = [u \in Users |-> None]
    /\ invite' = [i \in Invites |-> NoInvite]
    /\ Done(r)

\* An UPDATE ... RETURNING: without a row it is an error and changes nothing.
SetPrecision(r) ==
    /\ call[r].op = "set_precision"
    /\ mode' = [u \in Users |-> IF u = call[r].user /\ role[u] # "none"
                                THEN call[r].about
                                ELSE mode[u]]
    /\ Done(r)
    /\ UNCHANGED <<exists, role, invite>>

\* A query fails or the client goes away: the handler answers with an error.
RequestFails(r) ==
    /\ call[r] # NoCall
    /\ Done(r)
    /\ UNCHANGED <<exists, role, mode, invite>>

\* Time passes expires_at.
Expire(i) ==
    /\ invite[i].status # "unused"
    /\ ~invite[i].expired
    /\ invite' = [invite EXCEPT ![i].expired = TRUE]
    /\ UNCHANGED <<exists, role, mode, call>>

Begin(r, u) ==
    \/ BeginCreateInvite(r, u)
    \/ \E i \in Invites : BeginRevokeInvite(r, u, i)
    \/ \E target \in Users : BeginRemoveMember(r, u, target)
    \/ BeginLeave(r, u)
    \/ BeginDeleteCircle(r, u)
    \/ \E m \in Modes : BeginSetPrecision(r, u, m)
    \/ \E i \in Invites : BeginAcceptInvite(r, u, i)

Effect(r) ==
    \/ CreateInvite(r)
    \/ RevokeInvite(r)
    \/ AcceptInvite(r)
    \/ RemoveMember(r)
    \/ CountOwners(r)
    \/ Leave(r)
    \/ DeleteCircle(r)
    \/ SetPrecision(r)
    \/ RequestFails(r)

Next ==
    \/ \E r \in Calls, u \in Users : Begin(r, u)
    \/ \E r \in Calls : Effect(r)
    \/ \E i \in Invites : Expire(i)

Spec == Init /\ [][Next]_vars

-----------------------------------------------------------------------------
(* Properties.                                                             *)

\* The rows of the tables and the requests being served have their types: the
\* CHECKs of the schema never refuse what the handlers write.
MembershipTypeOK ==
    /\ exists \in BOOLEAN
    /\ role \in [Users -> Roles]
    /\ mode \in [Users -> Modes \union {None}]
    /\ invite \in [Invites -> [status : Statuses, role : InviteRoles,
                               max : 1..UsesCap, uses : 0..UsesCap, expired : BOOLEAN]]
    /\ \A r \in Calls :
          \/ call[r] = NoCall
          \/ call[r] \in [op : Operations, user : Users,
                         about : Users \union Invites \union Modes \union {None}]

\* A circle always has exactly one owner, its founder, who can always delete
\* it: no order of leaving, removing and accepting orphans it or makes another
\* (handleLeaveCircle, handleRemoveMember, handleAcceptInvite).  A deleted
\* circle has no member, and nothing under way brings one back.
OwnedOrGone ==
    /\ exists => \A u \in Users : role[u] = "owner" <=> u = Founder
    /\ ~exists => \A u \in Users : role[u] = "none"

\* Who becomes a member, or changes role, does so by an invite that is active,
\* unexpired and not used up at that very moment, with the role it carries and
\* at the cost of one use, whatever was read when the request began
\* (handleAcceptInvite, ConsumeInvite).
RoleIsInvited ==
    [][\A u \in Users :
          role'[u] \notin {role[u], "none"} =>
              \E i \in Invites : /\ Live(invite[i])
                                 /\ invite[i].role = role'[u]
                                 /\ invite'[i].uses = invite[i].uses + 1]_vars

\* Revocation and expiry are final, and uses are never given back, as long as
\* the circle exists (ConsumeInvite, RevokeInvite).
InviteOnlyWearsOut ==
    [][exists' => \A i \in Invites :
          invite[i].status # "unused" =>
              /\ ~Live(invite[i]) => ~Live(invite'[i])
              /\ invite'[i].uses \in invite[i].uses .. invite[i].max
              /\ invite'[i].max = invite[i].max]_vars

\* The precision mode of somebody who is and stays a member changes only by
\* that member's own request: no second accept and no other request undoes a
\* pause (handleSetPrecision, AddMember's ON CONFLICT).
ModeIsOnesOwn ==
    [][\A u \in Users :
          (role[u] # "none" /\ role'[u] # "none" /\ mode'[u] # mode[u]) =>
              \E r \in Calls : call[r] = Served("set_precision", u, mode'[u])]_vars

=============================================================================
