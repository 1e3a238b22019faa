-------------------------- MODULE MembershipProofs --------------------------
(***************************************************************************)
(* Proofs about Membership, for any number of users, invites and requests. *)
(***************************************************************************)
EXTENDS Membership, TLAPS

InviteRows == [status : Statuses, role : InviteRoles,
               max : 1..UsesCap, uses : 0..UsesCap, expired : BOOLEAN]
Subjects == Users \union Invites \union Modes \union {None}

(* What is known of a request between its steps.  The founder's role was   *)
(* "owner" whenever it was read, so no accept and no leave is under way    *)
(* for the founder, and no removal of the founder.                         *)
UnderWay(r) ==
    /\ call[r].op = "accept_invite" => call[r].about \in Invites /\ call[r].user # Founder
    /\ call[r].op = "remove_member" => call[r].about \in Users \ {Founder}
    /\ call[r].op = "leave" => call[r].user # Founder
    /\ call[r].op = "set_precision" => call[r].about \in Modes

(* With a deleted circle its invites are gone as well.                     *)
DeletedInvitesGone == ~exists => \A i \in Invites : invite[i].status = "unused"

Inv ==
    /\ MembershipTypeOK
    /\ OwnedOrGone
    /\ DeletedInvitesGone
    /\ \A r \in Calls : UnderWay(r)

(* The domain of call is not part of the type invariant's pointwise form.   *)
ReqFun == call = [r \in Calls |-> call[r]]

-----------------------------------------------------------------------------

(* The state handleCreateCircle leaves satisfies the invariant.            *)
LEMMA InitInv == Init => Inv /\ ReqFun
<1> SUFFICES ASSUME Init PROVE Inv /\ ReqFun
  OBVIOUS
<1> USE MembershipConstants DEF Init
<1>1. MembershipTypeOK
  BY DEF MembershipTypeOK, Roles, InviteRoles, Statuses, NoInvite
<1>2. OwnedOrGone
  BY DEF OwnedOrGone
<1>3. DeletedInvitesGone /\ \A r \in Calls : UnderWay(r)
  BY DEF DeletedInvitesGone, UnderWay, NoCall
<1> QED
  BY <1>1, <1>2, <1>3 DEF Inv, ReqFun

(* Replacing one request, by an idle slot or by one that is well formed,   *)
(* keeps what is known of the requests.                                    *)
LEMMA ReqStep ==
    ASSUME Inv, ReqFun, NEW r \in Calls, NEW v,
           call' = [call EXCEPT ![r] = v],
           \/ v = NoCall
           \/ /\ v \in [op : Operations, user : Users, about : Subjects]
              /\ v.op = "accept_invite" => v.about \in Invites /\ v.user # Founder
              /\ v.op = "remove_member" => v.about \in Users \ {Founder}
              /\ v.op = "leave" => v.user # Founder
              /\ v.op = "set_precision" => v.about \in Modes
    PROVE  /\ ReqFun'
           /\ \A q \in Calls : UnderWay(q)'
           /\ \A q \in Calls :
                 \/ call'[q] = NoCall
                 \/ call'[q] \in [op : Operations, user : Users, about : Subjects]
<1>1. \A q \in Calls : call'[q] = IF q = r THEN v ELSE call[q]
  BY DEF ReqFun
<1>2. ReqFun'
  BY DEF ReqFun
<1>3. ASSUME NEW q \in Calls
      PROVE  /\ UnderWay(q)'
             /\ \/ call'[q] = NoCall
                \/ call'[q] \in [op : Operations, user : Users, about : Subjects]
  <2>1. CASE q = r
    <3>1. call'[q] = v
      BY <1>1, <2>1
    <3> QED
      BY <3>1 DEF UnderWay, NoCall
  <2>2. CASE q # r
    <3>1. call'[q] = call[q]
      BY <1>1, <2>2
    <3>2. UnderWay(q) /\ (\/ call[q] = NoCall
                          \/ call[q] \in [op : Operations, user : Users, about : Subjects])
      BY DEF Inv, MembershipTypeOK, Subjects
    <3> QED
      BY <3>1, <3>2 DEF UnderWay
  <2> QED
    BY <2>1, <2>2
<1> QED
  BY <1>2, <1>3

(* The slot a request takes when it begins.                                *)
BegunAs(r, u, op, x) ==
    /\ call' = [call EXCEPT ![r] = Served(op, u, x)]
    /\ op \in Operations
    /\ x \in Subjects
    /\ op = "accept_invite" => x \in Invites /\ u # Founder
    /\ op = "remove_member" => x \in Users \ {Founder}
    /\ op = "leave" => u # Founder
    /\ op = "set_precision" => x \in Modes

(* A request that begins: the tables stand still.                          *)
LEMMA BeginStep ==
    ASSUME Inv, ReqFun, NEW r \in Calls, NEW u \in Users, Begin(r, u)
    PROVE  Inv' /\ ReqFun'
<1> USE MembershipConstants
<1>0. UNCHANGED <<exists, role, mode, invite>>
  BY DEF Begin, BeginCreateInvite, BeginRevokeInvite, BeginRemoveMember, BeginLeave,
         BeginDeleteCircle, BeginSetPrecision, BeginAcceptInvite, Authorise
<1>1. \E op, x : BegunAs(r, u, op, x)
  <2> USE DEF Authorise, Operations, Subjects, BegunAs
  <2>a. exists => \A w \in Users : role[w] = "owner" <=> w = Founder
    BY DEF Inv, OwnedOrGone
  <2>b. role[u] # "none" => exists
    BY DEF Inv, OwnedOrGone
  <2>1. CASE BeginCreateInvite(r, u)
    <3>8. BegunAs(r, u, "create_invite", None)
      BY <2>1 DEF BeginCreateInvite
    <3> QED
      BY <3>8
  <2>2. ASSUME NEW i \in Invites, BeginRevokeInvite(r, u, i)
        PROVE  \E op, x : BegunAs(r, u, op, x)
    <3>8. BegunAs(r, u, "revoke_invite", i)
      BY <2>2 DEF BeginRevokeInvite
    <3> QED
      BY <3>8
  <2>3. ASSUME NEW target \in Users, BeginRemoveMember(r, u, target)
        PROVE  \E op, x : BegunAs(r, u, op, x)
    <3>1. u = Founder /\ target # Founder
      BY <2>3, <2>a, <2>b DEF BeginRemoveMember
    <3>8. BegunAs(r, u, "remove_member", target)
      BY <2>3, <3>1 DEF BeginRemoveMember
    <3> QED
      BY <3>8
  <2>4. CASE BeginLeave(r, u)
    <3>1. CASE Authorise(r, u, {"owner"}, "count_owners", None)
      <4>1. BegunAs(r, u, "count_owners", None)
        BY <3>1
      <4> QED
        BY <4>1
    <3>2. CASE Authorise(r, u, InviteRoles, "leave", None)
      <4>1. u # Founder
        BY <3>2, <2>a, <2>b DEF InviteRoles
      <4>2. BegunAs(r, u, "leave", None)
        BY <3>2, <4>1
      <4> QED
        BY <4>2
    <3> QED
      BY <2>4, <3>1, <3>2 DEF BeginLeave
  <2>5. CASE BeginDeleteCircle(r, u)
    <3>8. BegunAs(r, u, "delete_circle", None)
      BY <2>5 DEF BeginDeleteCircle
    <3> QED
      BY <3>8
  <2>6. ASSUME NEW m \in Modes, BeginSetPrecision(r, u, m)
        PROVE  \E op, x : BegunAs(r, u, op, x)
    <3>8. BegunAs(r, u, "set_precision", m)
      BY <2>6 DEF BeginSetPrecision
    <3> QED
      BY <3>8
  <2>7. ASSUME NEW i \in Invites, BeginAcceptInvite(r, u, i)
        PROVE  \E op, x : BegunAs(r, u, op, x)
    <3>1. exists
      BY <2>7 DEF BeginAcceptInvite, Inv, DeletedInvitesGone
    <3>2. u # Founder
      BY <2>7, <3>1, <2>a DEF BeginAcceptInvite
    <3>8. BegunAs(r, u, "accept_invite", i)
      BY <2>7, <3>2 DEF BeginAcceptInvite
    <3> QED
      BY <3>8
  <2> QED
    BY <2>1, <2>2, <2>3, <2>4, <2>5, <2>6, <2>7 DEF Begin
<1>2. PICK op, x : BegunAs(r, u, op, x)
  BY <1>1
<1>3. /\ Served(op, u, x) \in [op : Operations, user : Users, about : Subjects]
      /\ Served(op, u, x).op = op
      /\ Served(op, u, x).user = u
      /\ Served(op, u, x).about = x
  BY <1>2 DEF Served, BegunAs
<1>4. /\ ReqFun'
      /\ \A q \in Calls : UnderWay(q)'
      /\ \A q \in Calls :
            \/ call'[q] = NoCall
            \/ call'[q] \in [op : Operations, user : Users, about : Subjects]
  <2> DEFINE v == Served(op, u, x)
  <2>1. call' = [call EXCEPT ![r] = v]
    BY <1>2 DEF BegunAs
  <2>2. /\ v \in [op : Operations, user : Users, about : Subjects]
        /\ v.op = "accept_invite" => v.about \in Invites /\ v.user # Founder
        /\ v.op = "remove_member" => v.about \in Users \ {Founder}
        /\ v.op = "leave" => v.user # Founder
        /\ v.op = "set_precision" => v.about \in Modes
    BY <1>2, <1>3 DEF BegunAs
  <2> HIDE DEF v
  <2> QED
    BY <2>1, <2>2, ReqStep
<1> QED
  BY <1>0, <1>4 DEF Inv, MembershipTypeOK, OwnedOrGone, DeletedInvitesGone, Subjects

(* A request that ends keeps what is known of the others.                   *)
LEMMA DoneStep ==
    ASSUME Inv, ReqFun, NEW r \in Calls, Done(r)
    PROVE  /\ ReqFun'
           /\ \A q \in Calls : UnderWay(q)'
           /\ \A q \in Calls :
                 \/ call'[q] = NoCall
                 \/ call'[q] \in [op : Operations, user : Users, about : Subjects]
<1>1. call' = [call EXCEPT ![r] = NoCall]
  BY DEF Done
<1> QED
  BY <1>1, ReqStep

(* The steps that take effect keep the invariant.                          *)
LEMMA EffectStep ==
    ASSUME Inv, ReqFun, NEW r \in Calls, Effect(r)
    PROVE  Inv' /\ ReqFun'
<1> USE MembershipConstants
<1> DEFINE Requested ==
      /\ ReqFun'
      /\ \A q \in Calls : UnderWay(q)'
      /\ \A q \in Calls :
            \/ call'[q] = NoCall
            \/ call'[q] \in [op : Operations, user : Users, about : Subjects]
      Tables == /\ exists' \in BOOLEAN
                /\ role' \in [Users -> Roles]
                /\ mode' \in [Users -> Modes \union {None}]
                /\ invite' \in [Invites -> InviteRows]
                /\ OwnedOrGone'
                /\ DeletedInvitesGone'
<1> SUFFICES Tables /\ Requested
  BY DEF Inv, MembershipTypeOK, InviteRows, Subjects
<1>t. /\ exists \in BOOLEAN
      /\ role \in [Users -> Roles]
      /\ mode \in [Users -> Modes \union {None}]
      /\ invite \in [Invites -> InviteRows]
      /\ OwnedOrGone
      /\ DeletedInvitesGone
  BY DEF Inv, MembershipTypeOK, InviteRows
<1>r. /\ UnderWay(r)
      /\ call[r] # NoCall =>
            call[r] \in [op : Operations, user : Users, about : Subjects]
  BY DEF Inv, MembershipTypeOK, Subjects
<1>s. UNCHANGED <<exists, role, mode, invite>> => Tables
  BY <1>t DEF OwnedOrGone, DeletedInvitesGone
<1>1. CASE CreateInvite(r)
  <2>1. Requested
    BY <1>1, DoneStep DEF CreateInvite
  <2>2. PICK i \in Invites, ir \in InviteRoles, asked \in 0..UsesCap :
           invite' = [invite EXCEPT ![i] =
                [status |-> "active", role |-> ir, max |-> Granted(asked),
                 uses |-> 0, expired |-> FALSE]]
    BY <1>1 DEF CreateInvite
  <2>3. Granted(asked) \in 1..UsesCap
    BY <2>2 DEF Granted
  <2>4. [status |-> "active", role |-> ir, max |-> Granted(asked),
         uses |-> 0, expired |-> FALSE] \in InviteRows
    BY <2>2, <2>3 DEF InviteRows, Statuses
  <2>5. invite' \in [Invites -> InviteRows]
    BY <1>t, <2>2, <2>4
  <2>6. exists /\ UNCHANGED <<exists, role, mode>>
    BY <1>1 DEF CreateInvite
  <2>7. Tables
    BY <1>t, <2>5, <2>6 DEF OwnedOrGone, DeletedInvitesGone
  <2> QED
    BY <2>1, <2>7
<1>2. CASE RevokeInvite(r)
  <2>1. Requested
    BY <1>2, DoneStep DEF RevokeInvite
  <2>2. ASSUME NEW i \in Invites
        PROVE  /\ invite'[i] \in InviteRows
               /\ invite[i].status = "unused" => invite'[i].status = "unused"
    BY <1>2, <1>t DEF RevokeInvite, InviteRows, Statuses
  <2>3. invite' \in [Invites -> InviteRows]
    BY <1>2, <2>2 DEF RevokeInvite
  <2>4. Tables
    BY <1>2, <1>t, <2>2, <2>3 DEF RevokeInvite, OwnedOrGone, DeletedInvitesGone
  <2> QED
    BY <2>1, <2>4
<1>3. CASE AcceptInvite(r)
  <2> DEFINE u == call[r].user
             i == call[r].about
  <2>1. Requested
    BY <1>3, DoneStep DEF AcceptInvite, Consume
  <2>2. call[r] # NoCall
    BY <1>3 DEF AcceptInvite, Consume, NoCall
  <2>3. u \in Users \ {Founder} /\ i \in Invites
    BY <1>3, <1>r, <2>2 DEF AcceptInvite, Consume, UnderWay
  <2>4. CASE Live(invite[i])
    <3>1. /\ invite' = [invite EXCEPT ![i].uses = @ + 1]
          /\ AddMember(u, invite[i].role)
          /\ UNCHANGED exists
      BY <1>3, <2>4 DEF AcceptInvite, Consume
    <3>2. invite[i] \in InviteRows
      BY <1>t, <2>3
    <3>3. invite[i].status = "active" /\ invite[i].uses + 1 \in 0..UsesCap
      BY <2>4, <3>2 DEF Live, InviteRows
    <3>4. exists
      BY <1>t, <2>3, <3>3 DEF DeletedInvitesGone
    <3>5. invite[i].role \in InviteRoles
      BY <3>2 DEF InviteRows
    <3>6. [invite[i] EXCEPT !.uses = @ + 1] \in InviteRows
      BY <3>2, <3>3 DEF InviteRows
    <3>7. invite' \in [Invites -> InviteRows]
      BY <1>t, <2>3, <3>1, <3>6
    <3>8. role' \in [Users -> Roles] /\ mode' \in [Users -> Modes \union {None}]
      BY <1>t, <2>3, <3>1, <3>5 DEF AddMember, Roles
    <3>9. \A w \in Users : role'[w] = "owner" <=> w = Founder
      BY <1>t, <2>3, <3>1, <3>4, <3>5 DEF AddMember, OwnedOrGone, InviteRoles
    <3> QED
      BY <2>1, <3>1, <3>4, <3>7, <3>8, <3>9 DEF OwnedOrGone, DeletedInvitesGone
  <2>5. CASE ~Live(invite[i])
    <3>1. UNCHANGED <<exists, role, mode, invite>>
      BY <1>3, <2>5 DEF AcceptInvite, Consume
    <3> QED
      BY <2>1, <3>1, <1>s
  <2> QED
    BY <2>4, <2>5
<1>4. ASSUME NEW u \in Users \ {Founder}, DropMember(u), UNCHANGED <<exists, invite>>
      PROVE  Tables
  BY <1>4, <1>t DEF DropMember, OwnedOrGone, DeletedInvitesGone, Roles
<1>5. CASE RemoveMember(r)
  <2>1. Requested
    BY <1>5, DoneStep DEF RemoveMember
  <2>2. call[r].about \in Users \ {Founder}
    BY <1>5, <1>r DEF RemoveMember, UnderWay
  <2> QED
    BY <1>5, <1>4, <2>1, <2>2 DEF RemoveMember
<1>6. CASE CountOwners(r)
  <2>1. ~ \E w, x \in Owners : w # x
    BY <1>t DEF Owners, OwnedOrGone
  <2>2. Done(r) /\ UNCHANGED <<exists, role, mode, invite>>
    BY <1>6, <2>1 DEF CountOwners, Done
  <2>3. Requested
    BY <2>2, DoneStep
  <2> QED
    BY <2>2, <2>3, <1>s
<1>7. CASE Leave(r)
  <2>1. Requested
    BY <1>7, DoneStep DEF Leave
  <2>2. call[r] # NoCall
    BY <1>7 DEF Leave, NoCall
  <2>3. call[r].user \in Users \ {Founder}
    BY <1>7, <1>r, <2>2 DEF Leave, UnderWay
  <2> QED
    BY <1>7, <1>4, <2>1, <2>3 DEF Leave
<1>8. CASE DeleteCircle(r)
  <2>1. Requested
    BY <1>8, DoneStep DEF DeleteCircle
  <2>2. NoInvite \in InviteRows
    BY DEF NoInvite, InviteRows, Statuses, InviteRoles
  <2>3. Tables
    BY <1>8, <2>2 DEF DeleteCircle, OwnedOrGone, DeletedInvitesGone, Roles, NoInvite
  <2> QED
    BY <2>1, <2>3
<1>9. CASE SetPrecision(r)
  <2>1. Requested
    BY <1>9, DoneStep DEF SetPrecision
  <2>2. call[r].about \in Modes
    BY <1>9, <1>r DEF SetPrecision, UnderWay
  <2>3. mode' \in [Users -> Modes \union {None}]
    BY <1>9, <1>t, <2>2 DEF SetPrecision
  <2>4. Tables
    BY <1>9, <1>t, <2>3 DEF SetPrecision, OwnedOrGone, DeletedInvitesGone
  <2> QED
    BY <2>1, <2>4
<1>10. CASE RequestFails(r)
  <2>1. Requested
    BY <1>10, DoneStep DEF RequestFails
  <2> QED
    BY <1>10, <2>1, <1>s DEF RequestFails
<1> QED
  BY <1>1, <1>2, <1>3, <1>5, <1>6, <1>7, <1>8, <1>9, <1>10 DEF Effect

(* Every step keeps the invariant.                                         *)
LEMMA NextInv == Inv /\ ReqFun /\ [Next]_vars => Inv' /\ ReqFun'
<1> SUFFICES ASSUME Inv, ReqFun, [Next]_vars PROVE Inv' /\ ReqFun'
  OBVIOUS
<1>1. ASSUME NEW r \in Calls, NEW u \in Users, Begin(r, u) PROVE Inv' /\ ReqFun'
  BY <1>1, BeginStep
<1>2. ASSUME NEW r \in Calls, Effect(r) PROVE Inv' /\ ReqFun'
  BY <1>2, EffectStep
<1>3. ASSUME NEW i \in Invites, Expire(i) PROVE Inv' /\ ReqFun'
  <2>1. invite[i] \in InviteRows /\ invite \in [Invites -> InviteRows]
    BY DEF Inv, MembershipTypeOK, InviteRows
  <2>2. [invite[i] EXCEPT !.expired = TRUE] \in InviteRows
    BY <2>1 DEF InviteRows
  <2>3. invite' \in [Invites -> InviteRows]
    BY <1>3, <2>1, <2>2 DEF Expire
  <2>4. \A j \in Invites : invite'[j].status = invite[j].status
    BY <1>3, <2>1 DEF Expire, InviteRows
  <2>5. UNCHANGED <<exists, role, mode, call>>
    BY <1>3 DEF Expire
  <2> QED
    BY <2>3, <2>4, <2>5 DEF Inv, MembershipTypeOK, OwnedOrGone, DeletedInvitesGone,
                            UnderWay, InviteRows, ReqFun
<1>4. CASE UNCHANGED vars
  BY <1>4 DEF vars, Inv, MembershipTypeOK, OwnedOrGone, DeletedInvitesGone, UnderWay, ReqFun
<1> QED
  BY <1>1, <1>2, <1>3, <1>4 DEF Next

(* The invariant holds throughout.                                         *)
LEMMA Invariance == Spec => [](Inv /\ ReqFun)
  BY InitInv, NextInv, PTL DEF Spec

(* The rows of the tables and the requests keep their types; uses stay in  *)
(* bounds under any number of concurrent accepts (ConsumeInvite).          *)
THEOREM MembershipTypeCorrect == Spec => []MembershipTypeOK
<1>1. Inv => MembershipTypeOK
  BY DEF Inv
<1> QED
  BY <1>1, Invariance, PTL

(* A circle has its founder as its only owner until it is deleted, and is  *)
(* empty afterwards, however requests interleave (handleLeaveCircle,       *)
(* handleRemoveMember, handleAcceptInvite, handleDeleteCircle).            *)
THEOREM CircleIsOwned == Spec => []OwnedOrGone
<1>1. Inv => OwnedOrGone
  BY DEF Inv
<1> QED
  BY <1>1, Invariance, PTL

(* Membership is only ever gained through an invite that is live at that   *)
(* moment, with its role and for one of its uses (handleAcceptInvite).     *)
THEOREM RolesAreInvited == Spec => RoleIsInvited
<1> DEFINE A == \A u \in Users :
          role'[u] \notin {role[u], "none"} =>
              \E i \in Invites : /\ Live(invite[i])
                                 /\ invite[i].role = role'[u]
                                 /\ invite'[i].uses = invite[i].uses + 1
<1>1. Inv /\ [Next]_vars => [A]_vars
  <2> SUFFICES ASSUME Inv, Next, NEW u \in Users, role'[u] \notin {role[u], "none"}
               PROVE  \E i \in Invites : /\ Live(invite[i])
                                         /\ invite[i].role = role'[u]
                                         /\ invite'[i].uses = invite[i].uses + 1
    BY DEF vars
  <2>0. role \in [Users -> Roles] /\ invite \in [Invites -> InviteRows]
    BY DEF Inv, MembershipTypeOK, InviteRows
  <2>1. PICK r \in Calls : Effect(r)
    BY DEF Next, Begin, Expire, BeginCreateInvite, BeginRevokeInvite, BeginRemoveMember,
           BeginLeave, BeginDeleteCircle, BeginSetPrecision, BeginAcceptInvite, Authorise
  <2>2. ~ RemoveMember(r) /\ ~ Leave(r) /\ ~ DeleteCircle(r)
    BY <2>0 DEF RemoveMember, Leave, DeleteCircle, DropMember
  <2>3. AcceptInvite(r)
    BY <2>1, <2>2 DEF Effect, CreateInvite, RevokeInvite, CountOwners, SetPrecision,
                      RequestFails
  <2>4. UnderWay(r)
    BY DEF Inv
  <2> DEFINE i == call[r].about
  <2>5. i \in Invites
    BY <2>3, <2>4 DEF AcceptInvite, Consume, UnderWay
  <2>6. /\ Live(invite[i])
        /\ invite' = [invite EXCEPT ![i].uses = @ + 1]
        /\ AddMember(call[r].user, invite[i].role)
    BY <2>3 DEF AcceptInvite, Consume
  <2>7. invite[i].role = role'[u]
    BY <2>0, <2>6 DEF AddMember
  <2>8. invite'[i].uses = invite[i].uses + 1
    BY <2>0, <2>5, <2>6 DEF InviteRows
  <2> QED
    BY <2>5, <2>6, <2>7, <2>8
<1> QED
  BY <1>1, Invariance, PTL DEF Spec, RoleIsInvited

(* A member's precision mode changes only by the member's own request,     *)
(* whatever else is served meanwhile (handleSetPrecision, AddMember).      *)
THEOREM ModesAreOnesOwn == Spec => ModeIsOnesOwn
<1> DEFINE A == \A u \in Users :
          (role[u] # "none" /\ role'[u] # "none" /\ mode'[u] # mode[u]) =>
              \E r \in Calls : call[r] = Served("set_precision", u, mode'[u])
<1>1. Inv /\ [Next]_vars => [A]_vars
  <2> SUFFICES ASSUME Inv, Next, NEW u \in Users,
                      role[u] # "none", role'[u] # "none", mode'[u] # mode[u]
               PROVE  \E r \in Calls : call[r] = Served("set_precision", u, mode'[u])
    BY DEF vars
  <2>0. role \in [Users -> Roles] /\ mode \in [Users -> Modes \union {None}]
    BY DEF Inv, MembershipTypeOK
  <2>1. PICK r \in Calls : Effect(r)
    BY DEF Next, Begin, Expire, BeginCreateInvite, BeginRevokeInvite, BeginRemoveMember,
           BeginLeave, BeginDeleteCircle, BeginSetPrecision, BeginAcceptInvite, Authorise
  <2>2. ~ RemoveMember(r) /\ ~ Leave(r) /\ ~ DeleteCircle(r)
    BY <2>0 DEF RemoveMember, Leave, DeleteCircle, DropMember
  <2>3. ~ AcceptInvite(r)
    BY <2>0 DEF AcceptInvite, Consume, AddMember
  <2>4. SetPrecision(r)
    BY <2>1, <2>2, <2>3 DEF Effect, CreateInvite, RevokeInvite, CountOwners, RequestFails
  <2>5. call[r].op = "set_precision" /\ call[r].user = u /\ mode'[u] = call[r].about
    BY <2>4 DEF SetPrecision
  <2>6. call[r] \in [op : Operations, user : Users, about : Subjects]
    BY <2>5 DEF Inv, MembershipTypeOK, Subjects, NoCall
  <2>7. call[r] = Served("set_precision", u, mode'[u])
    BY <2>5, <2>6 DEF Served
  <2> QED
    BY <2>7
<1> QED
  BY <1>1, Invariance, PTL DEF Spec, ModeIsOnesOwn

(* No invite has been used more often than it grants.                      *)
UsesWithinMax == \A i \in Invites : invite[i].uses <= invite[i].max

(* What a step may do to an invite while its circle exists.                *)
WearsOut(i) ==
    invite[i].status # "unused" =>
        /\ ~Live(invite[i]) => ~Live(invite'[i])
        /\ invite'[i].uses \in invite[i].uses .. invite[i].max
        /\ invite'[i].max = invite[i].max

(* A step leaves an invite's row alone, or it is one of the changes below. *)
LEMMA InviteStep ==
    ASSUME Inv, [Next]_vars, UsesWithinMax
    PROVE  /\ exists' => \A i \in Invites : WearsOut(i)
           /\ UsesWithinMax'
<1> USE MembershipConstants
<1>0. invite \in [Invites -> InviteRows]
  BY DEF Inv, MembershipTypeOK, InviteRows
<1>s. ASSUME UNCHANGED invite
      PROVE  UsesWithinMax' /\ \A i \in Invites : WearsOut(i)
  BY <1>0, <1>s DEF UsesWithinMax, WearsOut, InviteRows
<1>1. ASSUME NEW r \in Calls, Effect(r)
      PROVE  UsesWithinMax' /\ (exists' => \A i \in Invites : WearsOut(i))
  <2>1. CASE CreateInvite(r)
    <3>1. PICK j \in Invites, ir \in InviteRoles, asked \in 0..UsesCap :
           /\ invite[j].status = "unused"
           /\ invite' = [invite EXCEPT ![j] =
                [status |-> "active", role |-> ir, max |-> Granted(asked),
                 uses |-> 0, expired |-> FALSE]]
      BY <2>1 DEF CreateInvite
    <3>2. Granted(asked) \in Nat
      BY DEF Granted
    <3>3. ASSUME NEW i \in Invites PROVE WearsOut(i) /\ invite'[i].uses <= invite'[i].max
      BY <1>0, <3>1, <3>2 DEF UsesWithinMax, WearsOut, InviteRows
    <3> QED
      BY <3>3 DEF UsesWithinMax
  <2>2. CASE RevokeInvite(r)
    <3>1. ASSUME NEW i \in Invites PROVE WearsOut(i) /\ invite'[i].uses <= invite'[i].max
      BY <1>0, <2>2 DEF RevokeInvite, UsesWithinMax, WearsOut, InviteRows, Live
    <3> QED
      BY <3>1 DEF UsesWithinMax
  <2>3. CASE AcceptInvite(r)
    <3> DEFINE j == call[r].about
    <3>1. j \in Invites
      BY <2>3 DEF AcceptInvite, Consume, Inv, UnderWay
    <3>2. CASE Live(invite[j])
      <4>1. invite' = [invite EXCEPT ![j].uses = @ + 1]
        BY <2>3, <3>2 DEF AcceptInvite, Consume
      <4>2. ASSUME NEW i \in Invites
            PROVE  WearsOut(i) /\ invite'[i].uses <= invite'[i].max
        BY <1>0, <3>1, <3>2, <4>1 DEF UsesWithinMax, WearsOut, InviteRows, Live
      <4> QED
        BY <4>2 DEF UsesWithinMax
    <3>3. CASE ~Live(invite[j])
      BY <1>s, <2>3, <3>3 DEF AcceptInvite, Consume
    <3> QED
      BY <3>2, <3>3
  <2>4. CASE DeleteCircle(r)
    BY <2>4 DEF DeleteCircle, UsesWithinMax, NoInvite
  <2> QED
    BY <1>1, <1>s, <2>1, <2>2, <2>3, <2>4
       DEF Effect, RemoveMember, CountOwners, Leave, SetPrecision, RequestFails
<1>2. ASSUME NEW j \in Invites, Expire(j)
      PROVE  UsesWithinMax' /\ \A i \in Invites : WearsOut(i)
  <2>1. ASSUME NEW i \in Invites PROVE WearsOut(i) /\ invite'[i].uses <= invite'[i].max
    BY <1>0, <1>2 DEF Expire, UsesWithinMax, WearsOut, InviteRows, Live
  <2> QED
    BY <2>1 DEF UsesWithinMax
<1>3. ASSUME NEW r \in Calls, NEW u \in Users, Begin(r, u) PROVE UNCHANGED invite
  BY <1>3 DEF Begin, BeginCreateInvite, BeginRevokeInvite, BeginRemoveMember, BeginLeave,
              BeginDeleteCircle, BeginSetPrecision, BeginAcceptInvite, Authorise
<1> QED
  BY <1>1, <1>2, <1>3, <1>s DEF Next, vars

(* A revoked, expired or used-up invite never admits anybody again, and    *)
(* uses are neither given back nor exceeded (ConsumeInvite, RevokeInvite). *)
THEOREM InvitesWearOut == Spec => InviteOnlyWearsOut
<1>1. Init => UsesWithinMax
  BY DEF Init, UsesWithinMax, NoInvite
<1>2. Inv /\ UsesWithinMax /\ [Next]_vars => UsesWithinMax'
  BY InviteStep
<1>3. Inv /\ UsesWithinMax /\ [Next]_vars =>
         [exists' => \A i \in Invites : WearsOut(i)]_vars
  BY InviteStep
<1>4. Spec => [](Inv /\ UsesWithinMax)
  BY <1>1, <1>2, Invariance, PTL DEF Spec
<1>5. Spec => [][exists' => \A i \in Invites : WearsOut(i)]_vars
  BY <1>3, <1>4, PTL DEF Spec
<1>6. [exists' => \A i \in Invites : WearsOut(i)]_vars =>
        [exists' => \A i \in Invites :
          invite[i].status # "unused" =>
              /\ ~Live(invite[i]) => ~Live(invite'[i])
              /\ invite'[i].uses \in invite[i].uses .. invite[i].max
              /\ invite'[i].max = invite[i].max]_vars
  BY DEF WearsOut
<1> QED
  BY <1>5, <1>6, PTL DEF InviteOnlyWearsOut

=============================================================================
