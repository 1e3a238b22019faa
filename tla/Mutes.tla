-------------------------------- MODULE Mutes --------------------------------
(***************************************************************************)
(* PUT /circles/{id}/mutes: a member replaces what he has muted in one     *)
(* circle.  The request checks its set against the members, and then runs  *)
(* a transaction of one DELETE and an INSERT for each member of the set.   *)
(*                                                                         *)
(* On SQLite the DELETE takes the write lock, so one transaction is open.  *)
(* On Postgres a statement sees what was committed when it began: a DELETE *)
(* that meets rows another transaction has deleted waits for it, and does  *)
(* not see the rows that one has put in their place; an INSERT waits for a *)
(* transaction that has inserted or deleted the same row, and leaves a     *)
(* committed row alone, without a lock on it.                              *)
(***************************************************************************)
EXTENDS StoreBackend

CONSTANTS Muters,           \* the users who may be members of the circle
          Callers,          \* bound: those of them who change what they mute
          Puts,
          Circle            \* muted_user_id NULL: the whole circle

ASSUME MutesAssumption == Circle \notin Muters /\ Callers \subseteq Muters

VARIABLES
    members,    \* of the circle
    mutes,      \* user -> what the user has muted, as committed
    put,        \* where each PUT stands
    last,       \* history: user -> the set of the last PUT that was committed
    overlapped, \* history: PUTs whose transaction overlaps another one of the user
    mixed       \* history: users whose last PUT was one of those

mvars == <<backend, members, mutes, put, last, overlapped, mixed>>

Targets == Muters \cup {Circle}

NoPut == [pc |-> "idle"]
Put == {NoPut}
       \cup [pc : {"checked"}, user : Muters, set : SUBSET Targets]
       \cup [pc : {"deleting", "inserting"}, user : Muters, set : SUBSET Targets,
             victims : SUBSET Targets,     \* rows of the DELETE
             todo : SUBSET Targets,        \* to be inserted
             added : SUBSET Targets]       \* rows that the INSERTs made

MutesTypeOK ==
    /\ backend \in Backends
    /\ members \subseteq Muters
    /\ mutes \in [Muters -> SUBSET Targets]
    /\ put \in [Puts -> Put]
    /\ last \in [Muters -> SUBSET Targets]
    /\ overlapped \subseteq Puts
    /\ mixed \subseteq Muters

MutesInit ==
    /\ BackendInit
    /\ members = Muters
    /\ mutes = [u \in Muters |-> {}]
    /\ put = [p \in Puts |-> NoPut]
    /\ last = mutes
    /\ overlapped = {}
    /\ mixed = {}

-----------------------------------------------------------------------------
CountMembersIn(set) == set \cap Muters \subseteq members

\* Everyone named is a member, and not the caller.
SetMutesStart(p, u, set) ==
    /\ put[p] = NoPut
    /\ u \in members \ set
    /\ CountMembersIn(set)
    /\ put' = [put EXCEPT ![p] = [pc |-> "checked", user |-> u, set |-> set]]
    /\ UNCHANGED <<backend, members, mutes, last, overlapped, mixed>>

\* The transactions that are open, and those of user u other than p's.
Open(p) == put[p].pc \in {"deleting", "inserting"}
Others(p, u) == {q \in Puts \ {p} : Open(q) /\ put[q].user = u}

\* The transaction begins with the DELETE of the rows that are committed.  SQLite has
\* one writer, for which a PUT waits.
BeginDelete(p, rows) ==
    LET u == put[p].user IN
    /\ put[p].pc = "checked"
    /\ IsSQLite => \A q \in Puts : ~Open(q)
    /\ put' = [put EXCEPT ![p] = [pc |-> "deleting", user |-> u, set |-> put[p].set,
                                  victims |-> rows, todo |-> put[p].set, added |-> {}]]
    /\ overlapped' = IF Others(p, u) = {} THEN overlapped
                                          ELSE overlapped \cup Others(p, u) \cup {p}
    /\ UNCHANGED <<backend, members, mutes, last, mixed>>

\* Faulty variant: the whole-circle mute is not one of the rows.
DeleteMutesOfUsers(p) ==
    put[p].pc = "checked" /\ BeginDelete(p, mutes[put[p].user] \cap Muters)

DeleteMutes(p) ==
    put[p].pc = "checked" /\ BeginDelete(p, mutes[put[p].user])

\* Postgres: the DELETE is through when no other transaction holds a row of it.
DeleteMutesDone(p) ==
    /\ put[p].pc = "deleting"
    /\ \A q \in Others(p, put[p].user) :
         put[q].pc = "inserting" => put[q].victims \cap put[p].victims = {}
    /\ put' = [put EXCEPT ![p].pc = "inserting"]
    /\ UNCHANGED <<backend, members, mutes, last, overlapped, mixed>>

\* The mute of the circle comes first.
NextMute(p, t) == t \in put[p].todo /\ (Circle \in put[p].todo => t = Circle)

\* No other transaction has deleted or inserted the row without committing.
RowIsFree(p, t) ==
    \A q \in Others(p, put[p].user) :
        put[q].pc = "inserting" => t \notin put[q].victims \cup put[q].added

\* Faulty variant: the row that the transaction itself has deleted is in the way.
InsertMuteAfterCommit(p, t) ==
    /\ put[p].pc = "inserting"
    /\ NextMute(p, t)
    /\ RowIsFree(p, t)
    /\ put' = [put EXCEPT ![p].todo = @ \ {t},
                          ![p].added = IF t \in mutes[put[p].user] THEN @ ELSE @ \cup {t}]
    /\ UNCHANGED <<backend, members, mutes, last, overlapped, mixed>>

\* INSERT ... ON CONFLICT DO NOTHING.
InsertMute(p, t) ==
    /\ put[p].pc = "inserting"
    /\ NextMute(p, t)
    /\ RowIsFree(p, t)
    /\ put' = [put EXCEPT ![p].todo = @ \ {t},
                          ![p].added = IF t \in mutes[put[p].user] \ put[p].victims
                                       THEN @ ELSE @ \cup {t}]
    /\ UNCHANGED <<backend, members, mutes, last, overlapped, mixed>>

\* The commit.  A DELETE that waits goes on without the rows that are gone.
SetMutesCommit(p) ==
    LET u == put[p].user IN
    /\ put[p].pc = "inserting"
    /\ put[p].todo = {}
    /\ mutes' = [mutes EXCEPT ![u] = (@ \ put[p].victims) \cup put[p].added]
    /\ last' = [last EXCEPT ![u] = put[p].set]
    /\ mixed' = IF p \in overlapped THEN mixed \cup {u} ELSE mixed \ {u}
    /\ overlapped' = overlapped \ {p}
    /\ put' = [q \in Puts |->
                 IF q = p THEN NoPut
                 ELSE IF q \in Others(p, u) THEN [put[q] EXCEPT !.victims = @ \ put[p].victims]
                 ELSE put[q]]
    /\ UNCHANGED <<backend, members>>

\* Not a member any more, an unknown name, a failed statement: rolled back.
SetMutesFails(p) ==
    /\ put[p] # NoPut
    /\ put' = [put EXCEPT ![p] = NoPut]
    /\ overlapped' = overlapped \ {p}
    /\ UNCHANGED <<backend, members, mutes, last, mixed>>

\* Members come and go; their mutes, and the mutes that name them, stay.
MemberLeaves(u) ==
    /\ u \in members
    /\ members' = members \ {u}
    /\ UNCHANGED <<backend, mutes, put, last, overlapped, mixed>>

MutesNext ==
    \/ \E p \in Puts, u \in Callers, set \in SUBSET Targets : SetMutesStart(p, u, set)
    \/ \E p \in Puts : \/ DeleteMutes(p) \/ DeleteMutesDone(p)
                       \/ \E t \in Targets : InsertMute(p, t)
                       \/ SetMutesCommit(p) \/ SetMutesFails(p)
    \/ \E u \in Muters : MemberLeaves(u)

MutesSpec == MutesInit /\ [][MutesNext]_mvars

-----------------------------------------------------------------------------
\* What is muted is at every moment exactly what the last PUT asked for, also in
\* the middle of the next one (mutes.go, the PUT contract: "the response (and the
\* next GET)" match "what was sent"), on SQLite always, and on Postgres unless that
\* PUT's transaction overlapped another one of the same user: then rows of both may
\* stay, or a row that was skipped as present may be gone.
MutesInForce ==
    \A u \in Muters : IsSQLite \/ u \notin mixed => mutes[u] = last[u]

\* Whatever overlaps, the mutes that others see change by the commit of a PUT
\* alone, which lifts no mute of its own set and adds nothing but that (mutes.go,
\* handleSetMutes: "a reader must never observe the empty middle of a
\* delete-then-insert and start pushing to a member who is still muted").
NoEmptyMiddle ==
    [][\A u \in Muters : mutes'[u] # mutes[u] =>
         \E p \in Puts : /\ put[p] # NoPut /\ put'[p] = NoPut
                         /\ put[p].user = u
                         /\ (mutes[u] \ mutes'[u]) \cap put[p].set = {}
                         /\ mutes'[u] \ mutes[u] \subseteq put[p].set]_mvars
=============================================================================
