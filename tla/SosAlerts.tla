------------------------------ MODULE SosAlerts ------------------------------
(***************************************************************************)
(* SOS alerts of a circle, from the server's table to the banner of one    *)
(* web client.  The handlers store first and publish afterwards, so the    *)
(* events of two requests may be published in either order, and an event   *)
(* may be lost: the hub drops it, or the client is not connected.  The     *)
(* client polls the active alerts as well and reconciles them with what    *)
(* the events told it.  It neither polls nor connects without a keyring,   *)
(* which it drops and loads again whenever the summary of the selected     *)
(* circle changes, and the interval does not poll in a hidden tab.         *)
(*                                                                         *)
(* Time is a number of ticks; an alert counts those since it was created,  *)
(* an answer those since the server read the table, both up to Grace.      *)
(***************************************************************************)
EXTENDS Naturals, Sequences

CONSTANTS Alerts,
          Grace,        \* graceMs of reconcile
          MaxWire       \* bound: events on their way to the client

ASSUME SosAssumption == Grace \in Nat \ {0} /\ MaxWire \in Nat \ {0}

VARIABLES
    row,        \* rows of sos_events
    age,        \* alert -> ticks since it was created
    pending,    \* events that a handler has yet to publish
    online,     \* the client's connection
    wire,       \* events on their way to the client
    banner,     \* the alerts that the client shows
    data,       \* answer of the last poll, as the query cache holds it
    dataAge,    \* ticks since the server read that answer
    poll,       \* the poll on its way
    asking,     \* resolve requests of this client under way
    touched,    \* alerts that this client's user has tried to resolve
    keyed,      \* the client holds a keyring that is not empty
    loading,    \* the keyring of the selected circle is being loaded
    visible     \* the tab is in the foreground

server == <<row, age, pending>>
client == <<banner, data, dataAge, poll, asking, touched>>
page == <<keyed, loading, visible>>
vars == <<server, online, wire, client, page>>

NoData == {<<>>}
NoPoll == [at |-> "idle"]
Event == {"sos", "sos_resolved"} \X Alerts

SosTypeOK ==
    /\ row \in [Alerts -> {"none", "active", "resolved", "pruned"}]
    /\ age \in [Alerts -> 0..Grace]
    /\ pending \subseteq Event
    /\ online \in BOOLEAN
    /\ wire \in Seq(Event) /\ Len(wire) <= MaxWire
    /\ banner \subseteq Alerts
    /\ data \in (SUBSET Alerts) \cup {NoData} /\ dataAge \in 0..Grace
    /\ poll \in {NoPoll} \cup [at : {"sent"}, set : SUBSET Alerts, age : 0..Grace]
    /\ asking \subseteq touched /\ touched \subseteq Alerts
    /\ keyed \in BOOLEAN /\ loading \in BOOLEAN /\ visible \in BOOLEAN

SosInit ==
    /\ row = [a \in Alerts |-> "none"] /\ age = [a \in Alerts |-> 0] /\ pending = {}
    /\ online = FALSE /\ wire = <<>>
    /\ banner = {} /\ data = NoData /\ dataAge = 0 /\ poll = NoPoll /\ asking = {} /\ touched = {}
    /\ keyed = FALSE /\ loading = TRUE /\ visible = TRUE

-----------------------------------------------------------------------------
(* The server *)

CreateSOS(a) ==
    /\ row[a] = "none"
    /\ row' = [row EXCEPT ![a] = "active"]
    /\ pending' = pending \cup {<<"sos", a>>}
    /\ UNCHANGED <<age, online, wire, client, page>>

\* ResolveSOS finds an active row only, so one of two members resolves it.
Resolve(a) ==
    /\ row[a] = "active"
    /\ row' = [row EXCEPT ![a] = "resolved"]
    /\ pending' = pending \cup {<<"sos_resolved", a>>}

MemberResolves(a) == Resolve(a) /\ UNCHANGED <<age, online, wire, client, page>>

ListActiveSOS == {a \in Alerts : row[a] = "active"}

PruneResolvedSOS ==
    /\ \E a \in Alerts : row[a] = "resolved"
    /\ row' = [a \in Alerts |-> IF row[a] = "resolved" THEN "pruned" ELSE row[a]]
    /\ UNCHANGED <<age, pending, online, wire, client, page>>

\* hub.Publish: the event reaches the connection's queue or is dropped.
Publish(ev) ==
    /\ ev \in pending
    /\ pending' = pending \ {ev}
    /\ \/ online /\ Len(wire) < MaxWire /\ wire' = Append(wire, ev)
       \/ wire' = wire
    /\ UNCHANGED <<row, age, online, client, page>>

Connect ==
    /\ keyed /\ ~online
    /\ online' = TRUE
    /\ UNCHANGED <<server, wire, client, page>>

Disconnect == online /\ online' = FALSE /\ wire' = <<>> /\ UNCHANGED <<server, client, page>>

Older(n) == IF n < Grace THEN n + 1 ELSE n

Tick ==
    /\ age' = [a \in Alerts |-> IF row[a] # "none" THEN Older(age[a]) ELSE age[a]]
    /\ poll' = IF poll # NoPoll THEN [poll EXCEPT !.age = Older(@)] ELSE poll
    /\ dataAge' = IF data # NoData THEN Older(dataAge) ELSE dataAge
    /\ UNCHANGED <<row, pending, online, wire, banner, data, asking, touched, page>>

-----------------------------------------------------------------------------
(* The client *)

\* onSos adds, onSosResolved removes.
Deliver ==
    /\ wire # <<>>
    /\ banner' = IF Head(wire)[1] = "sos" THEN banner \cup {Head(wire)[2]}
                                          ELSE banner \ {Head(wire)[2]}
    /\ wire' = Tail(wire)
    /\ UNCHANGED <<server, online, data, dataAge, poll, asking, touched, page>>

\* refetchInterval in a tab that is visible, or an invalidation of the query;
\* the query is disabled without a keyring.
PollStart ==
    /\ keyed /\ poll = NoPoll
    /\ poll' = [at |-> "sent", set |-> ListActiveSOS, age |-> 0]
    /\ UNCHANGED <<server, online, wire, banner, data, dataAge, asking, touched, page>>

\* setAll: the list of the server replaces what is shown.
ReplaceAll(set) == set

\* Keep an alert that the server did not list if it is young.
Reconcile(set) == set \cup {a \in banner : age[a] < Grace}

\* A client that shows only what the events told it.
PollIgnored ==
    /\ poll # NoPoll
    /\ banner' = banner /\ data' = poll.set /\ dataAge' = poll.age /\ poll' = NoPoll
    /\ UNCHANGED <<server, online, wire, asking, touched, page>>

\* The answer arrives, also when the keyring has gone in the meantime.  The
\* query cache keeps its old value when the new one is equal to it, and then
\* the effect that reconciles does not run.
PollApply ==
    /\ poll # NoPoll
    /\ banner' = IF poll.set = data THEN banner ELSE Reconcile(poll.set)
    /\ data' = poll.set /\ dataAge' = poll.age
    /\ poll' = NoPoll
    /\ UNCHANGED <<server, online, wire, asking, touched, page>>

PollFails ==
    /\ poll # NoPoll
    /\ poll' = NoPoll
    /\ UNCHANGED <<server, online, wire, banner, data, dataAge, asking, touched, page>>

\* The user resolves an alert: it is removed at once, then the server is asked.
ResolveStart(a) ==
    /\ a \in banner
    /\ banner' = banner \ {a}
    /\ asking' = asking \cup {a}
    /\ touched' = touched \cup {a}
    /\ UNCHANGED <<server, online, wire, data, dataAge, poll, page>>

\* The request succeeds, fails, or finds the alert resolved; in any case the
\* query is invalidated: an enabled query that has an answer cancels the poll
\* on its way.
ResolveDone(a) ==
    /\ a \in asking
    /\ asking' = asking \ {a}
    /\ poll' = IF keyed /\ data # NoData THEN NoPoll ELSE poll
    /\ \/ Resolve(a)
       \/ UNCHANGED <<row, pending>>
    /\ UNCHANGED <<age, online, wire, banner, data, dataAge, touched, page>>

-----------------------------------------------------------------------------
(* The page around the banner *)

Cached == IF data = NoData THEN {} ELSE data

\* The summary of the selected circle changes: the store of alerts and the
\* keyring are emptied, the new keyring runs the effect on the empty store,
\* and the connection is closed.  A user who comes back from another circle
\* may find that the cached answer has been collected.
SelectionChanges ==
    /\ \/ UNCHANGED <<data, dataAge, poll>>
       \/ data' = NoData /\ dataAge' = 0 /\ poll' = NoPoll
    /\ banner' = Cached'
    /\ keyed' = FALSE /\ loading' = TRUE
    /\ online' = FALSE /\ wire' = <<>>
    /\ UNCHANGED <<server, asking, touched, visible>>

\* setKeyring: the effect runs on the cached answer, and the connection is
\* replaced.
SetKeyring ==
    /\ banner' = IF data = NoData THEN banner ELSE Reconcile(data)
    /\ online' = FALSE /\ wire' = <<>>
    /\ UNCHANGED <<server, data, dataAge, poll, asking, touched, visible>>

\* The keyring is loaded; it is empty on a device that has no key yet.
KeyringLoads == loading /\ loading' = FALSE /\ keyed' \in BOOLEAN /\ SetKeyring

RotateKey == keyed' = TRUE /\ loading' = loading /\ SetKeyring

TabChanges == visible' = ~visible /\ UNCHANGED <<server, online, wire, client, keyed, loading>>

-----------------------------------------------------------------------------
SosNext ==
    \/ \E a \in Alerts : CreateSOS(a) \/ MemberResolves(a) \/ ResolveStart(a) \/ ResolveDone(a)
    \/ \E ev \in Event : Publish(ev)
    \/ PruneResolvedSOS \/ Connect \/ Disconnect \/ Tick
    \/ Deliver \/ PollStart \/ PollApply \/ PollFails
    \/ SelectionChanges \/ KeyringLoads \/ RotateKey \/ TabChanges

\* Handlers run on, time passes, and of polls that are sent for ever some are
\* answered.
SosFairness ==
    /\ \A ev \in Event : WF_vars(Publish(ev))
    /\ \A a \in Alerts : WF_vars(ResolveDone(a))
    /\ WF_vars(Tick) /\ WF_vars(Deliver) /\ SF_vars(PollApply)

\* The interval polls every minute in a tab that is visible.
IntervalPoll == visible /\ PollStart

SosSpec == SosInit /\ [][SosNext]_vars /\ SosFairness /\ WF_vars(IntervalPoll)

-----------------------------------------------------------------------------
\* An alert that is shown and still active disappears from the banner only
\* because this user resolves it, by an answer that is older than the grace
\* period when it arrives or is applied again to a new keyring, or because
\* the circle's summary changes and no cached answer has it.  A younger
\* answer never hides it, however it overlaps with the events, although it
\* may lack the alert.
HiddenOnlyByOldAnswer ==
    [][\A a \in Alerts :
          a \in banner \ banner' /\ row[a] = "active" =>
              \/ ResolveStart(a)
              \/ PollApply /\ poll.age >= Grace
              \/ (KeyringLoads \/ RotateKey) /\ dataAge >= Grace
              \/ SelectionChanges /\ a \notin Cached']_vars

\* On a client that in the end has its keyring and stays in the foreground,
\* an alert that nobody resolves and that this user leaves alone is shown,
\* with or without a connection and whatever was lost on the way.
UntouchedAlertIsShown ==
    <>[](keyed /\ visible) =>
        \A a \in Alerts :
            row[a] = "active" ~> (a \in banner \/ row[a] # "active" \/ a \in touched)
=============================================================================
