------------------------------ MODULE MCAlerts ------------------------------
(***************************************************************************)
(* How members are alerted: push notifications (two members, an endpoint of *)
(* either kind, two workers, at most two rows ever inserted) and SOS alerts *)
(* (one alert, a grace period of two ticks, two events on the wire).  The   *)
(* two share no state, so a behaviour is of one of them.  A server sends    *)
(* Web Push only or both kinds; one without a channel never sends.          *)
(***************************************************************************)
EXTENDS Notify, SosAlerts

VARIABLE part

AlertsInit ==
    /\ NotifyInit /\ SosInit
    /\ \/ part = "notify" /\ "webpush" \in channels
       \/ part = "sos" /\ channels = {}

AlertsNext ==
    \/ part = "notify" /\ NotifyNext /\ UNCHANGED <<part, vars>>
    \/ part = "sos" /\ SosNext /\ UNCHANGED <<part, nvars>>

\* All other actions are disabled in the initial states.
IntervalPollOfSos == part = "sos" /\ IntervalPoll

AlertsSpec ==
    /\ AlertsInit /\ [][AlertsNext]_<<part, nvars, vars>>
    /\ NotifyFairness /\ SosFairness /\ WF_vars(IntervalPollOfSos)
=============================================================================
