------------------------------ MODULE MCStores ------------------------------
(***************************************************************************)
(* Four parts of the server whose requests overlap in the store: sign-in,  *)
(* PUT /mutes, the editing of places, and the members and invites of a     *)
(* circle (a founder and two others, two invites, two requests at once).   *)
(* They share no rows, and what a commit of one means to an open           *)
(* transaction of another is OtherWrite of SignIn; so a behaviour is of    *)
(* one of them.  They do share the names of their instances, a for an      *)
(* address and for a user, so that one group of permutations serves all.   *)
(***************************************************************************)
EXTENDS SignIn, Mutes, Places, Membership, TLC

CONSTANTS a, b, x1, x2, r1, r2

VARIABLE part

StoresInit ==
    /\ SignInInit /\ MutesInit /\ PlacesInit /\ Init
    /\ \/ part \in {"sign-in", "mutes"}
       \/ part \in {"places", "membership"} /\ ~IsSQLite   \* the same on either

OwnSignIn == <<users, devices, sessions, req>>
OwnMutes == <<members, mutes, put, last, overlapped, mixed>>

StoresNext ==
    /\ \/ part = "sign-in" /\ SignInNext /\ UNCHANGED <<OwnMutes, pvars, vars>>
       \/ part = "mutes" /\ MutesNext /\ UNCHANGED <<OwnSignIn, pvars, vars>>
       \/ part = "places" /\ PlacesNext /\ UNCHANGED <<backend, OwnSignIn, OwnMutes, vars>>
       \/ part = "membership" /\ Next /\ UNCHANGED <<backend, OwnSignIn, OwnMutes, pvars>>
    /\ UNCHANGED part

StoresSpec == StoresInit /\ [][StoresNext]_<<part, svars, mvars, pvars, vars>>

StoresSymmetry ==
    Permutations({a, b}) \cup Permutations({x1, x2}) \cup Permutations({r1, r2})
=============================================================================
