------------------------------- MODULE Places -------------------------------
(***************************************************************************)
(* The places of a circle: sealed blobs with a version, which the server   *)
(* replaces only if the editor names the version that is stored.  Editors  *)
(* work from a list they fetched some time ago.  The editor of the app     *)
(* keeps the version of the place it opened (_editVersion); the one of the *)
(* web client looks the version up in its list when it saves.  The content *)
(* of a place is named by the version that wrote it.                       *)
(***************************************************************************)
EXTENDS Naturals

CONSTANTS PlaceIds, AppEditors, WebEditors,
          MaxVersion        \* bound of the versions

Editors == AppEditors \cup WebEditors

ASSUME PlacesAssumption ==
    /\ MaxVersion \in Nat \ {0}
    /\ AppEditors \cap WebEditors = {}

VARIABLES
    place,      \* rows of places_enc
    list,       \* editor -> the places as last fetched: id -> version, 0 none
    fetching,   \* editor -> the list on its way, or NoList
    draft,      \* editor -> the edit that is open
    replaced    \* the last update accepted: what it replaced, what it was based on

pvars == <<place, list, fetching, draft, replaced>>

States == {"none", "live", "deleted", "gone"}
NoList == [p \in {} |-> 0]
NoDraft == [at |-> "closed"]
Draft == {NoDraft} \cup
         [at : {"open", "sent"}, id : PlaceIds, based : 1..MaxVersion, version : 1..MaxVersion]

PlacesTypeOK ==
    /\ place \in [PlaceIds -> [state : States, version : 0..MaxVersion]]
    /\ list \in [Editors -> [PlaceIds -> 0..MaxVersion]]
    /\ fetching \in [Editors -> [PlaceIds -> 0..MaxVersion] \cup {NoList}]
    /\ draft \in [Editors -> Draft]

PlacesInit ==
    /\ place = [p \in PlaceIds |-> [state |-> "none", version |-> 0]]
    /\ list = [c \in Editors |-> [p \in PlaceIds |-> 0]]
    /\ fetching = [c \in Editors |-> NoList]
    /\ draft = [c \in Editors |-> NoDraft]
    /\ replaced = <<>>

-----------------------------------------------------------------------------
(* The server *)

CreatePlace(p) ==
    /\ place[p].state = "none"
    /\ place' = [place EXCEPT ![p] = [state |-> "live", version |-> 1]]
    /\ UNCHANGED <<list, fetching, draft, replaced>>

\* An UPDATE by id alone.
AnyVersion(p, v) == place[p].state = "live"

\* The WHERE of UpdatePlace.
Matches(p, v) == place[p].state = "live" /\ place[p].version = v

\* The update; the editor closes the draft, unless the answer is lost.
UpdatePlace(c) ==
    /\ draft[c].at = "sent"
    /\ LET p == draft[c].id
       IN  /\ Matches(p, draft[c].version)
           /\ place[p].version < MaxVersion
           /\ place' = [place EXCEPT ![p].version = @ + 1]
           /\ replaced' = <<c, place[p].version, draft[c].based>>
    /\ \/ draft' = [draft EXCEPT ![c] = NoDraft]
       \/ draft' = [draft EXCEPT ![c].at = "open"]
    /\ UNCHANGED <<list, fetching>>

\* 409, or the request is lost: the draft stays open and may be saved again.
UpdateConflict(c) ==
    /\ draft[c].at = "sent"
    /\ draft' = [draft EXCEPT ![c].at = "open"]
    /\ UNCHANGED <<place, list, fetching, replaced>>

\* No version is asked for: a delete wins over an edit that was not seen.
SoftDeletePlace(p) ==
    /\ place[p].state = "live" /\ place[p].version < MaxVersion
    /\ place' = [place EXCEPT ![p] = [state |-> "deleted", version |-> @.version + 1]]
    /\ UNCHANGED <<list, fetching, draft, replaced>>

\* The retention job, past the horizon.
PrunePlaceTombstones ==
    /\ \E p \in PlaceIds : place[p].state = "deleted"
    /\ place' = [p \in PlaceIds |-> IF place[p].state = "deleted"
                                    THEN [state |-> "gone", version |-> 0] ELSE place[p]]
    /\ UNCHANGED <<list, fetching, draft, replaced>>

-----------------------------------------------------------------------------
(* The editors *)

ListPlaces(c) ==
    /\ fetching[c] = NoList
    /\ fetching' = [fetching EXCEPT ![c] =
          [p \in PlaceIds |-> IF place[p].state = "live" THEN place[p].version ELSE 0]]
    /\ UNCHANGED <<place, list, draft, replaced>>

ListArrives(c) ==
    /\ fetching[c] # NoList
    /\ list' = [list EXCEPT ![c] = fetching[c]]
    /\ fetching' = [fetching EXCEPT ![c] = NoList]
    /\ UNCHANGED <<place, draft, replaced>>

StartEdit(c, p) ==
    /\ draft[c] = NoDraft /\ list[c][p] # 0
    /\ draft' = [draft EXCEPT ![c] = [at |-> "open", id |-> p, based |-> list[c][p],
                                      version |-> list[c][p]]]
    /\ UNCHANGED <<place, list, fetching, replaced>>

\* The version that is sent: _editVersion, or current?.version ?? 1.
SentVersion(c) ==
    IF c \in AppEditors THEN draft[c].version
    ELSE IF list[c][draft[c].id] # 0 THEN list[c][draft[c].id] ELSE 1

Save(c) ==
    /\ draft[c].at = "open"
    /\ draft' = [draft EXCEPT ![c].at = "sent", ![c].version = SentVersion(c)]
    /\ UNCHANGED <<place, list, fetching, replaced>>

Cancel(c) ==
    /\ draft[c].at = "open"
    /\ draft' = [draft EXCEPT ![c] = NoDraft]
    /\ UNCHANGED <<place, list, fetching, replaced>>

PlacesNext ==
    \/ \E p \in PlaceIds : CreatePlace(p) \/ SoftDeletePlace(p)
    \/ PrunePlaceTombstones
    \/ \E c \in Editors :
          \/ UpdatePlace(c) \/ UpdateConflict(c)
          \/ ListPlaces(c) \/ ListArrives(c) \/ Save(c) \/ Cancel(c)
          \/ \E p \in PlaceIds : StartEdit(c, p)

PlacesSpec == PlacesInit /\ [][PlacesNext]_pvars

-----------------------------------------------------------------------------
\* An edit of the app replaces only the content its user saw when he opened
\* it, however old the list and however long the edit and the save took.
AppEditsAreNotLost ==
    replaced # <<>> /\ replaced[1] \in AppEditors => replaced[2] = replaced[3]

=============================================================================
