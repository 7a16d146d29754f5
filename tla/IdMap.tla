------------------------------- MODULE IdMap -------------------------------
(***************************************************************************)
(* What the catalog promises about gateway ids, one step per effect: a     *)
(* memory is given an id once, the id never changes and is never given to  *)
(* another memory; a deleted memory keeps its id and is only hidden.       *)
(***************************************************************************)
CONSTANTS
  Keys,   (* provider-native memories: (tenant, provider, native_id)  *)
  Gids,   (* gateway ids                                              *)
  NoGid   (* no row for this memory                                   *)

VARIABLES
  gid,    (* the id of each memory, NoGid before it is seen           *)
  live    (* the memories whose row is not marked deleted             *)

idVars == <<gid, live>>

Init ==
  /\ gid = [k \in Keys |-> NoGid]
  /\ live = {}

Issued == {k \in Keys : gid[k] # NoGid}

\* A page is mapped: the memories seen for the first time get distinct ids
\* nobody has, and a write brings back memories that were deleted.
Publish(new, back) ==
  /\ new \subseteq Keys \ Issued
  /\ back \subseteq Issued
  /\ gid' \in [Keys -> Gids \cup {NoGid}]
  /\ \A k \in Keys :
       IF k \in new THEN gid'[k] \in Gids ELSE gid'[k] = gid[k]
  /\ \A k \in new, l \in Keys : gid'[k] = gid'[l] => k = l
  /\ live' = live \cup new \cup back

\* Rows are marked deleted; none is ever removed.
Bury(dead) ==
  /\ dead \subseteq live
  /\ live' = live \ dead
  /\ UNCHANGED gid

Next ==
  \/ \E new \in SUBSET (Keys \ Issued), back \in SUBSET Issued : Publish(new, back)
  \/ \E dead \in SUBSET live : Bury(dead)

Spec == Init /\ [][Next]_idVars
=============================================================================
