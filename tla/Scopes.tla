------------------------------- MODULE Scopes -------------------------------
(***************************************************************************)
(* Scope (types.py): whose memory it is and how narrowly it was filed.     *)
(* agent and session are both optional dimensions treated alike by every   *)
(* caller, so one of them stands for both; labels is one optional label.   *)
(***************************************************************************)
CONSTANTS
  Tenants, Subjects,   (* subject ids are chosen by tenants              *)
  Sessions,            (* the values of the optional dimension           *)
  Labels,              (* the values a label may have                    *)
  None                 (* Python's None: a dimension that is not set     *)

Owners == Tenants \X Subjects

\* A scope stamped with the credential's tenant (Scope.under).
Scope == [tenant : Tenants, subject : Subjects,
          session : Sessions \cup {None}, label : Labels \cup {None}]

ASSUME ScopesAssumption == None \notin Sessions \cup Labels \cup Scope

Owner(s) == <<s.tenant, s.subject>>

\* The scope that names an end-user and nothing narrower.
Everything(o) ==
  [tenant |-> o[1], subject |-> o[2], session |-> None, label |-> None]

\* What a row of memory_index or episode_journal keeps of a scope: there is no
\* column for labels (CatalogRow.scope).
OnRow(s) == [s EXCEPT !.label = None]
RowScope == {OnRow(s) : s \in Scope}

\* The catalog's filter: a dimension the caller did not set selects every row,
\* and labels are not looked at (mark_scope_deleted, delete_journal).
SelectsRow(filter, s) ==
  /\ Owner(s) = Owner(filter)
  /\ filter.session \in {None, s.session}

\* Mutant: a provider that does not look at the session.
SelectsAnySession(filter, s) ==
  Owner(s) = Owner(filter) /\ filter.label \in {None, s.label}

\* The provider's filter, labels included (pgvector.py, _conditions and
\* _rows_in_scope).
Selects(filter, s) ==
  /\ SelectsRow(filter, s)
  /\ filter.label \in {None, s.label}
=============================================================================
