----------------------------- MODULE ContextStore -----------------------------
(***************************************************************************)
(* Which texts of the database a query may see: the resolution of its      *)
(* scope and the loading of leaves and roots                               *)
(* (adapters/database/context.py).                                         *)
(*                                                                         *)
(* A leaf id is a number: ids are compared by <.                           *)
(***************************************************************************)
EXTENDS Integers, Sequences, FiniteSets, SequencesExt, FiniteSetsExt

CONSTANTS
    RootOf,             \* the root of each leaf
    DocumentOf          \* the document of each root

Leaves == DOMAIN RootOf
Roots == DOMAIN DocumentOf
Documents == {DocumentOf[root] : root \in Roots}

ASSUME RootsAssumption == \A leaf \in Leaves : RootOf[leaf] \in Roots

LeafDocument(leaf) == DocumentOf[RootOf[leaf]]

(* A scope filters by ids and by metadata, each given as the set of the    *)
(* documents that pass.                                                    *)
NoFilter == {}
Scope == [ids : SUBSET Documents, meta : SUBSET Documents]
Conflict == {"conflict"}

Filters(scope) == {scope.ids, scope.meta} \ {NoFilter}

(* The documents a scope names among those served and permitted, or a      *)
(* conflict when an explicit filter cannot be met.                         *)
Resolve(ready, permission, scope) ==
    LET named == {d \in ready \cap permission :
                     \A filter \in Filters(scope) : d \in filter}
    IN  IF \/ Filters(scope) # {} /\ named = {}
           \/ ~(scope.ids \subseteq named)
        THEN Conflict ELSE named

LoadedLeaves(ready, resolved, leaves) ==
    {leaf \in leaves : LeafDocument(leaf) \in ready \cap resolved}

(* Seeded bug: the scope resolved earlier is trusted. *)
LoadedRootsTrusting(ready, resolved, roots) ==
    {root \in roots : DocumentOf[root] \in resolved}

LoadedRoots(ready, resolved, roots) ==
    {root \in roots : DocumentOf[root] \in ready \cap resolved}
=============================================================================
