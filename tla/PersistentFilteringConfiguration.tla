------------------ MODULE PersistentFilteringConfiguration ------------------
(***************************************************************************)
(* What a PersistentFilteringConfiguration keeps: whether it is enabled,   *)
(* and its filter lists, allowed domains and custom filters.  Those three  *)
(* are lists without duplicates with the same operations, and one set of   *)
(* items stands for them.                                                  *)
(*                                                                         *)
(* Every operation that changes the dictionary writes it to the            *)
(* preferences and then tells the observers; one that changes nothing does *)
(* neither.  The operators below give the dictionary afterwards.           *)
(***************************************************************************)
CONSTANT Item   \* filter lists, domains and filters

Settings == [enabled : BOOLEAN, items : SUBSET Item]

\* Of a configuration the preferences know nothing of.
SetDefaultValuesIfNeeded == [enabled |-> TRUE, items |-> {}]

SetEnabled(s, enabled) == [s EXCEPT !.enabled = enabled]

\* Adds a set of items, one call for each.
AppendToList(s, items) == [s EXCEPT !.items = @ \cup items]

RemoveFromList(s, item) == [s EXCEPT !.items = @ \ {item}]
=============================================================================
