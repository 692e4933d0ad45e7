----------------------------- MODULE StoreData -----------------------------
(***************************************************************************)
(* The data a vault store holds and the calls made on it.  A store is a    *)
(* map from resource paths to structs (WritableStoreMap of                 *)
(* store/_base.ts); a path is an element of Items and a struct an element  *)
(* of Vals.  None is the absent struct, the absent ciphertext, the absent  *)
(* session: whatever the code represents by null or undefined.             *)
(***************************************************************************)
CONSTANTS Keys,   \* names of the stores kept in chrome.storage.local
          Items,  \* resource paths within a store
          Vals,   \* structs a path can hold
          Bump,   \* the callback of update(): the new struct, given the old
          None

Contents == [Items -> Vals \cup {None}]

\* H_STORE_INITS of the store: what a store that was never saved holds.
Default == [i \in Items |-> None]

Jobs ==
  [op : {"put"}, key : Keys, item : Items, val : Vals]
    \cup [op : {"update", "delete"}, key : Keys, item : Items]
    \cup [op : {"clear", "read"}, key : Keys]

\* None is none of the things it stands in for.
ASSUME DataAssumption ==
  /\ Bump \in [Vals -> Vals]
  /\ None \notin Vals \cup Jobs \cup Contents

Effect(j, c) ==
  CASE j.op = "put"    -> [c EXCEPT ![j.item] = j.val]
    [] j.op = "update" -> [c EXCEPT ![j.item] = Bump[c[j.item]]]
    [] j.op = "delete" -> [c EXCEPT ![j.item] = None]
    [] j.op = "clear"  -> Default
    [] j.op = "read"   -> c

\* update() of a path that does not exist throws.
Throws(j, c) == j.op = "update" /\ c[j.item] = None

\* delete() of a path that does not exist resolves without saving.
Unsaved(j, c) == j.op = "delete" /\ c[j.item] = None
=============================================================================
