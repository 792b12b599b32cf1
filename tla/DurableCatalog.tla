--------------------------- MODULE DurableCatalog ---------------------------
(***************************************************************************)
(* What a caller of the workspace store relies on: one catalog in memory,  *)
(* changed one operation at a time, and the copy of it a restart reads.    *)
(* The copy is replaced as a whole, so a restart finds the catalog as it   *)
(* was after some operation; and unless a write was lost, no operation     *)
(* starts before the effect of the one before it is in the copy.           *)
(***************************************************************************)
CONSTANTS Ids, Paths, Sessions, None

VARIABLES
  now,            (* The catalog callers see.                              *)
  kept,           (* The catalog a restart reads.                          *)
  lost            (* The last attempt to keep the catalog came to nothing. *)

catVars == <<now, kept, lost>>

Entry == [path : Paths, session : Sessions \cup {None}]

(* The workspaces by id, and which of them is the active one. *)
Catalog == [active : Ids \cup {None}, recs : UNION {[S -> Entry] : S \in SUBSET Ids}]

Empty == [active |-> None, recs |-> [w \in {} |-> None]]

Known(cat) == DOMAIN cat.recs

WithEntry(cat, w, e) ==
  [cat EXCEPT !.recs = [v \in Known(cat) \cup {w} |-> IF v = w THEN e ELSE cat.recs[v]]]

WithoutEntry(cat, w) == [cat EXCEPT !.recs = [v \in Known(cat) \ {w} |-> cat.recs[v]]]

(* What one operation may make of a catalog. *)
Added(cat, new) ==
  \E w \in Ids \ Known(cat), p \in Paths :
    /\ \A v \in Known(cat) : cat.recs[v].path # p
    /\ new = WithEntry(cat, w, [path |-> p, session |-> None])

Removed(cat, new) == \E w \in Known(cat) \ {cat.active} : new = WithoutEntry(cat, w)

Chosen(cat, new) == \E w \in Known(cat) \cup {None} : new = [cat EXCEPT !.active = w]

Saved(cat, new) ==
  \E w \in Known(cat), s \in Sessions \cup {None} :
    new = WithEntry(cat, w, [path |-> cat.recs[w].path, session |-> s])

Changed(cat, new) ==
  Added(cat, new) \/ Removed(cat, new) \/ Chosen(cat, new) \/ Saved(cat, new)

Init == now = Empty /\ kept = Empty /\ lost = FALSE

Settled == now = kept \/ lost

(* An operation changes the catalog and keeps it now or later. *)
Change ==
  /\ Settled
  /\ Changed(now, now')
  /\ \/ UNCHANGED <<kept, lost>>
     \/ kept' = now' /\ lost' = FALSE
     \/ UNCHANGED kept /\ lost' = TRUE

Keep == kept' = now /\ lost' = FALSE /\ UNCHANGED now

Lose == lost' = TRUE /\ UNCHANGED <<now, kept>>

Restart == now' = kept /\ lost' = FALSE /\ UNCHANGED kept

Next == Change \/ Keep \/ Lose \/ Restart

Spec == Init /\ [][Next]_catVars
=============================================================================
