----------------------------- MODULE EventWindow -----------------------------
(***************************************************************************)
(* What an event log promises the readers of its cursors.                  *)
(*                                                                         *)
(* Every event is published under a cursor: a generation and a sequence    *)
(* number.  The log can still serve the latest events it published, the    *)
(* window, and a process that opens an existing log continues the sequence *)
(* where the previous process stopped, under a generation no earlier event *)
(* carries.  EventLog implements this with a ring of slots and a file.     *)
(***************************************************************************)
EXTENDS Naturals, Sequences

CONSTANT Cap      (* How many events the window holds at most. *)

VARIABLES
  up,             (* A process has the log open.                          *)
  window,         (* Sequence numbers that can be replayed, oldest first. *)
  generation,     (* Generation of the open log, 0 while it is closed.    *)
  issued          (* History: every cursor ever published.                *)

vars == <<up, window, generation, issued>>

Cursor == [gen : Nat, seq : Nat]

TypeOK ==
  /\ up \in BOOLEAN
  /\ window \in Seq(Nat)
  /\ Len(window) <= Cap
  /\ generation \in Nat
  /\ issued \in Seq(Cursor)

Init ==
  /\ up = FALSE
  /\ window = <<>>
  /\ generation = 0
  /\ issued = <<>>

(* The last k sequence numbers published. *)
LatestNumbers(k) == [i \in 1 .. k |-> Len(issued) - k + i]

(* Opening continues the sequence and starts a generation of its own.  How *)
(* much of the window survives is up to the implementation.                *)
Start ==
  /\ ~up
  /\ up' = TRUE
  /\ \E k \in 0 .. Cap :
       /\ k <= Len(issued)
       /\ Len(issued) > 0 => k > 0
       /\ window' = LatestNumbers(k)
  /\ generation' \in Nat \ {0}
  /\ Len(issued) > 0 => generation' > issued[Len(issued)].gen
  /\ UNCHANGED issued

Publish ==
  /\ up
  /\ generation' \in {generation, generation + 1}
  /\ issued' = Append(issued, [gen |-> generation', seq |-> Len(issued) + 1])
  /\ window' = IF Len(window) < Cap
                 THEN Append(window, Len(issued) + 1)
                 ELSE Append(Tail(window), Len(issued) + 1)
  /\ UNCHANGED up

Stop ==
  /\ up
  /\ up' = FALSE
  /\ window' = <<>>
  /\ generation' = 0
  /\ UNCHANGED issued

Next == Start \/ Publish \/ Stop

Spec == Init /\ [][Next]_vars
=============================================================================
