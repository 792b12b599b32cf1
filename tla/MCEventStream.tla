---------------------------- MODULE MCEventStream ----------------------------
(* Instances of EventStream.  Threads and connections are interchangeable. *)
EXTENDS EventStream, TLC

AllCursors == -1 .. MaxEvents

Symmetric == Permutations(Producers) \cup Permutations(Subscribers)
=============================================================================
