---------------------------- MODULE MCTraceStream ----------------------------
(* Markers of two bytes that share bytes with one another and with the     *)
(* text; a model that generates markers cut anywhere, one that generates   *)
(* the bytes the sanitizer and the JSON strings treat apart (starts and    *)
(* tails of characters, surrogates, controls and quotes), and one that     *)
(* answers in characters, whole and broken.                                *)
EXTENDS TraceStream

Lt == 60
End == <<Lt, 47>>
Open == <<Lt, 124>>
Close == <<47, 124>>
Bytewise(bs) == {<<b>> : b \in bs}
Cutter == [tokens |-> Bytewise({65, Lt, 47, 124}), bytes |-> 7]
Babbler == [tokens |-> Bytewise({195, 169, 194, 155, 237, 160, 7, 10, 34, 92}), bytes |-> 3]
Author == [tokens |-> {End} \cup Bytewise({65, 195, 169}), bytes |-> 5]
AllModels == {Cutter, Babbler, Author}
=============================================================================
