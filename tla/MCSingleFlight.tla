--------------------------- MODULE MCSingleFlight ---------------------------
(* Model values for SingleFlight: calls c1..c3 meet on one key, c4 has a key *)
(* of its own; one value does not serialize and one does not decode.         *)
EXTENDS SingleFlight, TLC

CONSTANTS c1, c2, c3, c4, k1, k2, good, mute, odd

MCKeyOf == c1 :> k1 @@ c2 :> k1 @@ c3 :> k1 @@ c4 :> k2
MCKeyOfThree == c1 :> k1 @@ c2 :> k1 @@ c3 :> k2
=============================================================================
