--------------------------- MODULE MCRoomActions ---------------------------
(* Instances of RoomActions for TLC. *)
EXTENDS RoomActions, TLC

CONSTANTS p1, p2, bed, chair

OneEach == bed :> p1 @@ chair :> p2
=============================================================================
