------------------------------ MODULE MCRooms ------------------------------
(* One other person: the room, the user and the sessions are what interleaves. *)
EXTENDS Rooms
=============================================================================
