------------------------------ MODULE MCRooms ------------------------------
(***************************************************************************)
(* Rooms with two clients.  Of the names "room" and "room1" each is taken  *)
(* for the other where the end of a name is not compared, and the second   *)
(* begins with the first; the nicknames toto1 and toto2 differ in their    *)
(* last character: a comparison takes the one for the other unless bytes   *)
(* are left after it.                                                      *)
(***************************************************************************)
EXTENDS Rooms

Same == {<<n, n>> : n \in Name}
AlikeRooms == Same \cup {<<"room", "room1">>, <<"room1", "room">>}
Beginnings == Same \cup {<<"room", "room1">>}
AlikeNicks == {{<<n, n>> : n \in Nick \cup {EIRBADMIN}} \cup more : more \in {{}, Nick \X Nick}}
=============================================================================
