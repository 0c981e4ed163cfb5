----------------------------- MODULE MCNickList -----------------------------
(***************************************************************************)
(* NickList with three handlers, the third on the descriptor of the first, *)
(* once that one's client has left; and nicknames of one word, or of two.  *)
(***************************************************************************)
EXTENDS NickList

CONSTANTS h1, h2, h3

\* One nickname of one word, for which all the handlers compete.
Name == {"toto"}
NameWord == [w \in Name |-> w]

\* What the client sends for /nick NULL, and for a /msg that names nobody: its
\* payload "NULL PAYLOAD" less the last character.
Nicknames == {"NULL", "NULL PAYLOA"}
Words == [w \in Nicknames |-> "NULL"]

Descriptors == [h \in Handler |-> IF h = h2 THEN 5 ELSE 4]
=============================================================================
