------------------------------ MODULE Sessions ------------------------------
(***************************************************************************)
(* What the EIRBCHAT server promises about connections, whatever poll()    *)
(* table, list and threads it uses to keep the promise:                    *)
(*                                                                         *)
(*   - clients are admitted one at a time, in the order they arrived;      *)
(*   - never more than Capacity of them are served at once;                *)
(*   - only a client that has left is dropped, and it is dropped once: a   *)
(*     connection that was dropped or is being served is never admitted    *)
(*     again.                                                              *)
(*                                                                         *)
(* The module Server is shown to implement it.                             *)
(***************************************************************************)
EXTENDS Naturals, Sequences, FiniteSets

CONSTANTS Conn,      \* the connections clients may open
          Capacity   \* how many the server can serve at once, a natural number

VARIABLES line,      \* connections waiting to be admitted, oldest first
          online,    \* connections being served
          left,      \* connections whose client has left
          dropped    \* connections the server has let go

vars == <<line, online, left, dropped>>

InLine == {line[n] : n \in DOMAIN line}

Init ==
    /\ line = <<>>
    /\ online = {}
    /\ left = {}
    /\ dropped = {}

Arrive(c) ==
    /\ c \notin InLine \cup online \cup dropped \cup left
    /\ line' = Append(line, c)
    /\ UNCHANGED <<online, left, dropped>>

Leave(c) ==
    /\ c \in InLine \cup online
    /\ c \notin left
    /\ left' = left \cup {c}
    /\ UNCHANGED <<line, online, dropped>>

Admit ==
    /\ line # <<>>
    /\ Cardinality(online) < Capacity
    /\ line' = Tail(line)
    /\ online' = online \cup {Head(line)}
    /\ UNCHANGED <<left, dropped>>

Drop(c) ==
    /\ c \in online \cap left
    /\ online' = online \ {c}
    /\ dropped' = dropped \cup {c}
    /\ UNCHANGED <<line, left>>

Next ==
    \/ \E c \in Conn : Arrive(c) \/ Leave(c) \/ Drop(c)
    \/ Admit

Spec == Init /\ [][Next]_vars
=============================================================================
