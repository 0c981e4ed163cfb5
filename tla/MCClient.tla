------------------------------ MODULE MCClient ------------------------------
(* One line for each branch of message_parser, more for those that check the *)
(* words: too few of them, too many, or white space for a name.              *)
EXTENDS Client

Line(c, w) == [cmd |-> c, words |-> w, blank |-> FALSE]
Blank(c) == [cmd |-> c, words |-> 1, blank |-> TRUE]
MCLines ==
    {Line("/nick", 1), Line("/whois", 2), Line("/create", 3), Line("/who", 0), Line("/who", 1),
     Line("/msgall", 0), Line("/msgall", 2), Line("/msg", 1), Line("/msg", 2), Line("/join", 1),
     Line("/quit", 0), Line("/quit", 1), Line("/channel_list", 0), Line("/send", 2),
     Line("yes", 0), Line("no", 0), Line("other", 0), Blank("/nick"), Blank("/quit")}
=============================================================================
