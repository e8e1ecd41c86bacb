--------------------------- MODULE MCBlockCommands ---------------------------
(* Someone who waits beside someone who approves or aborts; an approval or abort beside *)
(* others who ask for runs; and someone who follows.                                    *)
(* Messages grow, are replaced, and are the same for the user and the admin.          *)
EXTENDS BlockCommands

Together == [commands |-> {"wait", "act"}, requests |-> 2, runs |-> 3]
Replanned == [commands |-> {"act"}, requests |-> 2, runs |-> 4]
Following == [commands |-> {"follow"}, requests |-> 1, runs |-> 2]
MCScenarios == {Together, Replanned, Following}
OnlyFollow == {Following}
MCMessage == {<<>>, <<"a">>, <<"a", "b">>, <<"b">>}
=============================================================================
