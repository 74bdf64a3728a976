--------------------------- MODULE MCClientServer ---------------------------
EXTENDS ClientServer
MCRequests == {<<"add">>, <<"add", "x">>, <<"add", "x", "2y">>, <<"status">>}
MCNumerals == <<"1", "2", "3">>
MCReads == [t \in Texts |-> CASE t = "1" -> 1 [] t \in {"2", "2y"} -> 2 [] t = "3" -> 3
                               [] OTHER -> 0]
=============================================================================
