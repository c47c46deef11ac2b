--------------------------- MODULE MCSourceText ---------------------------
EXTENDS SourceText

\* The list for a function has its parameters in order, perhaps fewer or
\* more than the code spills; methods have no debug information.
MCDwarf  == {<< >>, <<"x">>, <<"x", "y">>, <<"x", "y", "z">>}
MCMethod == {<< >>}
MCUser   == {"u", "v", "w"}
MCParams == <<"param_1", "param_2", "param_3">>
MCOrder  == MCParams \o <<"self", "x", "y", "z">>
=============================================================================
