----------------------------- MODULE MCHighlight -----------------------------
EXTENDS Highlight

McKeyword == {<<"i", "f">>, <<"i", "n", "t">>}
=============================================================================
