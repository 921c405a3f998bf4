----------------------------- MODULE MCSplitter -----------------------------
(* All texts of up to four pieces, each a mark the scan looks for, a tag   *)
(* or a letter.                                                            *)
EXTENDS SqlText

MCChar == {"'", "-", "/", "*", "$", "semi", "nl", "a", "b"}

Pieces ==
  {<<>>, <<"'">>, <<"-">>, <<"-", "-">>, <<"/", "*">>, <<"*", "/">>, <<"$">>,
   <<"$", "$">>, <<"$", "a", "$">>, <<"$", "b", "$">>, <<"semi">>, <<"nl">>, <<"a">>}

MCTexts == {a \o b \o c \o d : a, b, c, d \in Pieces}
=============================================================================
