------------------------------- MODULE MCOrders -------------------------------
(***************************************************************************)
(* The lines for TLC: every short one, and longer ones made of one or two  *)
(* orders.                                                                 *)
(***************************************************************************)
EXTENDS Orders

CONSTANT MaxLine    \* bound: symbols of a short line

Symbols == {"regina", "pizza", "x", "X", "L", "1", "0", " ", ";"}
ShortLines == UNION {[1 .. n -> Symbols] : n \in 0 .. MaxLine}

Gap == {<<>>, <<" ">>}

\* One order: word, size and number, each in front of a gap.
One(words, sizes, numbers) ==
    {g \o w \o g \o z \o g \o n \o g : g \in Gap, w \in words, z \in sizes, n \in numbers}

Words == {<<"regina">>, <<"REGINA">>, <<"margarita">>, <<"americana">>, <<"fantasia">>,
          <<"pizza">>, <<"x", "l">>}
Sizes == {<<"s">>, <<"S">>, <<"M">>, <<"l">>, <<"X", "l">>, <<"X", "X", "L">>}
Numbers == {<<"x", "1">>, <<"X", "2">>, <<"x", "8">>, <<"x", "1", "5">>, <<"x", "1", "6">>,
            <<"x", "0", "1">>}

FewOrders ==
    One({<<"regina">>, <<"fantasia">>}, {<<"X", "L">>}, {<<"x", "3">>, <<"x", "5">>})
    \cup One({<<"pizza">>}, {<<"l">>}, {<<"x", "1">>})

\* Two orders, with or without a semicolon between and behind them.
Pairs ==
    {a \o b \o c \o d : a \in FewOrders, b \in {<<";">>, <<";", ";">>, <<>>},
                        c \in FewOrders, d \in {<<>>, <<";">>, <<";", " ">>}}

\* The subject's own example of a valid order ends in this one, which its
\* grammar does not derive.
NumberMissing == <<"margarita", "S", "x">>

MCLines == ShortLines \cup One(Words, Sizes, Numbers) \cup Pairs \cup {NumberMissing}
=============================================================================
