---------------------------- MODULE MCStartCommands ----------------------------
EXTENDS StartCommands

N == "NUL"
Q == "'"
Letters  == {"D", "d", "E", "B"}
Capitals == [c \in Letters |-> IF c = "d" THEN "D" ELSE c]
Words    == {<<"D">>, <<"E">>}

\* Version L looks in two segments, version K finds another place in the second.
Segments ==
  <<[base |-> 0, len |-> 0, at |-> 0],
    [base |-> 0, len |-> 8, at |-> 100],
    [base |-> 4, len |-> 8, at |-> 200],
    [base |-> 4, len |-> 8, at |-> 990]>>
Addresses == <<6, 10>>
Pages == (112 :> 4) @@ (204 :> Cap + 2) @@ (212 :> Cap + 2)

Commands == {<<>>, <<<<"d", "E">>>>, <<<<"D">>, <<"E">>>>, <<<<"E">>>>, <<<<"B", "E">>, <<"D">>>>,
             <<<<"D", "E", "D", "D", "D", "D", "D">>>>, <<<<"D", Q>>>>}
Stored == {<<<<"D", "E">>>>, <<<<"E">>>>, <<<<"B", "E">>, <<"D">>>>}

\* Code with a plausible length, with one word of a repair, or empty; code that passes for the
\* command D because a NUL is where its quote would be, or for BB and D because the pad of the
\* first is missing and a quote stands at the end.
Bytes(text, length) ==
  [text |-> [k \in 1 .. Cap |-> IF k <= Len(text) THEN text[k] ELSE N], cell |-> length]
Garbage == {Bytes(<<"B", "B">>, 2), Bytes(<<"D", "?">>, 2), Bytes(<<>>, 0), Bytes(<<"D", N, "D">>, 3),
            Bytes(<<"D", N>>, 2), Bytes(<<"B", "B", Q, "D", Q, Q>>, 6)}
First == {Region(list) : list \in Stored} \union Garbage

\* The last call is read by no later one.
Areas == <<area, torn>>
=============================================================================
