------------------------------ MODULE MCWildMatch ------------------------------
EXTENDS WildMatch

Chars == {"A", "a", "B"}
Lower == [c \in Chars |-> IF c = "A" THEN "a" ELSE c]
=============================================================================
