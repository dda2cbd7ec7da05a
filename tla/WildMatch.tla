------------------------------- MODULE WildMatch -------------------------------
(***************************************************************************)
(* ndfs_wildmatch, one step of its loops at a time: a pattern with * and ? *)
(* against a name, with one place to go back to.                           *)
(***************************************************************************)
EXTENDS Naturals, Sequences

CONSTANTS
  Letters,   \* the characters of names
  Fold,      \* tolower
  MaxName, MaxPattern  \* bounds: the lengths of names and patterns

Star == "*"
Any  == "?"

ASSUME WildAssumption ==
  /\ Fold \in [Letters -> Letters]
  /\ MaxName \in Nat /\ MaxPattern \in Nat
  /\ {Star, Any} \intersect Letters = {}

Strings(S, n) == UNION {[1 .. k -> S] : k \in 0 .. n}

VARIABLES
  pattern, name, ci,
  p, n,      \* the next character of each
  back,      \* star_pat and star_name: where to go on when a match fails, or none
  answer     \* "none" while the loops run

vars == <<pattern, name, ci, p, n, back, answer>>

None == [p |-> 0, n |-> 0]

Init ==
  /\ pattern \in Strings(Letters \union {Star, Any}, MaxPattern)
  /\ name \in Strings(Letters, MaxName)
  /\ ci \in BOOLEAN
  /\ p = 1 /\ n = 1
  /\ back = None
  /\ answer = "none"

Inputs == UNCHANGED <<pattern, name, ci>>

InPattern == p <= Len(pattern)
InName    == n <= Len(name)

CharEq(a, b, folded) == a = b \/ (folded /\ {a, b} \subseteq Letters /\ Fold[a] = Fold[b])

Direct  == InPattern /\ (pattern[p] = Any \/ CharEq(pattern[p], name[n], ci))
AtStar  == InPattern /\ pattern[p] = Star

Advance ==
  /\ answer = "none" /\ InName /\ Direct
  /\ p' = p + 1 /\ n' = n + 1
  /\ UNCHANGED <<back, answer>> /\ Inputs

Mark ==
  /\ answer = "none" /\ InName /\ ~Direct /\ AtStar
  /\ p' = p + 1
  /\ back' = [p |-> p + 1, n |-> n]
  /\ UNCHANGED <<n, answer>> /\ Inputs

\* Bug: the star takes up no further character, and the match starts again where it was.
GoBackStuck ==
  /\ answer = "none" /\ InName /\ ~Direct /\ ~AtStar /\ back # None
  /\ p' = back.p /\ n' = back.n
  /\ UNCHANGED <<back, answer>> /\ Inputs

\* The last star takes up one more character.
GoBack ==
  /\ answer = "none" /\ InName /\ ~Direct /\ ~AtStar /\ back # None
  /\ p' = back.p
  /\ n' = back.n + 1
  /\ back' = [back EXCEPT !.n = @ + 1]
  /\ UNCHANGED answer /\ Inputs

Mismatch ==
  /\ answer = "none" /\ InName /\ ~Direct /\ ~AtStar /\ back = None
  /\ answer' = "no"
  /\ UNCHANGED <<p, n, back>> /\ Inputs

SkipStar ==
  /\ answer = "none" /\ ~InName /\ AtStar
  /\ p' = p + 1
  /\ UNCHANGED <<n, back, answer>> /\ Inputs

\* Bug: a name that is used up matches, whatever is left of the pattern.
EndEarly ==
  /\ answer = "none" /\ ~InName /\ ~AtStar
  /\ answer' = "yes"
  /\ UNCHANGED <<p, n, back>> /\ Inputs

End ==
  /\ answer = "none" /\ ~InName /\ ~AtStar
  /\ answer' = IF InPattern THEN "no" ELSE "yes"
  /\ UNCHANGED <<p, n, back>> /\ Inputs

Next == Advance \/ Mark \/ GoBack \/ Mismatch \/ SkipStar \/ End

\* A call that has begun runs on to its return.
Spec == Init /\ [][Next]_vars /\ WF_vars(Next)

-----------------------------------------------------------------------------
\* What the header says of a pattern: * stands for any characters, ? for one.
Matches ==
  LET m[i \in 0 .. Len(pattern), j \in 0 .. Len(name)] ==
        IF i = 0 THEN j = 0
        ELSE CASE pattern[i] = Star -> m[i - 1, j] \/ (j > 0 /\ m[i, j - 1])
               [] pattern[i] = Any  -> j > 0 /\ m[i - 1, j - 1]
               [] OTHER             -> j > 0 /\ CharEq(pattern[i], name[j], ci) /\ m[i - 1, j - 1]
  IN m[Len(pattern), Len(name)]

\* Going back to the last star only is enough: the answer is the one of the definition.
AgreesWithDefinition == answer # "none" => (answer = "yes") = Matches

\* Every call returns.
Returns == <>(answer # "none")
=============================================================================
