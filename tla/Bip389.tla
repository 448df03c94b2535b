------------------------------- MODULE Bip389 -------------------------------
(***************************************************************************)
(* parse_xkey_deriv: the derivation that follows a key in a descriptor,    *)
(* expanded to the paths it stands for.  A derivation is a sequence of     *)
(* steps: an index, a list of indexes, a wildcard, or "**", which is       *)
(* short for the steps <0;1> and *.  An empty text is one step that cannot *)
(* be read.                                                                *)
(***************************************************************************)
EXTENDS Naturals, SequencesExt

\* A step of a path to a key.
Child(n, hardened) == [n |-> n, hardened |-> hardened]
Normal(n) == Child(n, FALSE)
Hardened(n) == Child(n, TRUE)

\* What stands between two slashes.  A list shorter than two has no ';'.  "**h" is
\* read as <0;1> and *h; any other text around "**" cannot be read.
Index(n) == [is |-> "index", of |-> <<n>>]
Multi(s) == [is |-> "multi", of |-> s]
Star == [is |-> "*", of |-> <<>>]
StarHardened == [is |-> "*h", of |-> <<>>]
TwoStars == [is |-> "**", of |-> <<>>]
TwoStarsHardened == [is |-> "**h", of |-> <<>>]
Garbage == [is |-> "garbage", of |-> <<>>]

\* An index hardened with an H, such as 5H, or a list with one: ChildNumber knows ' and
\* h only.
CapitalH == [is |-> "H", of |-> <<>>]

Shorthands == {TwoStars, TwoStarsHardened}
Unreadable == {Garbage, CapitalH}
Children == [n : Nat, hardened : BOOLEAN]
StepSet ==
    {step \in [is : {"index", "multi"}, of : Seq(Children)] : step.is = "index" => Len(step.of) = 1}
        \union {Star, StarHardened} \union Shorthands \union Unreadable

Wildcards == {Star, StarHardened}
WildcardOf(step) == IF step = Star THEN "Unhardened" ELSE "Hardened"

Failure == [ok |-> FALSE, paths |-> <<>>, wildcard |-> "None"]

\* "**" is replaced in the text, before the steps are told apart: what follows it is
\* left to the wildcard.
LongFor(step) ==
    <<Multi(<<Normal(0), Normal(1)>>), IF step = TwoStars THEN Star ELSE StarHardened>>
Replace(done, step) == done \o (IF step \in Shorthands THEN LongFor(step) ELSE <<step>>)
Replaced(steps) == FoldLeft(Replace, <<>>, steps)

\* Mutant of Extend: only the first path goes on after the list.
ExtendFirst(paths, is) ==
    LET extended == IF paths = <<>> THEN << <<is[1]>> >>
                    ELSE [paths EXCEPT ![1] = Append(@, is[1])]
        further == [k \in 1..(Len(is) - 1) |-> Append(Front(extended[1]), is[k + 1])]
    IN extended \o further

\* One turn of try_fold: every path is extended by the first index, and a copy
\* of the first path ends with each further one.
Extend(paths, is) ==
    LET extended == IF paths = <<>> THEN << <<is[1]>> >>
                    ELSE [p \in DOMAIN paths |-> Append(paths[p], is[1])]
        further == [k \in 1..(Len(is) - 1) |-> Append(Front(extended[1]), is[k + 1])]
    IN extended \o further

\* The closure of filter_map, with the fold that consumes what it yields.
Accept(acc, step) ==
    CASE ~acc.ok -> acc
      [] acc.ok /\ acc.wildcard = "None" /\ step \in Wildcards ->
            [acc EXCEPT !.wildcard = WildcardOf(step)]
      [] acc.ok /\ acc.wildcard # "None" -> [acc EXCEPT !.ok = FALSE]
      [] acc.ok /\ acc.wildcard = "None" /\ step \notin Wildcards ->
            IF \/ step \in Unreadable
               \/ step.is = "multi" /\ (acc.multipath \/ Len(step.of) < 2)
            THEN [acc EXCEPT !.ok = FALSE]
            ELSE [acc EXCEPT !.paths = Extend(@, step.of),
                             !.multipath = @ \/ step.is = "multi"]

NothingRead == [ok |-> TRUE, paths |-> <<>>, wildcard |-> "None", multipath |-> FALSE]
ParseXkeyDeriv(steps) ==
    LET acc == FoldLeft(Accept, NothingRead, Replaced(steps))
    IN IF acc.ok THEN [ok |-> TRUE, paths |-> acc.paths, wildcard |-> acc.wildcard] ELSE Failure

-----------------------------------------------------------------------------
(* What BIP389 says of such a derivation, without a fold.                  *)

\* "**" is a list and a wildcard at once.
IsList(step) == step.is = "multi" \/ step \in Shorthands
IsWildcard(step) == step \in Wildcards \union Shorthands
IsHardened(step) == step \in {StarHardened, TwoStarsHardened}
Indexes(step) == IF step \in Shorthands THEN <<Normal(0), Normal(1)>> ELSE step.of

\* A wildcard may only come last; one list at most, of two indexes or more.
WellFormed(steps) ==
    /\ \A i \in DOMAIN steps : /\ steps[i] # Garbage
                               /\ IsWildcard(steps[i]) => i = Len(steps)
                               /\ IsList(steps[i]) => Len(Indexes(steps[i])) >= 2
    /\ \A i, j \in DOMAIN steps : IsList(steps[i]) /\ IsList(steps[j]) => i = j

\* What can be read of that.
Readable(steps) == WellFormed(steps) /\ \A i \in DOMAIN steps : steps[i] # CapitalH

\* The wildcard a derivation ends with.
Ending(steps) ==
    IF steps = <<>> \/ ~IsWildcard(Last(steps)) THEN "None"
    ELSE IF IsHardened(Last(steps)) THEN "Hardened" ELSE "Unhardened"

\* The n-th path takes the n-th index of the list and what else there is, up to the
\* wildcard.
Meaning(steps) ==
    LET fixed == IF steps # <<>> /\ Last(steps) \in Wildcards THEN Front(steps) ELSE steps
        lists == {i \in DOMAIN fixed : IsList(fixed[i])}
        count == IF fixed = <<>> THEN 0
                 ELSE IF lists = {} THEN 1 ELSE Len(Indexes(fixed[CHOOSE i \in lists : TRUE]))
    IN [n \in 1..count |->
          [i \in DOMAIN fixed |-> Indexes(fixed[i])[IF i \in lists THEN n ELSE 1]]]
=============================================================================
