------------------------------ MODULE Policies ------------------------------
(***************************************************************************)
(* A descriptor as the clients read it: a text in which the keys are found *)
(* by a regular expression and replaced by @0, @1, ...  A descriptor is a  *)
(* sequence of pieces, a key with the derivation that follows it or a text *)
(* between two keys, and perhaps a checksum.                               *)
(***************************************************************************)
EXTENDS Bip389, FiniteSetsExt

\* A key expression.  A bare one has no origin; of an origin counts whose master
\* key it names, the path from there, and how it writes a hardened step.
NoOrigin == [fg |-> "none", path |-> <<>>, mark |-> ""]
Expression(origin, xpub) == [origin |-> origin, xpub |-> xpub]
IsBare(expression) == expression.origin = NoOrigin

\* Pieces of a descriptor, and of a template, in which what is left of the text
\* before the key it names stays.
Text(t) == [is |-> "text", text |-> t]
Key(expression, steps) == [is |-> "key", expression |-> expression, steps |-> steps]
Place(k, left, steps) == [is |-> "place", key |-> k, left |-> left, steps |-> steps]

Expressions ==
    [origin : [fg : STRING, path : Seq(Children), mark : {"", "h", "'"}], xpub : STRING]
Pieces ==
    [is : {"text"}, text : STRING]
        \union [is : {"key"}, expression : Expressions, steps : Seq(StepSet)]
Descriptors == [pieces : Seq(Pieces), hash : BOOLEAN]

\* The keys of the pieces in the order they are found, each once.
AddKey(keys, p) ==
    IF p.is = "key" /\ ~Contains(keys, p.expression) THEN Append(keys, p.expression) ELSE keys
KeysOf(pieces) == FoldLeft(AddKey, <<>>, pieces)

\* str::replace finds a bare key in every expression of this key, with an origin or not.
FoundIn(key, expression) ==
    key = expression \/ (IsBare(key) /\ key.xpub = expression.xpub)

\* The keys are replaced one after the other, so the first that is found wins; a
\* bare key leaves the origin before it.
PlaceOf(keys, p) ==
    LET k == Min({i \in DOMAIN keys : FoundIn(keys[i], p.expression)})
    IN Place(k - 1, IF keys[k] = p.expression THEN NoOrigin ELSE p.expression.origin, p.steps)

\* extract_keys_and_template; the checksum goes, whatever it says.
ExtractKeysAndTemplate(policy) ==
    LET keys == KeysOf(policy.pieces)
    IN [keys |-> keys,
        template |-> [i \in DOMAIN policy.pieces |->
                        LET p == policy.pieces[i]
                        IN IF p.is = "key" THEN PlaceOf(keys, p) ELSE p]]

\* Keys read into a structure no longer show how a hardened step was written.
Parsed(expression) == [expression EXCEPT !.origin.mark = ""]
Structured(policy) ==
    LET extracted == ExtractKeysAndTemplate(policy)
    IN [extracted EXCEPT !.keys = [k \in DOMAIN @ |-> Parsed(@[k])]]

-----------------------------------------------------------------------------
\* contains: the digits of i are the first digits of k.
DigitsBegin(k, i) == k = i \/ (k >= 10 /\ k \div 10 = i)

\* Mutant of FirstAppended: any derivation of the key, with a wildcard or not.
FirstAppendedAny(i, template) ==
    LET found == {j \in DOMAIN template :
                     LET p == template[j]
                     IN p.is = "place" /\ p.steps # <<>> /\ DigitsBegin(p.key, i)}
    IN IF found = {} THEN [ok |-> TRUE, paths |-> <<>>, wildcard |-> "None"]
       ELSE ParseXkeyDeriv(template[Min(found)].steps)

\* extract_first_appended_derivation_with_some_wildcard: of the places that show
\* the key, the first whose derivation has a wildcard, or cannot be read.
FirstAppended(i, template) ==
    LET found == {j \in DOMAIN template :
                     LET p == template[j]
                     IN /\ p.is = "place" /\ p.steps # <<>> /\ DigitsBegin(p.key, i)
                        /\ LET d == ParseXkeyDeriv(p.steps) IN ~d.ok \/ d.wildcard # "None"}
    IN IF found = {} THEN [ok |-> TRUE, paths |-> <<>>, wildcard |-> "None"]
       ELSE ParseXkeyDeriv(template[Min(found)].steps)

Refused == [ok |-> FALSE, path |-> <<>>]

\* Mutant of Branch: the change is not looked at.
BranchFirst(paths, change) == IF paths = <<>> THEN <<>> ELSE paths[1]

\* The second list of indexes is for change, if there is one.
Branch(paths, change) ==
    IF paths = <<>> THEN <<>>
    ELSE IF Len(paths) >= 2 /\ change THEN paths[2] ELSE paths[1]

\* display_address of the BitBox02: the path of the first key of this device, the
\* branch for receiving or change, and the index; limit is the last index there is.
Keypath(policy, fg, change, index, limit) ==
    LET p == Structured(policy)
        own == {k \in DOMAIN p.keys : p.keys[k].origin.fg = fg}
    IN IF own = {} THEN [ok |-> TRUE, path |-> <<>>]
       ELSE LET appended == FirstAppended(Min(own) - 1, p.template)
                child == IF appended.wildcard = "None" THEN <<>>
                         ELSE <<Child(index, appended.wildcard = "Hardened")>>
            IN IF ~appended.ok \/ (child # <<>> /\ index > limit) THEN Refused
               ELSE [ok |-> TRUE, path |-> p.keys[Min(own)].origin.path
                                           \o Branch(appended.paths, change) \o child]

\* bip86_path_child_numbers: m/86'/coin'/account'/change/index.
IsBip86(path) ==
    /\ Len(path) = 5
    /\ path[1] = Hardened(86)
    /\ path[2].hardened /\ path[3].hardened
    /\ ~path[4].hardened /\ ~path[5].hardened
=============================================================================
