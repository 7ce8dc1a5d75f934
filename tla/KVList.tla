------------------------------- MODULE KVList -------------------------------
(***************************************************************************)
(* src/src/Joseph/KVList.h: a map whose keys are compared without case.    *)
(* The list is a function from the folded key to the pair that is stored:  *)
(* the key as it was spelled when it was first set, and its value.         *)
(***************************************************************************)
EXTENDS Text

\* The empty list.
NoPairs == [n \in {} |-> <<>>]

\* Two keys are one for CaseInsensitiveHash and CaseInsensitiveEqual.
Folded(key) == toLower(key)

KVPair(key, value) == [key |-> key, value |-> value]

set(list, key, value) ==
  LET name == Folded(key)
      spelling == IF name \in DOMAIN list THEN list[name].key ELSE key
  IN  [n \in DOMAIN list \cup {name} |-> IF n = name THEN KVPair(spelling, value) ELSE list[n]]

\* A mutant: keys are compared as they are.
MutGet(list, key) == IF key \in DOMAIN list THEN {list[key].value} ELSE {}

\* The value get() points at, as a set that is empty for the null pointer.
get(list, key) == IF Folded(key) \in DOMAIN list THEN {list[Folded(key)].value} ELSE {}

\* The vector that getAll() fills in the order of the hash table, which nobody
\* chooses: the vectors it may return.
getAll(list) ==
  {[i \in DOMAIN order |-> list[order[i]]] :
     order \in Bijection(1..Cardinality(DOMAIN list), DOMAIN list)}

\* The constructor from an unordered_map, whose keys are exact, inserts them in
\* an order nobody chooses and keeps the first of those that differ in case
\* only: the lists it may build.
KVLists(map) ==
  LET names == {Folded(k) : k \in DOMAIN map}
      choices == {pick \in [names -> DOMAIN map] : \A n \in names : Folded(pick[n]) = n}
  IN  {[n \in names |-> KVPair(pick[n], map[pick[n]])] : pick \in choices}

=============================================================================
