------------------------------ MODULE KeyedBag ------------------------------
(***************************************************************************)
(* What CFBasicHash promises to the sets, dictionaries and bags built on   *)
(* it: a value and a count for each key that is in, nothing for the        *)
(* others.  A count that reached Limit stays there.                        *)
(***************************************************************************)
EXTENDS Naturals

CONSTANTS Key, Value, Limit

VARIABLES bag,     \* bag[k]: the value and the count of k, for the keys in
          counted  \* does a key that is added again count?

Init == /\ bag = [k \in {} |-> [value |-> k, count |-> 1]]
        /\ counted \in BOOLEAN

Put(k, v, n) ==
    bag' = [j \in DOMAIN bag \cup {k} |->
              IF j = k THEN [value |-> v, count |-> n] ELSE bag[j]]

Add(k, v) == k \notin DOMAIN bag /\ Put(k, v, 1)

Again(k) == /\ counted
            /\ k \in DOMAIN bag
            /\ bag[k].count < Limit
            /\ Put(k, bag[k].value, bag[k].count + 1)

Replace(k, v) == k \in DOMAIN bag /\ Put(k, v, bag[k].count)

Remove(k) ==
    /\ k \in DOMAIN bag
    /\ \/ /\ bag[k].count = 1
          /\ bag' = [j \in DOMAIN bag \ {k} |-> bag[j]]
       \/ /\ bag[k].count \in 2..Limit - 1
          /\ Put(k, bag[k].value, bag[k].count - 1)

RemoveAll == bag' = [k \in {} |-> [value |-> k, count |-> 1]]

Next ==
    /\ \/ \E k \in Key, v \in Value : Add(k, v) \/ Replace(k, v)
       \/ \E k \in Key : Again(k) \/ Remove(k)
       \/ RemoveAll
    /\ UNCHANGED counted

Spec == Init /\ [][Next]_<<bag, counted>>
=============================================================================
