---------------------------- MODULE DictPromise ----------------------------
(***************************************************************************)
(* A Vidyax dict: a finite map from texts to values that grows and changes *)
(* key by key (set() and the dict literal; no key is ever removed).        *)
(* VxMap implements it.                                                    *)
(***************************************************************************)
CONSTANTS Keys, Values, Absent

VARIABLE dict     \* the value of each key, or Absent

Init == dict = [k \in Keys |-> Absent]

Set(k, v) == dict' = [dict EXCEPT ![k] = v]

Next == \E k \in Keys, v \in Values : Set(k, v)

Spec == Init /\ [][Next]_dict
=============================================================================
