--------------------------- MODULE KeyValueStore ---------------------------
(***************************************************************************)
(* What `api.store` is for an extension that has one run at a time: a map  *)
(* that changes one key per successful set, and that an interrupted set    *)
(* can empty.                                                              *)
(***************************************************************************)
CONSTANTS Keys, Values, Missing

VARIABLE map

EmptyMap == [k \in Keys |-> Missing]

Init == map \in [Keys -> Values \cup {Missing}]

Set(k, v) == map' = [map EXCEPT ![k] = v]

Lose == map' = EmptyMap

Next ==
    \/ \E k \in Keys, v \in Values : Set(k, v)
    \/ Lose

Spec == Init /\ [][Next]_map
=============================================================================
