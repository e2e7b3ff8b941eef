------------------------------ MODULE HashMaps ------------------------------
(***************************************************************************)
(* The std::collections::HashMap idiom of the Rust sources: a map is a     *)
(* function whose domain is the set of keys present.  The operators are    *)
(* plain first-order definitions, so that the proof modules can expand     *)
(* them.                                                                   *)
(***************************************************************************)

EmptyMap == [k \in {} |-> k]

(* m is a map with keys in K and values in V. *)
IsMap(m, K, V) == DOMAIN m \subseteq K /\ m \in [DOMAIN m -> V]

(* HashMap::insert *)
Put(m, key, val) ==
    [k \in DOMAIN m \cup {key} |-> IF k = key THEN val ELSE m[k]]

(* HashMap::get(..).unwrap_or(default) *)
Lookup(m, key, default) == IF key \in DOMAIN m THEN m[key] ELSE default

(* HashMap::remove *)
Drop(m, key) == [k \in DOMAIN m \ {key} |-> m[k]]

(* The entries of `over` shadow those of `base`. *)
Overlay(over, base) ==
    [k \in DOMAIN over \cup DOMAIN base |->
        IF k \in DOMAIN over THEN over[k] ELSE base[k]]
=============================================================================
