---------------------------- MODULE ValidatorOps ----------------------------
(***************************************************************************)
(* The validator set (core/src/validator.rs) as operators on the record    *)
(* that `struct ValidatorSet` is: the members by public key, and the       *)
(* running total of their stakes.  The epoch of registration is left out:  *)
(* only get_validators_for_epoch reads it, which nothing calls.            *)
(***************************************************************************)
EXTENDS Integers, HashMaps

CONSTANTS
    MinStake,   \* MIN_STAKE
    ProbScale   \* a VRF output, read as a fraction, is vrf / ProbScale

ASSUME ValidatorAssumption == MinStake \in Nat /\ ProbScale \in Nat \ {0}

ValidatorInfo == [stake : Nat, slashed : BOOLEAN]

NoValidators == [members |-> EmptyMap, total_stake |-> 0]

IsValidator(vs, key) == key \in DOMAIN vs.members

(* Registration fails below the minimum stake and for a key that is        *)
(* present, which a slashed validator still is.                            *)
CanRegister(vs, key, stake) == stake >= MinStake /\ ~IsValidator(vs, key)

RegisterValidator(vs, key, stake) ==
    IF CanRegister(vs, key, stake)
    THEN [members |-> Put(vs.members, key, [stake |-> stake, slashed |-> FALSE]),
          total_stake |-> vs.total_stake + stake]
    ELSE vs

(* Mutant: the stake that is paid back still counts. *)
UnregisterKeepsStake(vs, key) ==
    IF IsValidator(vs, key)
    THEN [vs EXCEPT !.members = Drop(vs.members, key)]
    ELSE vs

UnregisterValidator(vs, key) ==
    IF IsValidator(vs, key)
    THEN [members |-> Drop(vs.members, key),
          total_stake |-> vs.total_stake - vs.members[key].stake]
    ELSE vs

(* Mutant: the slashed stake still counts. *)
SlashKeepsTotal(vs, key) ==
    IF IsValidator(vs, key) /\ ~vs.members[key].slashed
    THEN [vs EXCEPT !.members =
            Put(vs.members, key, [stake |-> 0, slashed |-> TRUE])]
    ELSE vs

SlashValidator(vs, key) ==
    IF IsValidator(vs, key) /\ ~vs.members[key].slashed
    THEN [members |-> Put(vs.members, key, [stake |-> 0, slashed |-> TRUE]),
          total_stake |-> vs.total_stake - vs.members[key].stake]
    ELSE vs

(* A key leads a slot when vrf / ProbScale < stake / total. *)
IsSlotLeader(vs, key, vrf) ==
    /\ IsValidator(vs, key)
    /\ vs.total_stake # 0
    /\ vrf * vs.total_stake < vs.members[key].stake * ProbScale
=============================================================================
