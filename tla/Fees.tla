------------------------------- MODULE Fees -------------------------------
(***************************************************************************)
(* calculate_tx_fee (primitives/fee): the fee of the resources a           *)
(* transaction used.  Fixed-point numbers are integers in units of         *)
(* 1 / Scale; Cost gives the price in gas of each Cairo resource in these  *)
(* units.  U128 is the number of values of a u128 (small here), which also *)
(* bounds the inner value of a fixed-point number.                         *)
(***************************************************************************)
EXTENDS Integers, FiniteSetsExt

CONSTANTS Cost, Scale, U128

ASSUME FeeAssumption == Scale \in Nat \ {0} /\ U128 \in Nat \ {0}

Resources == DOMAIN Cost

FixedPointConversion == [fault |-> "FixedPointConversion"]
NotInFeeCosts == [fault |-> "CairoResourcesNotContainedInFeeCosts"]
Gas(value) == [fault |-> "none", value |-> value]

checked_from_integer(n) == IF n * Scale < U128 THEN Gas(n * Scale) ELSE FixedPointConversion

\* Mutation: the costs of all resources are added up.
calculate_l1_gas_by_vm_usage_Sum(usage) ==
  IF ~(DOMAIN usage \subseteq Resources) THEN NotInFeeCosts
  ELSE IF \E r \in DOMAIN usage : checked_from_integer(usage[r]).fault # "none"
  THEN FixedPointConversion
  ELSE Gas(MapThenSumSet(LAMBDA r : Cost[r] * usage[r], DOMAIN usage))

\* The heaviest resource; a key outside the table is refused.
calculate_l1_gas_by_vm_usage(usage) ==
  IF ~(DOMAIN usage \subseteq Resources) THEN NotInFeeCosts
  ELSE IF \E r \in DOMAIN usage : checked_from_integer(usage[r]).fault # "none"
  THEN FixedPointConversion
  ELSE Gas(Max({0} \cup {Cost[r] * usage[r] : r \in DOMAIN usage}))

ceil(fixed) == IF fixed % Scale = 0 THEN fixed ELSE ((fixed + Scale) \div Scale) * Scale

\* l1_gas_usage is what extract_l1_gas_and_vm_usage removed from the mapping.
calculate_tx_fee(l1_gas_usage, usage, gas_price) ==
  LET by_vm == calculate_l1_gas_by_vm_usage(usage)
      l1 == checked_from_integer(l1_gas_usage) IN
  IF by_vm.fault # "none" THEN by_vm
  ELSE IF l1.fault # "none" THEN l1
  ELSE LET fee == (ceil((l1.value + by_vm.value) % U128) \div Scale) * gas_price IN
       IF fee < U128 THEN Gas(fee) ELSE FixedPointConversion
=============================================================================
