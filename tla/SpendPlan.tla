----------------------------- MODULE SpendPlan -----------------------------
(***************************************************************************)
(* How a payment is planned (internal/wallet/spend.go): which coins it     *)
(* spends, its fee and its change, from the wallet's coins.                *)
(*                                                                         *)
(* Data.  A coin is a record with its value, whether it is confirmed, and  *)
(* an id that stands for its outpoint; a script is its kind.  Weights and  *)
(* limits are the code's own; the width of an int64 is a parameter.        *)
(***************************************************************************)
EXTENDS Integers, Sequences, FiniteSets, FiniteSetsExt

CONSTANT IntMax  \* the largest int64

ASSUME IntAssumption == IntMax \in Nat

\* The int64 that a sum or product comes to.
Wrap(x) == ((x + IntMax + 1) % (2 * (IntMax + 1))) - (IntMax + 1)

TxOverheadWeight == (4 + 4 + 1 + 1) * 4 + 2
P2WPKHInputWeight == (32 + 4 + 1 + 4) * 4 + 1 + 1 + 72 + 1 + 33

\* Length of a script of the kind, and whether it is a witness program.  Blank
\* are the zeros that stand in for the script of an address not entered yet.
ScriptLength == [p2wpkh |-> 22, p2tr |-> 34, p2pkh |-> 25, blank |-> 22]
IsWitnessProgram(script) == script \in {"p2wpkh", "p2tr"}

\* An output in bytes: its value, the length of its script and the script.
OutputSize(script) == 8 + 1 + ScriptLength[script]

\* The weight of the outputs: the payment, and the change if there is any.
OutputsWeight(outputs) ==
  OutputSize(outputs[1]) * 4 + (IF Len(outputs) = 2 THEN OutputSize(outputs[2]) * 4 ELSE 0)

EstimateVSize(inputs, outputs) ==
  (TxOverheadWeight + inputs * P2WPKHInputWeight + OutputsWeight(outputs) + 3) \div 4

SpendSize(script) ==
  32 + 4 + 1 + (IF IsWitnessProgram(script) THEN 107 \div 4 ELSE 107) + 4
DustLimit(script) == (OutputSize(script) + SpendSize(script)) * 3

\* The wallet's change scripts are P2WPKH.
ChangeScript == "p2wpkh"
ToDest(dest) == <<dest>>
WithChange(dest) == <<dest, ChangeScript>>

ValueOf(coins) == MapThenSumSet(LAMBDA c : c.value, coins)

\* Mutant: confirmed coins do not come first.
LargestFirst(c, d) == \/ c.value > d.value
                      \/ c.value = d.value /\ c.id < d.id

\* The order of the candidates: confirmed coins first, the largest first,
\* equal ones as sync.Coins lists them, by their outpoint.
Before(c, d) ==
  IF c.confirmed # d.confirmed THEN c.confirmed
  ELSE \/ c.value > d.value
       \/ c.value = d.value /\ c.id < d.id

\* The first n candidates.
FirstCoins(coins, n) ==
  {c \in coins : Cardinality({d \in coins : Before(d, c)}) < n}

\* The fee of the inputs and outputs.
FeeOf(inputs, outputs, rate) == Wrap(EstimateVSize(Cardinality(inputs), outputs) * rate)

\* What is left for change, and for the fee of a payment without change.
Rest(inputs, dest, amount, rate) ==
  Wrap(ValueOf(inputs) - amount - FeeOf(inputs, WithChange(dest), rate))
Remainder(inputs, amount) == Wrap(ValueOf(inputs) - amount)
CoversFee(inputs, dest, amount, rate) ==
  Remainder(inputs, amount) >= FeeOf(inputs, ToDest(dest), rate)

\* Mutant: change below the dust limit is paid back.
AnyChange(inputs, dest, amount, rate) == Rest(inputs, dest, amount, rate) > 0

HasChange(inputs, dest, amount, rate) ==
  Rest(inputs, dest, amount, rate) >= DustLimit(ChangeScript)

\* The Spend made from the inputs, change or not.
Spend(inputs, dest, amount, rate) ==
  IF HasChange(inputs, dest, amount, rate)
  THEN [inputs |-> inputs, amount |-> amount, fee |-> FeeOf(inputs, WithChange(dest), rate),
        change |-> Rest(inputs, dest, amount, rate)]
  ELSE [inputs |-> inputs, amount |-> amount, fee |-> Remainder(inputs, amount), change |-> 0]

\* The Spend returned with an error.
NoSpend == [inputs |-> {}, amount |-> 0, fee |-> 0, change |-> 0]

\* PlanSpend: of the numbers of coins that suffice, the smallest is taken.
PlanSpend(coins, useAll, dest, amount, rate) ==
  LET sizes == IF useAll THEN {Cardinality(coins)} ELSE 1..Cardinality(coins)
      enough == {n \in sizes :
                   \/ HasChange(FirstCoins(coins, n), dest, amount, rate)
                   \/ CoversFee(FirstCoins(coins, n), dest, amount, rate)}
  IN IF amount < DustLimit(dest) \/ rate < 1 \/ enough = {}
     THEN NoSpend
     ELSE Spend(FirstCoins(coins, Min(enough)), dest, amount, rate)

\* Mutant: one input's fee is left out.
MaxAmountCheap(coins, dest, rate) ==
  LET amount == Wrap(ValueOf(coins) - EstimateVSize(Cardinality(coins) - 1, ToDest(dest)) * rate)
  IN IF amount < DustLimit(dest) THEN 0 ELSE amount

\* MaxAmount.
MaxAmount(coins, dest, rate) ==
  LET amount == Wrap(ValueOf(coins) - FeeOf(coins, ToDest(dest), rate))
  IN IF amount < DustLimit(dest) THEN 0 ELSE amount
============================================================================
