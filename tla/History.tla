------------------------------ MODULE History ------------------------------
(***************************************************************************)
(* What the wallet shows of its transactions: the entries of the history   *)
(* (internal/sync/history.go), the balances (computeBalance in wallet.go)  *)
(* and the statistics (computeStats in internal/gui/stats.go), computed by *)
(* three pieces of code from the state of WalletLedger.                    *)
(*                                                                         *)
(* A transaction that spends no modelled output is paid by others; one     *)
(* that spends any has no other inputs.                                    *)
(***************************************************************************)
EXTENDS WalletLedger

CONSTANT Value  \* satoshis of an output

\* The sum of the amounts of the elements of S.
Total(S, amount) == MapThenSumSet(LAMBDA x : amount[x], S)

Sats(S) == Total(S, Value)

OutputsOf(t) == {o \in Outputs : Creator[o] = t}

\* Consensus: no transaction pays out more than it spends.
ASSUME ValueAssumption ==
  /\ IsFiniteSet(Txs) /\ IsFiniteSet(Outputs)
  /\ Value \in [Outputs -> Nat]
  /\ \A t \in Txs : Spends[t] # {} => Sats(OutputsOf(t)) <= Sats(Spends[t])

KnownTxs == {t \in Txs : Known(t)}
ConfirmedTxs == {t \in Txs : IsConfirmed(t)}

\* outputAddress: the script is one of the wallet's.
Mine(o) == Address[o] \in watched

\* Mutant: an input is the wallet's whether or not its transaction is known.
InputMineUnknown(o) == Mine(o)

\* inputAddress: the wallet holds the previous transaction, and the output is
\* its own.
InputMine(o) == Known(Creator[o]) /\ Mine(o)

\* buildHistory: what the transaction did to the balance, and the fee, known
\* when every input spends a wallet coin.
Net(t) == Sats({o \in OutputsOf(t) : Mine(o)}) - Sats({o \in Spends[t] : InputMine(o)})
Funded(t) == Spends[t] # {} /\ \A o \in Spends[t] : InputMine(o)
Fee(t) == IF Funded(t) THEN Sats(Spends[t]) - Sats(OutputsOf(t)) ELSE 0

\* unspentValue, and computeBalance with it.
Unspent(S) == Sats({o \in Outputs : Creator[o] \in S /\ Mine(o) /\ \A t \in S : o \notin Spends[t]})
ConfirmedBalance == Unspent(ConfirmedTxs)
PendingBalance == Unspent(KnownTxs) - ConfirmedBalance

\* Mutant: the fee is counted as sent too.
SentWithFee ==
  Total({t \in KnownTxs : Fee(t) > 0 \/ Net(t) <= 0}, [t \in KnownTxs |-> -Net(t)])

\* computeStats.
Received == Total({t \in KnownTxs : Fee(t) = 0 /\ Net(t) > 0}, [t \in KnownTxs |-> Net(t)])
Fees == Total({t \in KnownTxs : Fee(t) > 0}, [t \in KnownTxs |-> Fee(t)])
Sent ==
  Total({t \in KnownTxs : Fee(t) > 0 \/ Net(t) <= 0}, [t \in KnownTxs |-> -Net(t) - Fee(t)])

\* The window agrees with itself: what the statistics count as received, less
\* what was sent and paid in fees, is the balance shown above them, and that
\* is the value of the coins offered for spending, whatever addresses were
\* learned late, forked or dropped in between (computeStats, buildHistory,
\* computeBalance, loadWalletLocked).  Two payments of one coin, which may be
\* pending together until a block settles it, would count it twice.
AmountsAgree ==
  (\A t, u \in KnownTxs : ~Conflict(t, u)) =>
    /\ Received - Sent - Fees = ConfirmedBalance + PendingBalance
    /\ Sats(Coins) = ConfirmedBalance + PendingBalance
    /\ Received >= 0 /\ Sent >= 0 /\ Fees >= 0
============================================================================
