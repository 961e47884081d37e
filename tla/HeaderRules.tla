---------------------------- MODULE HeaderRules ----------------------------
(***************************************************************************)
(* The checks of Chain.Add (internal/spv/chain.go): which headers extend   *)
(* the chain, by their times and difficulty bits, on mainnet, testnet3,    *)
(* testnet4 and regtest, and the numbers behind them: the median of the    *)
(* last times, the retarget of a period and the compact format of targets. *)
(*                                                                         *)
(* Data.  Links and the proof of work are not here: ChainSync has the      *)
(* links, and any target above zero can be met.  The numbers are scaled    *)
(* down: a digit of the compact format is a byte in the code, Base is 256, *)
(* Size 3, Window 11 and Interval 2016 there.                              *)
(***************************************************************************)
EXTENDS Integers, Sequences, FiniteSets

CONSTANTS
  Base,        \* values of a digit of a target
  Size,        \* digits of a mantissa
  PowLimit,    \* params.PowLimit
  Window,      \* medianWindow
  Interval,    \* retargetInterval
  Timespan,    \* retargetTimespan
  MinDiffGap,  \* params.MinDiffReductionTime
  MaxTimeWarp, \* maxTimeWarp
  Latest,      \* the clock and maxFutureDrift: no header is dated after it
  Networks,    \* the networks of a run
  Times,       \* times headers are offered with
  Offered,     \* bits they are offered with, next to those of a retarget
  MaxLength    \* bound: headers of the chain

ASSUME NumbersAssumption ==
  /\ Base \in Nat \ {0} /\ Base % 2 = 0 /\ Size \in Nat \ {0, 1}
  /\ PowLimit \in Nat \ {0}
  /\ Window \in Nat \ {0} /\ Interval \in Nat \ {0}
  /\ Timespan \in Nat \ {0} /\ Timespan % 4 = 0
  /\ MinDiffGap \in Nat /\ MaxTimeWarp \in Nat /\ Latest \in Nat
  /\ Networks \subseteq {"mainnet", "testnet3", "testnet4", "regtest"}
  /\ Times \subseteq Nat
  /\ MaxLength \in Nat

\* 1 with that many digits behind it: the shifts of the code.
Power[n \in Nat] == IF n = 0 THEN 1 ELSE Base * Power[n - 1]

\* Bits without the sign bit, which compactToBig takes for a negative target.
ASSUME OfferedAssumption ==
  /\ Offered \subseteq [exp : Nat, man : Nat]
  /\ \A bits \in Offered : 2 * bits.man < Power[Size]

VARIABLES
  net,     \* the network
  headers  \* Chain.headers: time and bits of the heights from 0

rulesVars == <<net, headers>>

(***************************************************************************)
(* Targets                                                                 *)
(***************************************************************************)

\* compactToBig, for bits without the sign bit.
CompactToBig(bits) ==
  IF bits.exp <= Size
    THEN bits.man \div Power[Size - bits.exp]
    ELSE bits.man * Power[bits.exp - Size]

\* The digits a target takes.
Digits(target) == CHOOSE n \in 1..target : target < Power[n] /\ target >= Power[n - 1]

\* Mutant: the mantissa runs into the sign bit.
BigToCompactSigned(target) ==
  LET n == Digits(target) IN
  IF n > Size
    THEN [exp |-> n, man |-> (target \div Power[n - Size]) % (Power[Size] \div 2)]
    ELSE [exp |-> Size, man |-> target % (Power[Size] \div 2)]

\* bigToCompact, for a target above zero: rounded down to a mantissa that
\* leaves the sign bit free.
BigToCompact(target) ==
  LET n == Digits(target)
      man == IF n > Size THEN target \div Power[n - Size] ELSE target
      exp == IF n > Size THEN n ELSE Size
  IN IF 2 * man >= Power[Size]
       THEN [exp |-> exp + 1, man |-> man \div Base]
       ELSE [exp |-> exp, man |-> man]

PowLimitBits == BigToCompact(PowLimit)

\* Mutant: the time is not clamped.
Unclamped(time) == time

\* The time a period took, clamped to a factor of four.
Clamped(time) ==
  IF time < Timespan \div 4 THEN Timespan \div 4 ELSE
  IF time > Timespan * 4 THEN Timespan * 4 ELSE time

\* nextRetargetBits.
NextRetargetBits(first, last, oldBits) ==
  LET target == (CompactToBig(oldBits) * Clamped(last - first)) \div Timespan IN
  IF target <= 0 THEN [exp |-> 0, man |-> 0]
  ELSE BigToCompact(IF target > PowLimit THEN PowLimit ELSE target)

(***************************************************************************)
(* Checks                                                                  *)
(***************************************************************************)

\* The header at a height below n.
HeaderAt(h) == headers[h + 1]

\* medianTime of the first n headers: the middle of the last Window times, the
\* upper of two.
MedianTime(n) ==
  LET last == {h \in 0..(n - 1) : h >= n - Window}
      half == Cardinality(last) \div 2
  IN CHOOSE t \in {HeaderAt(h).time : h \in last} :
       /\ Cardinality({h \in last : HeaderAt(h).time < t}) <= half
       /\ Cardinality({h \in last : HeaderAt(h).time <= t}) > half

\* Mutant: a header is compared with the oldest of the window.
AfterOldest(time) ==
  \E h \in 0..(Len(headers) - 1) : h >= Len(headers) - Window /\ time > HeaderAt(h).time

\* The check of the time against the median.
AfterMedian(time) == time > MedianTime(Len(headers))

IsRetarget(h) == h % Interval = 0
ReduceMinDifficulty == net \in {"testnet3", "testnet4"}
EnforceBIP94 == net = "testnet4"

\* lastRealBits: those of the highest header at or below h that is the first of
\* its period or has other bits than the limit.
LastRealBits(h) ==
  HeaderAt(CHOOSE k \in 0..h :
       /\ k = 0 \/ IsRetarget(k) \/ HeaderAt(k).bits # PowLimitBits
       /\ \A j \in (k + 1)..h : ~IsRetarget(j) /\ HeaderAt(j).bits = PowLimitBits).bits

\* Mutant: testnet4 scales the last block of the period, as testnet3 does.
OldBitsOfParent(h) == HeaderAt(h - 1).bits

\* The bits a retarget scales: BIP94 takes the first block of the period.
OldBits(h) == IF EnforceBIP94 THEN HeaderAt(h - Interval).bits ELSE HeaderAt(h - 1).bits

WantedBits(h) == NextRetargetBits(HeaderAt(h - Interval).time, HeaderAt(h - 1).time, OldBits(h))

\* checkDifficulty.
CheckDifficulty(time, bits, h) ==
  \/ net = "regtest"
  \/ /\ ~IsRetarget(h)
     /\ ReduceMinDifficulty /\ bits = PowLimitBits =>
          time - HeaderAt(h - 1).time > MinDiffGap \/ LastRealBits(h - 1) = PowLimitBits
  \/ /\ IsRetarget(h)
     /\ EnforceBIP94 => time >= HeaderAt(h - 1).time - MaxTimeWarp
     /\ bits = WantedBits(h)

\* checkPoW, what it asks of the bits.
CheckPoW(bits) == CompactToBig(bits) > 0 /\ ~(bits.exp = 0 /\ bits.man > 0)

(***************************************************************************)
(* The chain                                                               *)
(***************************************************************************)

\* Genesis has the lowest difficulty.
RulesInit ==
  /\ net \in Networks
  /\ headers = <<[time |-> 0, bits |-> PowLimitBits]>>

Add(time, bits) ==
  LET h == Len(headers) IN
  /\ h < MaxLength
  /\ CheckPoW(bits)
  /\ AfterMedian(time)
  /\ time <= Latest
  /\ CheckDifficulty(time, bits, h)
  /\ headers' = Append(headers, [time |-> time, bits |-> bits])
  /\ UNCHANGED net

\* A rewind cuts the chain above the fork.
Truncate(h) ==
  /\ headers' = SubSeq(headers, 1, h + 1)
  /\ UNCHANGED net

RulesNext ==
  \/ \E time \in Times, bits \in Offered : Add(time, bits)
  \/ \E time \in Times : IsRetarget(Len(headers)) /\ Add(time, WantedBits(Len(headers)))
  \/ \E h \in 0..(Len(headers) - 2) : Truncate(h)

RulesSpec == RulesInit /\ [][RulesNext]_rulesVars

(***************************************************************************)
(* Properties                                                              *)
(***************************************************************************)

\* The median time never falls from one block to the next, while the window
\* fills and once it is full, although times themselves go back and forth.
MedianNeverFalls ==
  \A n \in 1..(Len(headers) - 1) : MedianTime(n) <= MedianTime(n + 1)

Retargets == {h \in 1..(Len(headers) - 1) : IsRetarget(h) /\ net # "regtest"}
Target(h) == CompactToBig(HeaderAt(h).bits)

\* One step of the mantissa, what rounding may take off a target.
Unit(bits) == IF bits.exp > Size THEN Power[bits.exp - Size] ELSE 1

\* The block a retarget starts from: on testnet4 the first of the period, so
\* that blocks of minimum difficulty do not count.
Reference(h) == IF net = "testnet4" THEN h - Interval ELSE h - 1

\* A retarget moves the target by a factor of four at most, up to the limit
\* and down to rounding by one step of the mantissa.
RetargetsBounded ==
  \A h \in Retargets :
    LET old == IF Target(Reference(h)) > PowLimit THEN PowLimit ELSE Target(Reference(h)) IN
    /\ Target(h) <= PowLimit
    /\ Target(h) <= 4 * Target(Reference(h))
    /\ 4 * (Target(h) + Unit(HeaderAt(h).bits)) > old

\* A period that took as long as it should, or longer, is not followed by a
\* harder one: rounding to the compact format loses nothing of a target that
\* stays the same, so difficulty does not creep up.
NoCreep ==
  \A h \in Retargets :
    HeaderAt(h - 1).time - HeaderAt(h - Interval).time >= Timespan /\
    Target(Reference(h)) <= CompactToBig(PowLimitBits)
      => Target(h) >= Target(Reference(h))

\* Headers accepted by Add, whatever order of times, rewinds and exceptions,
\* keep the median time, bound every retarget and do not creep (medianTime,
\* nextRetargetBits, bigToCompact, checkDifficulty).
AcceptedHeadersSound == MedianNeverFalls /\ RetargetsBounded /\ NoCreep
============================================================================
