---------------------------- MODULE MarketRegime ----------------------------
(***************************************************************************)
(* build_market_regime_snapshot of harvester.py: the regime a Stage3       *)
(* dispatch reads off the stored bars of two stock indices, the volatility *)
(* index and the symbols of its trigger.                                   *)
(*                                                                         *)
(* A market is a record of what the bar store holds: the closes, oldest    *)
(* first and in cents, of "sp500", "nasdaq" and "vix" and, under "symbols", *)
(* those of each target; <<>> stands for a file that is missing or has no  *)
(* usable bar.  Shares are in tenths of a percent, as they are rounded.    *)
(***************************************************************************)
EXTENDS Integers, SequencesExt

CONSTANTS
  ShortWindow, \* bars of the short moving average (50)
  LongWindow,  \* bars of the long one (200)
  HighWindow   \* bars looked at for the high (252)

\* Assumed of the constants; asserted in MCDailyJob
WindowAssumption ==
  /\ ShortWindow \in Nat \ {0}
  /\ LongWindow \in Nat /\ ShortWindow < LongWindow
  /\ HighWindow \in Nat /\ LongWindow < HighWindow

Rounded(a, b) == (2 * a + b) \div (2 * b)   \* a / b to the nearest integer

Newest(closes, n) == SubSeq(closes, Len(closes) - n + 1, Len(closes))

\* An average over more bars than there are is unknown, and then not exceeded.
Above(closes, window) ==
  /\ Len(closes) >= window
  /\ Last(closes) > Rounded(FoldSeq(LAMBDA a, b : a + b, 0, Newest(closes, window)), window)

NearHigh(closes) ==
  LET high == Max(ToSet(Newest(closes, Min({HighWindow, Len(closes)}))))
  IN  high # 0 /\ 10 * Last(closes) >= 9 * high

\* Targets with fewer bars than the short window do not count.
Valid(symbols) == {s \in DOMAIN symbols : Len(symbols[s]) >= ShortWindow}

\* No valid target at all is a share of 0.
Share(part, valid) ==
  IF valid = {} THEN 0 ELSE Rounded(1000 * Cardinality(part), Cardinality(valid))

Breadth(symbols) ==
  LET valid == Valid(symbols)
  IN  [short |-> Share({s \in valid : Above(symbols[s], ShortWindow)}, valid),
       long  |-> Share({s \in valid : Above(symbols[s], LongWindow)}, valid),
       high  |-> Share({s \in valid : NearHigh(symbols[s])}, valid)]

\* Mutant: an index without bars is left out of the score
TrendIfAny(closes, window, points) ==
  IF closes = <<>> THEN 0 ELSE IF Above(closes, window) THEN points ELSE -points

\* What an index earns for a moving average; a missing index is not above it.
Trend(closes, window, points) == IF Above(closes, window) THEN points ELSE -points

Band(share, healthy, weak, points) ==
  IF share >= healthy THEN points ELSE IF share < weak THEN -points ELSE 0

\* Stress, elevated, normal, calm; without a volatility index, as if normal.
Volatility(closes) ==
  IF closes = <<>> THEN 0
  ELSE LET vix == Last(closes)
       IN  CASE vix >= 2800 -> -16
             [] 2000 <= vix /\ vix < 2800 -> -8
             [] 1500 <= vix /\ vix < 2000 -> 0
             [] vix < 1500 -> 3

Score(market) ==
  LET breadth == Breadth(market.symbols)
      sum == 50 + Trend(market.sp500, ShortWindow, 8) + Trend(market.sp500, LongWindow, 10)
                + Trend(market.nasdaq, ShortWindow, 6) + Trend(market.nasdaq, LongWindow, 6)
                + Band(breadth.short, 600, 450, 5) + Band(breadth.long, 550, 400, 7)
                + Band(breadth.high, 180, 80, 4) + Volatility(market.vix)
  IN  Max({0, Min({100, sum})})

Regime(market) ==
  CASE Score(market) >= 70 -> "RISK_ON"
    [] 45 <= Score(market) /\ Score(market) < 70 -> "NEUTRAL"
    [] Score(market) < 45 -> "RISK_OFF"

-----------------------------------------------------------------------------
(* The regime errs on the side of caution: take away the bars of a stock   *)
(* index or of all targets, or lower the last close of an index or of a    *)
(* target, and the score of no market rises; with no bars at all it reads  *)
(* RISK_OFF.  Two holes are in the code and left out of the statement:     *)
(* a missing volatility index counts as a normal one, and a single target  *)
(* without bars drops out of the shares (derive_market_regime,             *)
(* build_breadth_snapshot).  Markets, Lower: the markets, and the markets  *)
(* with one last close lowered, to look at.                                *)
Blind(symbols) == [s \in DOMAIN symbols |-> <<>>]

MissingNeverHelps(m) ==
  /\ \A index \in {"sp500", "nasdaq"} : Score([m EXCEPT ![index] = <<>>]) <= Score(m)
  /\ Score([m EXCEPT !.symbols = Blind(@)]) <= Score(m)
  /\ Regime([sp500 |-> <<>>, nasdaq |-> <<>>, vix |-> <<>>, symbols |-> Blind(m.symbols)])
       = "RISK_OFF"

CautiousOver(markets, Lower(_)) ==
  \A m \in markets :
    /\ MissingNeverHelps(m)
    /\ \A worse \in Lower(m) : Score(worse) <= Score(m)
=============================================================================
