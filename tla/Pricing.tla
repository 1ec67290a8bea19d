------------------------------- MODULE Pricing -------------------------------
(* The price of a call: the rows a usage is priced by (service/billing/        *)
(* pricer.go), the group and volume ratios (handler/gateway/group_ratio.go),   *)
(* the usage an upstream reports (pkg/usageparser) and the maximum charge held *)
(* before the call (handler/gateway/reserve.go).                               *)
(*                                                                             *)
(* A price row is [dim, type, price, period, tenant, min, max]: tenant says    *)
(* that the row belongs to the caller's tenant, min..max is the range of total *)
(* tokens its conditions admit (0..Unbounded when it has none), and a price    *)
(* that does not parse is Malformed.  Prices are per token and a ratio is an   *)
(* integer in tenths, so that amounts stay integers.                           *)
EXTENDS Integers, Sequences, FiniteSets, FiniteSetsExt, SequencesExt

CONSTANTS
  FallbackOutput,  \* estimatedOutputTokens: output assumed when none is known
  OutputCap,       \* maxChargeOutputCap
  Int64Limit,      \* 2^63, the first number that int64 does not hold
  MinHold,         \* minHoldAmount
  ImageHold,       \* imagePartHoldTokens
  AudioHold        \* audioPartHoldTokens

ASSUME HoldAssumption ==
  /\ {FallbackOutput, OutputCap, Int64Limit} \subseteq Nat /\ MinHold \in Nat \ {0}
  /\ 2 <= FallbackOutput /\ FallbackOutput <= OutputCap /\ OutputCap < Int64Limit
  /\ ImageHold \in Nat \ {0} /\ AudioHold \in Nat \ {0}

Unbounded == 1000
Malformed == -1
Absent    == -1
One       == 10      \* the ratio 1

(* The token dimensions a chat usage may have. *)
Dims == {"input", "output", "cache_read", "cache_write", "reasoning"}

------------------------------------------------------------------------------
(* Usage: a count per dimension and the total.                                 *)

(* clampNormalizedUsage and the default of the total in ParseOpenAIUsage.      *)
Parsed(raw) ==
  LET atLeast(n) == IF n < 0 THEN 0 ELSE n
      within(n, top) == IF n < 0 THEN 0 ELSE IF n > top THEN top ELSE n
      input  == atLeast(raw.input)
      cached == within(raw.cache_read, input)
      written == within(raw.cache_write, atLeast(input - cached))
  IN  [input |-> input, output |-> atLeast(raw.output), cache_read |-> cached,
       cache_write |-> written, reasoning |-> atLeast(raw.reasoning),
       total |-> IF raw.total > 0 THEN raw.total
                 ELSE input + atLeast(raw.output) + cached + written]

HasUsage(u) == u.total > 0 \/ \E d \in Dims : u[d] > 0

Tokens(prompt, out) ==
  [input |-> prompt, output |-> out, cache_read |-> 0, cache_write |-> 0, reasoning |-> 0,
   total |-> prompt + out]

(* A prompt is a sequence of parts [kind, tokens]: tokens is what the text     *)
(* estimator makes of a text, of the result of a tool or of a reply that is a  *)
(* plain string, an image or a piece of audio has an allowance, and a tool     *)
(* call or a message without content counts nothing.  Anything else (a file,   *)
(* an unknown type) has no allowance.  <<>> is a body that lists no messages;  *)
(* a list without any is like a message without content.                       *)
PartTokens(part) ==
  CASE part.kind \in {"text", "reply", "result"} -> part.tokens
    [] part.kind = "image" -> ImageHold
    [] part.kind = "audio" -> AudioHold
    [] OTHER               -> 0

Unpriceable(prompt) ==
  {k \in DOMAIN prompt :
     prompt[k].kind \notin {"text", "reply", "result", "image", "audio", "call", "empty"}}

Counted(n, part) == n + PartTokens(part)

(* estimateUsageFromBody: the prompt by its parts, the output by assumption;   *)
(* without messages half of that, and a total that is left at zero.            *)
Estimated(prompt) ==
  LET sum == FoldLeft(Counted, 0, prompt)
  IN  IF prompt = <<>> THEN [Tokens(FallbackOutput \div 2, FallbackOutput) EXCEPT !.total = 0]
      ELSE Tokens(IF sum = 0 THEN 1 ELSE sum, FallbackOutput)

------------------------------------------------------------------------------
(* Rows.                                                                       *)

(* pricingConditionsMatch: an unconditional row matches always. *)
ConditionsMatch(row, usage) ==
  (row.min > 0 => row.min <= usage.total) /\ (row.max < Unbounded => usage.total <= row.max)

Conditional(row) == row.min > 0 \/ row.max < Unbounded

(* pricingRowScore: the period first, then the tenant and the conditions. *)
RowScore(row, period) ==
  (IF row.period # period THEN 10 ELSE 0)
  + (IF row.tenant THEN 0 ELSE 1)
  - (IF Conditional(row) THEN 1 ELSE 0)

(* selectPricingRows: the indices of the best rows of a type, the first wins.  *)
Best(rows, type, dim, period, usage) ==
  LET fit == {i \in DOMAIN rows : /\ rows[i].dim = dim /\ rows[i].type = type
                                  /\ ConditionsMatch(rows[i], usage)}
      score(i) == RowScore(rows[i], period)
  IN  {i \in fit : \A j \in fit : score(i) < score(j) \/ (score(i) = score(j) /\ i <= j)}

(* The price a dimension is charged at, as a set of at most one: the sell row, *)
(* else - also when its price does not parse - the cost row.                   *)
Prices(rows, dim, period, usage) ==
  LET valid(type) == {rows[i].price : i \in Best(rows, type, dim, period, usage)} \ {Malformed}
  IN  IF valid("sell") # {} THEN valid("sell") ELSE valid("cost")

(* Reasoning tokens are part of the output and are not billable without a row. *)
Billable(rows, dim, period, usage) ==
  /\ usage[dim] > 0
  /\ dim = "reasoning" => \E t \in {"sell", "cost"} : Best(rows, t, dim, period, usage) # {}

(* What a dimension adds to the list cost. *)
Share(rows, dim, period, ratio, usage) ==
  ratio * usage[dim] * (CHOOSE p \in Prices(rows, dim, period, usage) : TRUE)

(* CalculateAtWithRatio: the list cost and the dimensions no row prices.       *)
Cost(rows, period, ratio, usage) ==
  LET priced == {d \in Dims : Billable(rows, d, period, usage)}
      price(d) == Prices(rows, d, period, usage)
  IN  [list    |-> FoldSet(LAMBDA d, sum : sum + Share(rows, d, period, ratio, usage),
                           0, {d \in priced : price(d) # {}}),
       missing |-> {d \in priced : price(d) = {}}]

(* volumeRatio: tiers are tried in the order of the setting and the last one   *)
(* the month's tokens reach is taken.                                          *)
VolumeRatio(tiers, month) ==
  LET reached == {i \in DOMAIN tiers : tiers[i].min <= month}
  IN  IF reached = {} THEN One ELSE tiers[Max(reached)].ratio

------------------------------------------------------------------------------
(* The hold.                                                                   *)

(* int64(v) of a float64: Go leaves a number beyond the range to the machine,  *)
(* the least integer on amd64 and the largest on arm64.                        *)
Int64(v) == IF v < Int64Limit THEN {v} ELSE {Int64Limit - 1, -Int64Limit}

(* Mutant of HoldOutput: what the caller declares is not looked at. *)
HoldOutput_Assumed(declared) == {FallbackOutput}

(* maxHoldOutputTokens: the declared bound, capped; what is no positive number *)
(* counts as not declared, which is looked at before the conversion and not    *)
(* after it.                                                                   *)
HoldOutput(declared) ==
  IF declared < 1 THEN {FallbackOutput}
  ELSE {IF n > OutputCap THEN OutputCap ELSE n : n \in Int64(declared)}

HoldUsage(prompt, output) == Tokens(Estimated(prompt).input, output)

(* computeMaxChargeHold: no hold - and no call - with a part that has no       *)
(* allowance or without a price for every dimension, otherwise the list cost,  *)
(* at least MinHold.                                                           *)
Hold(rows, period, ratio, prompt, output) ==
  LET cost == Cost(rows, period, ratio, HoldUsage(prompt, output))
  IN  [priced |-> Unpriceable(prompt) = {} /\ cost.missing = {},
       amount |-> IF cost.list < MinHold THEN MinHold ELSE cost.list]
==============================================================================
