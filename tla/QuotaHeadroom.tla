--------------------------- MODULE QuotaHeadroom ----------------------------
(* The observer's quota headroom (quota.rs): what the qualification           *)
(* namespace's ResourceQuotas leave of each of I01's units, read from the     *)
(* quotas' texts exactly and rounded against the requester.  Beside it the    *)
(* cluster's quota controller brings a quota's status.hard to its spec.hard.  *)
(*                                                                            *)
(* A quantity's text is its digits as a number, how many of them follow the   *)
(* point, and its suffix or exponent; Unparsed stands for a value that is no  *)
(* such text.  Quotas and keys are numbered in the order of their names.      *)
EXTENDS Integers, Sequences

CONSTANTS ScaleDigits,    \* the decimal places of the exact scale (9)
          NANO,           \* one base unit at that scale (10^9)
          MILLI,          \* and a thousandth of it (10^6)
          MAX_QUANTITY,   \* the largest quantity, in base units (2^63)
          MAX_MANTISSA,   \* the largest number the parser holds (2^127 - 1)
          MAX_POWER,      \* the largest power the texts call for
          MAX_FIGURE,     \* the largest figure of I01 (2^53 - 1)
          SUFFIXES,       \* of a suffix, its powers of ten and of two
          UNITS,          \* of a unit, its scale and the keys that bound it
          QuotaTexts,     \* the texts of quantities
          QuotaSets       \* the quotas a namespace may hold

\* A quota map has the texts of some keys; a quota has three of them.
IsQuotaMap(map) == map \in [DOMAIN map -> QuotaTexts]
IsQuota(q) ==
  /\ q = [name |-> q.name, spec |-> q.spec, hard |-> q.hard, used |-> q.used]
  /\ q.name \in Nat /\ IsQuotaMap(q.spec) /\ IsQuotaMap(q.hard) /\ IsQuotaMap(q.used)
AreQuotas(list) == list = [i \in DOMAIN list |-> list[i]] /\ \A i \in DOMAIN list : IsQuota(list[i])
Zero == [mantissa |-> 0, fraction |-> 0, suffix |-> ""]

ASSUME ScaleAssumption == ScaleDigits \in Nat /\ NANO = 10 ^ ScaleDigits /\ NANO \in Nat \ {0} /\ MILLI \in Nat \ {0}
ASSUME PowerAssumption == MAX_POWER \in Nat /\ \A n \in 0 .. MAX_POWER : 10 ^ n \in Nat \ {0} /\ 2 ^ n \in Nat \ {0}
ASSUME TextAssumption ==
  /\ Zero \in QuotaTexts
  /\ \A text \in QuotaTexts :
       LET suffix == SUFFIXES[text.suffix]
       IN /\ text.mantissa \in Int /\ suffix.two \in 0 .. MAX_POWER
          /\ ScaleDigits - text.fraction + suffix.ten \in -MAX_POWER .. MAX_POWER
ASSUME QuotaAssumption == \A list \in QuotaSets : AreQuotas(list)

VARIABLES quotas,       \* the namespace's quotas
          measured      \* what the observer made of them

quotaVars == <<quotas, measured>>

Unparsed == -1

-----------------------------------------------------------------------------
(* Quantities *)

\* The exact value at the scale, or Unparsed: finer than the scale, or too large.
ParseQuantity(text) ==
  LET scaled == text.mantissa * 2 ^ SUFFIXES[text.suffix].two
      power == ScaleDigits - text.fraction + SUFFIXES[text.suffix].ten
      value == IF power >= 0 THEN scaled * 10 ^ power ELSE scaled \div 10 ^ (-power)
  IN IF text.mantissa < 0 THEN Unparsed
     ELSE IF text.mantissa = 0 THEN 0
     ELSE IF scaled > MAX_MANTISSA \/ (power < 0 /\ scaled % 10 ^ (-power) # 0) THEN Unparsed
     ELSE IF value > MAX_QUANTITY * NANO THEN Unparsed ELSE value

\* A quota's spec.hard, status.hard or status.used, parsed.
Quantities(texts) == [key \in DOMAIN texts |-> ParseQuantity(texts[key])]

-----------------------------------------------------------------------------
(* The headroom *)

Parsed(q) == \A texts \in {q.spec, q.hard, q.used} : \A key \in DOMAIN texts : ParseQuantity(texts[key]) # Unparsed

\* Mutant: the same keys will do.
SettledKeys(q) == DOMAIN q.hard = DOMAIN q.spec
\* 1. status.hard is spec.hard, key by key and by value.
Settled(q) == Quantities(q.hard) = Quantities(q.spec)

\* 2. Every key of status.hard is in status.used, and not exceeded.
UsedWithin(q) ==
  \A key \in DOMAIN q.hard : key \in DOMAIN q.used /\ ParseQuantity(q.used[key]) <= ParseQuantity(q.hard[key])

Divisor(scale) == IF scale = "Millis" THEN MILLI ELSE NANO

FloorIn(value, divisor) == value \div divisor
\* Mutant: what is used is rounded down.
CeilInDown(value, divisor) == value \div divisor
CeilIn(value, divisor) == (value + divisor - 1) \div divisor

\* A covering key's room in the unit.
Room(q, key, divisor) ==
  LET hard == FloorIn(ParseQuantity(q.hard[key]), divisor)
      used == CeilIn(ParseQuantity(q.used[key]), divisor)
  IN [room |-> IF hard >= used THEN hard - used ELSE 0, name |-> q.name, key |-> key, floor |-> hard, ceil |-> used]

Covering(unit) == {c \in (DOMAIN quotas) \X UNITS[unit].keys : c[2] \in DOMAIN quotas[c[1]].hard}

Rooms(unit) == {Room(quotas[c[1]], c[2], Divisor(UNITS[unit].scale)) : c \in Covering(unit)}

\* The least room first, then the quota's name, then the key.
Earlier(a, b) ==
  \/ a.room < b.room
  \/ a.room = b.room /\ (a.name < b.name \/ (a.name = b.name /\ a.key < b.key))

Chosen(unit) == {c \in Rooms(unit) : \A other \in Rooms(unit) : ~Earlier(other, c)}

\* A count's quantities are whole.
WholeCounts(unit) ==
  UNITS[unit].scale = "Count" =>
    \A c \in Covering(unit) : \A texts \in {quotas[c[1]].hard, quotas[c[1]].used} : ParseQuantity(texts[c[2]]) % NANO = 0

\* The unit's pair: the chosen key's floor(hard) and min(ceil(used), floor(hard)).
Pair(c) == [hard |-> c.floor, used |-> IF c.ceil <= c.floor THEN c.ceil ELSE c.floor]

\* 3 and 4. A unit is bounded, and its figures are recorded.
Bounded(unit) ==
  WholeCounts(unit) /\ Chosen(unit) # {} /\ \A c \in Chosen(unit) : c.room <= MAX_FIGURE /\ c.floor <= MAX_FIGURE

Measure ==
  IF \E i \in DOMAIN quotas : ~Parsed(quotas[i]) THEN [status |-> "Refused"]
  ELSE IF \E i \in DOMAIN quotas : ~Settled(quotas[i]) THEN [status |-> "Unsettled"]
  ELSE IF (\E i \in DOMAIN quotas : ~UsedWithin(quotas[i])) \/ (\E unit \in DOMAIN UNITS : ~Bounded(unit))
  THEN [status |-> "Refused"]
  ELSE LET chosen == [unit \in DOMAIN UNITS |-> CHOOSE c \in Chosen(unit) : TRUE]
       IN [status |-> "Ok", headroom |-> [unit \in DOMAIN UNITS |-> chosen[unit].room],
           pairs |-> [unit \in DOMAIN UNITS |-> Pair(chosen[unit])]]

-----------------------------------------------------------------------------
(* The steps *)

Unmeasured == measured = [status |-> "none"]
QuotaInit == quotas \in QuotaSets /\ Unmeasured

\* A snapshot whose quotas are unsettled restarts.
TakeQuota ==
  /\ measured.status \in {"none", "Unsettled"}
  /\ measured' = Measure
  /\ UNCHANGED quotas

\* The quota controller: status.hard becomes spec.hard, and a new key is used by nothing.
SyncStatus(i) ==
  LET q == quotas[i]
      used == [key \in DOMAIN q.spec |-> IF key \in DOMAIN q.used THEN q.used[key] ELSE Zero]
  IN /\ quotas' = [quotas EXCEPT ![i] = [name |-> q.name, spec |-> q.spec, hard |-> q.spec, used |-> used]]
     /\ UNCHANGED measured

QuotaNext == TakeQuota \/ \E i \in DOMAIN quotas : SyncStatus(i)

QuotaSpec == QuotaInit /\ [][QuotaNext]_quotaVars

-----------------------------------------------------------------------------
(* Properties *)

\* A run that asks for no more than the recorded headroom of a unit exceeds no
\* quota, as the quotas are enforced now: at the observation and after every
\* later step of the quota controller.  (quota.rs quota, step 1 and step 4)
RoomFits ==
  measured.status = "Ok" =>
    \A unit \in DOMAIN UNITS : \A c \in Covering(unit) :
      LET q == quotas[c[1]]
      IN /\ c[2] \in DOMAIN q.used
         /\ ParseQuantity(q.used[c[2]]) + measured.headroom[unit] * Divisor(UNITS[unit].scale)
              <= ParseQuantity(q.hard[c[2]])

\* The pair that I01 publishes gives the headroom and no more.
\* (quota.rs quota, the recorded pair)
PairGivesHeadroom ==
  measured.status = "Ok" =>
    \A unit \in DOMAIN UNITS :
      /\ measured.pairs[unit].used <= measured.pairs[unit].hard
      /\ measured.pairs[unit].hard - measured.pairs[unit].used = measured.headroom[unit]

\* A quantity's value, times ten to the number of its decimals, in integers.
ExactlyParsed(text) ==
  ParseQuantity(text) # Unparsed /\ text.mantissa > 0 =>
    LET ten == SUFFIXES[text.suffix].ten
        left == text.fraction + (IF ten < 0 THEN -ten ELSE 0)
        right == ScaleDigits + (IF ten > 0 THEN ten ELSE 0)
    IN ParseQuantity(text) * 10 ^ left = text.mantissa * 2 ^ SUFFIXES[text.suffix].two * 10 ^ right

\* The recorded headroom can be asked for in full: it exceeds no quota now or
\* after the controller's later steps, whatever suffixes, fractions and
\* rounding the quotas' texts call for; the published pair gives just that
\* headroom; it falls short of what the tightest quota leaves by less than two
\* units; and no text was read as another value than it spells.
\* (quota.rs quota, parse_quantity, floor_in, ceil_in)
HeadroomFits ==
  /\ RoomFits /\ PairGivesHeadroom
  /\ measured.status = "Ok" =>
       /\ \A unit \in DOMAIN UNITS : \E c \in Covering(unit) :
            LET q == quotas[c[1]]
            IN ParseQuantity(q.used[c[2]]) + (measured.headroom[unit] + 2) * Divisor(UNITS[unit].scale)
                 > ParseQuantity(q.hard[c[2]])
       /\ \A i \in DOMAIN quotas : \A texts \in {quotas[i].spec, quotas[i].hard, quotas[i].used} :
            \A key \in DOMAIN texts : ExactlyParsed(texts[key])
=============================================================================
