------------------------------- MODULE Price -------------------------------
(***************************************************************************)
(* Numbers of the item contract: what a client writes, what validation     *)
(* makes of it and what a fingerprint keeps of it.                          *)
(*                                                                         *)
(* A written number is a record: its kind ("string" for an unsigned plain  *)
(* decimal string, "number" for a JSON number, "special" for NaN and the   *)
(* infinities, "text" for any other string, "bool"), and for the first two *)
(* the digits and the exponent of Decimal.as_tuple.                        *)
(***************************************************************************)
EXTENDS Integers, FiniteSetsExt

CONSTANT
    MaxCents    \* MAX_PRICE in cents

ASSUME PriceAssumption == MaxCents \in Nat \ {0}

Number(kind, digits, exponent) ==
    [kind |-> kind, digits |-> digits, exponent |-> exponent]

\* The value in thousandths; no number written here has more decimals.
Milli(w) == w.digits * 10 ^ (w.exponent + 3)

\* quantize() to cents: to the nearest, a half to the even neighbour.
Cents(w) ==
    LET whole == Milli(w) \div 10
        rest  == Milli(w) % 10
    IN  IF rest > 5 \/ (rest = 5 /\ whole % 2 = 1) THEN whole + 1 ELSE whole

\* PRICE_PATTERN allows a string at most two decimals.
WellFormed(w) ==
    \/ w.kind = "string" /\ w.exponent \in -2 .. 0
    \/ w.kind = "number"

InRange(w) == Milli(w) >= 10 /\ Milli(w) <= 10 * MaxCents

\* Variant: the price is rounded to cents.
ExactRounded(w) == TRUE

Exact(w) == Milli(w) = 10 * Cents(w)

\* validate_price does not raise; its result is then Cents(w).
ValidPrice(w) == WellFormed(w) /\ InRange(w) /\ Exact(w)

\* Variant: zeros are dropped and the exponent is not adjusted.
EncodeDigits(n, e) ==
    IF n = 0 THEN <<0, 0>>
    ELSE <<CHOOSE d \in 1 .. n : d % 10 # 0 /\ \E k \in 0 .. 9 : n = d * 10 ^ k, 0>>

\* _encode of the number n * 10^e: trailing zeros move to the exponent, so
\* that equal numbers have equal encodings.  No price or version has more
\* than nine of them.
Encode(n, e) ==
    IF n = 0 THEN <<0, 0>>
    ELSE LET k == Max({k \in 0 .. 9 : n % 10 ^ k = 0})
         IN  <<n \div 10 ^ k, e + k>>

=============================================================================
