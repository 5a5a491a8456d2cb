------------------------- MODULE IdempotencyProofs --------------------------
(***************************************************************************)
(* Idempotency keys for every set of requests, names and prices, and the   *)
(* cleanup of their records for any number of callers, sweeps, batches and *)
(* records.                                                                *)
(*                                                                         *)
(* The contract: a live record holds the fingerprint of the request that   *)
(* its key was claimed by.  Encoding is injective on the validated values, *)
(* and validation is exact, so two requests have one fingerprint exactly   *)
(* if they ask for the same.                                               *)
(*                                                                         *)
(* The cleanup: a sweep that runs is always the pending one, only an       *)
(* accepting service creates sweeps, and a quiesced one has at most the    *)
(* batch in flight left to count.                                          *)
(***************************************************************************)
EXTENDS InputContract, IdempotencyCleanup, FiniteSetTheorems, WellFoundedInduction,
        TLAPS

-----------------------------------------------------------------------------
(* The input contract: its inductive invariant. *)

\* A record belongs to the claim of its key and holds the fingerprint of the
\* request that was executed.
ClaimInv ==
    /\ \A k \in DOMAIN claims :
          LET c == claims[k]
          IN  /\ c \in Requests /\ Valid(c)
              /\ k = <<c.operation, c.key>>
              /\ c.key \notin {None, "malformed"}
              /\ Scope(c) \in DOMAIN records
              /\ records[Scope(c)] = Fingerprint(c)
    /\ DOMAIN records = {Scope(claims[k]) : k \in DOMAIN claims}

Inv == TypeOK /\ ClaimInv /\ ReplayMeansTheSame /\ RetryIsRecognised

-----------------------------------------------------------------------------
(* Numbers. *)

(* Powers of ten, as far as the encoding goes. *)
LEMMA PowersOfTen == \A k \in 0 .. 9 : 10 ^ k \in Nat \ {0}
  <1> SUFFICES ASSUME NEW k \in 0 .. 9 PROVE 10 ^ k \in Nat \ {0}
    OBVIOUS
  <1> DEFINE P == Nat \ {0}
  <1>1. /\ 10 ^ 0 \in P /\ 10 ^ 1 \in P /\ 10 ^ 2 \in P /\ 10 ^ 3 \in P
        /\ 10 ^ 4 \in P /\ 10 ^ 5 \in P /\ 10 ^ 6 \in P /\ 10 ^ 7 \in P
        /\ 10 ^ 8 \in P /\ 10 ^ 9 \in P
    BY SMT
  <1>2. \/ k = 0 \/ k = 1 \/ k = 2 \/ k = 3 \/ k = 4
        \/ k = 5 \/ k = 6 \/ k = 7 \/ k = 8 \/ k = 9
    BY SMT
  <1> HIDE DEF P
  <1>3. 10 ^ k \in P
    BY <1>1, <1>2, Zenon
  <1> QED BY <1>3 DEF P

(* A non-empty set of numbers has a least one. *)
LEMMA Least == ASSUME NEW S \in SUBSET Nat, S # {} PROVE \E i \in S : \A j \in S : i <= j
  <1>1. IsWellFoundedOn(OpToRel(<, Nat), Nat)
    BY NatLessThanWellFounded
  <1>2. PICK i \in S : \A j \in S : ~(<<j, i>> \in OpToRel(<, Nat))
    BY <1>1, WFMin
  <1>3. \A j \in S : ~(j < i)
    BY <1>2 DEF OpToRel
  <1> QED BY <1>3

(* A non-empty set of numbers up to n has a largest one. *)
LEMMA Largest ==
    ASSUME NEW n \in Nat, NEW S \in SUBSET (0 .. n), S # {}
    PROVE  Max(S) \in S /\ \A j \in S : j <= Max(S)
  <1> DEFINE T == {j \in 0 .. n : n - j \in S}
  <1>1. T \in SUBSET Nat
    OBVIOUS
  <1>2. \A j \in S : n - j \in T /\ j \in 0 .. n
    <2> SUFFICES ASSUME NEW j \in S PROVE n - j \in T /\ j \in 0 .. n
      OBVIOUS
    <2>1. j \in 0 .. n /\ n - j \in 0 .. n /\ n - (n - j) = j
      OBVIOUS
    <2> QED BY <2>1
  <1>3. PICK i \in T : \A j \in T : i <= j
    BY <1>1, <1>2, Least
  <1>4. i \in 0 .. n /\ n - i \in S
    OBVIOUS
  <1> HIDE DEF T
  <1>5. \A j \in S : n - i >= j
    BY <1>2, <1>3, <1>4
  <1>6. \E x \in S : \A y \in S : x >= y
    BY <1>4, <1>5
  <1> QED BY <1>6 DEF Max

(* Equal encodings are of equal numbers. *)
LEMMA EncodeInjective ==
    ASSUME NEW m \in Nat, NEW n \in Nat, NEW e \in Int, Encode(m, e) = Encode(n, e)
    PROVE  m = n
  <1> DEFINE Z(i) == {k \in 0 .. 9 : i % 10 ^ k = 0}
  <1>1. ASSUME NEW i \in Nat
        PROVE  Max(Z(i)) \in 0 .. 9 /\ i % 10 ^ Max(Z(i)) = 0
    <2>1. i % 10 ^ 0 = 0
      <3>1. 10 ^ 0 = 1
        OBVIOUS
      <3> QED BY <1>1, <3>1
    <2>2. 0 \in Z(i) /\ Z(i) \in SUBSET (0 .. 9)
      BY <2>1
    <2>3. Max(Z(i)) \in Z(i)
      BY <2>2, Largest
    <2> QED BY <2>3
  <1>2. ASSUME NEW i \in Nat, NEW t \in Nat \ {0}, i % t = 0
        PROVE  i = t * (i \div t)
    <2>1. t * (i \div t) <= i /\ i < t * (i \div t) + t
      OBVIOUS
    <2> QED BY <1>2
  <1>3. ASSUME NEW i \in Nat, i # 0, NEW t \in Nat \ {0}, i % t = 0
        PROVE  i \div t # 0
    BY <1>2, <1>3
  <1> HIDE DEF Z
  <1>4. \A i \in Nat : i # 0 => Encode(i, e) = <<i \div 10 ^ Max(Z(i)), e + Max(Z(i))>>
    BY DEF Encode, Z
  <1>5. CASE m = 0 /\ n = 0
    BY <1>5
  <1>6. CASE m = 0 /\ n # 0
    <2>1. Encode(m, e) = <<0, 0>>
      BY <1>6 DEF Encode
    <2>2. n \div 10 ^ Max(Z(n)) = 0
      BY <1>4, <1>6, <2>1
    <2> QED BY <1>1, <1>3, <1>6, <2>2, PowersOfTen
  <1>7. CASE m # 0 /\ n = 0
    <2>1. Encode(n, e) = <<0, 0>>
      BY <1>7 DEF Encode
    <2>2. m \div 10 ^ Max(Z(m)) = 0
      BY <1>4, <1>7, <2>1
    <2> QED BY <1>1, <1>3, <1>7, <2>2, PowersOfTen
  <1>8. CASE m # 0 /\ n # 0
    <2>1. /\ m \div 10 ^ Max(Z(m)) = n \div 10 ^ Max(Z(n))
          /\ e + Max(Z(m)) = e + Max(Z(n))
      BY <1>4, <1>8
    <2>2. Max(Z(m)) = Max(Z(n))
      BY <1>1, <2>1
    <2>3. PICK t \in Nat \ {0} : t = 10 ^ Max(Z(m))
      BY <1>1, PowersOfTen
    <2>4. m = t * (m \div t) /\ n = t * (n \div t)
      BY <1>1, <1>2, <2>2, <2>3
    <2> QED BY <2>1, <2>2, <2>3, <2>4
  <1> QED BY <1>5, <1>6, <1>7, <1>8

-----------------------------------------------------------------------------
(* What a valid request means. *)

(* A field is fingerprinted exactly when it was given. *)
LEMMA NormalizedIsGiven == ASSUME NEW r PROVE Normalized(r) = Given(r)
  BY DEF Normalized, Given, Parsed

(* A number that passes is exact. *)
LEMMA ExactNumbers ==
    ASSUME NEW r \in Requests, Valid(r)
    PROVE  /\ "price" \in Given(r) =>
                /\ r.body["price"] # Null
                /\ r.body["price"].kind \in {"string", "number"}
                /\ Cents(r.body["price"]) \in 1 .. MaxCents
                /\ Milli(r.body["price"]) = 10 * Cents(r.body["price"])
           /\ "expected_version" \in Given(r) =>
                /\ r.body["expected_version"] # Null
                /\ r.body["expected_version"].kind = "number"
                /\ Parsed(r, "expected_version") \in 1 .. MaxVersion
                /\ Milli(r.body["expected_version"]) = 1000 * Parsed(r, "expected_version")
  <1>1. ASSUME "price" \in Given(r)
        PROVE  /\ r.body["price"] # Null
               /\ r.body["price"].kind \in {"string", "number"}
               /\ Cents(r.body["price"]) \in 1 .. MaxCents
               /\ Milli(r.body["price"]) = 10 * Cents(r.body["price"])
    <2> DEFINE w == r.body["price"]
    <2>1. w # Null /\ ValidPrice(w)
      BY <1>1 DEF Valid, ValidField
    <2>2. w.kind \in {"string", "number"}
      BY <2>1 DEF ValidPrice, WellFormed
    <2>3. w.digits \in Nat /\ w.exponent + 3 \in Nat
      BY <1>1, <2>1, <2>2, RequestsAssumption DEF Given
    <2>4. Milli(w) \in Int
      <3>1. 10 ^ (w.exponent + 3) \in Int
        BY <2>3
      <3> QED BY <2>3, <3>1 DEF Milli
    <2>5. Cents(w) \in Int
      BY <2>4 DEF Cents
    <2>6. Milli(w) >= 10 /\ Milli(w) <= 10 * MaxCents /\ Milli(w) = 10 * Cents(w)
      BY <2>1 DEF ValidPrice, InRange, Exact
    <2> QED BY <2>1, <2>2, <2>4, <2>5, <2>6, PriceAssumption
  <1>2. ASSUME "expected_version" \in Given(r)
        PROVE  /\ r.body["expected_version"] # Null
               /\ r.body["expected_version"].kind = "number"
               /\ Parsed(r, "expected_version") \in 1 .. MaxVersion
               /\ Milli(r.body["expected_version"]) = 1000 * Parsed(r, "expected_version")
    <2> DEFINE w == r.body["expected_version"]
    <2>1. ValidVersion(w)
      BY <1>2 DEF Valid, ValidField
    <2>2. Parsed(r, "expected_version") = Milli(w) \div 1000
      BY <1>2 DEF Parsed
    <2>3. w # Null /\ w.kind = "number" /\ Milli(w) % 1000 = 0
      BY <2>1 DEF ValidVersion, WholeNumber
    <2>4. w.digits \in Nat /\ w.exponent + 3 \in Nat
      BY <1>2, <2>3, RequestsAssumption DEF Given
    <2>5. Milli(w) \in Int
      <3>1. 10 ^ (w.exponent + 3) \in Int
        BY <2>4
      <3> QED BY <2>4, <3>1 DEF Milli
    <2>6. Milli(w) = 1000 * (Milli(w) \div 1000)
      <3>1. PICK m \in Int : m = Milli(w)
        BY <2>5
      <3>2. m % 1000 = 0
        BY <2>3, <3>1
      <3>3. m = 1000 * (m \div 1000)
        BY <3>2
      <3> QED BY <3>1, <3>3
    <2> QED BY <2>1, <2>2, <2>3, <2>6 DEF ValidVersion
  <1> QED BY <1>1, <1>2

(* Equal fingerprints: the same fields, asking for the same. *)
LEMMA FingerprintIsMeaning ==
    ASSUME NEW r \in Requests, NEW c \in Requests, Valid(r), Valid(c),
           r.operation = c.operation, Fingerprint(r) = Fingerprint(c)
    PROVE  /\ r.id = c.id
           /\ \A f \in Editable \cup {"expected_version"} : Asks(r, f) = Asks(c, f)
  <1>1. r.id = c.id
    BY DEF Fingerprint
  <1>2. [f \in Given(r) |-> EncodedField(r, f)] = [f \in Given(c) |-> EncodedField(c, f)]
    BY NormalizedIsGiven DEF Fingerprint
  <1>3. Given(r) = Given(c) /\ \A f \in Given(r) : EncodedField(r, f) = EncodedField(c, f)
    <2>1. DOMAIN [f \in Given(r) |-> EncodedField(r, f)] = Given(r)
      OBVIOUS
    <2>2. DOMAIN [f \in Given(c) |-> EncodedField(c, f)] = Given(c)
      OBVIOUS
    <2>3. Given(r) = Given(c)
      BY <1>2, <2>1, <2>2
    <2>4. ASSUME NEW f \in Given(r) PROVE EncodedField(r, f) = EncodedField(c, f)
      <3>1. [g \in Given(r) |-> EncodedField(r, g)][f] = EncodedField(r, f)
        OBVIOUS
      <3>2. [g \in Given(c) |-> EncodedField(c, g)][f] = EncodedField(c, f)
        BY <2>3
      <3> QED BY <1>2, <3>1, <3>2
    <2> QED BY <2>3, <2>4
  <1>4. ASSUME NEW f \in Given(r), f \in {"name", "description"}
        PROVE  r.body[f] = c.body[f]
    <2>1. Parsed(r, f) = r.body[f] /\ Parsed(c, f) = c.body[f]
      BY <1>3, <1>4 DEF Parsed
    <2>2. EncodedField(r, f) = Parsed(r, f) /\ EncodedField(c, f) = Parsed(c, f)
      BY <1>4 DEF EncodedField
    <2> QED BY <1>3, <2>1, <2>2
  <1>5. ASSUME "price" \in Given(r)
        PROVE  Milli(r.body["price"]) = Milli(c.body["price"])
    <2>1. Parsed(r, "price") = Cents(r.body["price"]) /\ Parsed(c, "price") = Cents(c.body["price"])
      BY <1>3, <1>5 DEF Parsed
    <2>2. Parsed(r, "price") \in Nat /\ Parsed(c, "price") \in Nat
      BY <1>3, <1>5, <2>1, ExactNumbers, PriceAssumption
    <2>3. Parsed(r, "price") # Null /\ Parsed(c, "price") # Null
      BY <2>2, RequestsAssumption
    <2>4. Encode(Parsed(r, "price"), -2) = Encode(Parsed(c, "price"), -2)
      BY <1>3, <1>5, <2>3 DEF EncodedField
    <2>5. Parsed(r, "price") = Parsed(c, "price")
      BY <2>2, <2>4, EncodeInjective
    <2> QED BY <1>3, <1>5, <2>1, <2>5, ExactNumbers
  <1>6. ASSUME "expected_version" \in Given(r)
        PROVE  Milli(r.body["expected_version"]) = Milli(c.body["expected_version"])
    <2> DEFINE P(x) == Parsed(x, "expected_version")
    <2>1. P(r) \in Nat /\ P(c) \in Nat
      BY <1>3, <1>6, ExactNumbers, ContractAssumption
    <2>2. P(r) # Null /\ P(c) # Null
      BY <2>1, RequestsAssumption
    <2>3. Encode(P(r), 0) = Encode(P(c), 0)
      BY <1>3, <1>6, <2>2 DEF EncodedField
    <2>4. P(r) = P(c)
      BY <2>1, <2>3, EncodeInjective
    <2> QED BY <1>3, <1>6, <2>4, ExactNumbers
  <1>7. ASSUME NEW f \in Editable \cup {"expected_version"}
        PROVE  Asks(r, f) = Asks(c, f)
    <2>1. CASE f \notin Given(r)
      BY <1>3, <2>1 DEF Asks
    <2>2. CASE f \in Given(r) /\ f \in {"name", "description"}
      BY <1>3, <1>4, <2>2 DEF Asks, Value
    <2>3. CASE f \in Given(r) /\ f \in {"price", "expected_version"}
      <3>1. /\ Value(f, r.body[f]) = <<"number", Milli(r.body[f])>>
            /\ Value(f, c.body[f]) = <<"number", Milli(c.body[f])>>
        BY <1>3, <2>3, ExactNumbers DEF Value
      <3> QED BY <1>3, <1>5, <1>6, <2>3, <3>1 DEF Asks
    <2> QED BY <2>1, <2>2, <2>3 DEF Editable
  <1> QED BY <1>1, <1>7

(* A request that writes the same values in a readable form is valid and   *)
(* has the same fingerprint.                                               *)
LEMMA RetryHasTheFingerprint ==
    ASSUME NEW r \in Requests, NEW c \in Requests, Valid(c),
           r.operation = c.operation, r.id = c.id, Wrote(r) = Wrote(c), Readable(r)
    PROVE  Valid(r) /\ Fingerprint(r) = Fingerprint(c)
  <1>1. Given(r) = Given(c) /\ \A f \in Given(r) : Value(f, r.body[f]) = Value(f, c.body[f])
    <2>1. DOMAIN Wrote(r) = Given(r) /\ DOMAIN Wrote(c) = Given(c)
      BY DEF Wrote
    <2>2. Given(r) = Given(c)
      BY <2>1
    <2>3. ASSUME NEW f \in Given(r) PROVE Value(f, r.body[f]) = Value(f, c.body[f])
      <3>1. Wrote(r)[f] = Value(f, r.body[f]) /\ Wrote(c)[f] = Value(f, c.body[f])
        BY <2>2 DEF Wrote
      <3> QED BY <3>1
    <2> QED BY <2>2, <2>3
  <1>2. Given(r) \subseteq {"name", "price", "description", "expected_version"}
    BY RequestsAssumption DEF Given, Fields, Editable
  <1>3. ASSUME NEW f \in Given(r), f \in {"name", "description"}
        PROVE  r.body[f] = c.body[f]
    <2>1. CASE c.body[f] = Null
      <3>1. Value(f, c.body[f]) = <<"null">>
        BY <2>1 DEF Value
      <3>2. CASE r.body[f] # Null
        <4>1. Value(f, r.body[f]) = <<"text", r.body[f]>>
          BY <1>3, <3>2 DEF Value
        <4> QED BY <1>1, <3>1, <4>1
      <3> QED BY <2>1, <3>2
    <2>2. CASE c.body[f] # Null
      <3>1. Value(f, c.body[f]) = <<"text", c.body[f]>>
        BY <1>3, <2>2 DEF Value
      <3>2. CASE r.body[f] = Null
        <4>1. Value(f, r.body[f]) = <<"null">>
          BY <3>2 DEF Value
        <4> QED BY <1>1, <3>1, <4>1
      <3>3. CASE r.body[f] # Null
        <4>1. Value(f, r.body[f]) = <<"text", r.body[f]>>
          BY <1>3, <3>3 DEF Value
        <4> QED BY <1>1, <3>1, <4>1
      <3> QED BY <3>2, <3>3
    <2> QED BY <2>1, <2>2
  <1>4. ASSUME NEW f \in Given(r), f \in {"price", "expected_version"}
        PROVE  r.body[f] # Null /\ Milli(r.body[f]) = Milli(c.body[f])
    <2>1. Value(f, c.body[f]) = <<"number", Milli(c.body[f])>>
      <3>1. c.body[f] # Null /\ c.body[f].kind \in {"string", "number"}
        BY <1>1, <1>4, ExactNumbers
      <3> QED BY <1>4, <3>1 DEF Value
    <2>2. CASE r.body[f] = Null
      <3>1. Value(f, r.body[f]) = <<"null">>
        BY <2>2 DEF Value
      <3> QED BY <1>1, <2>1, <3>1
    <2>3. CASE r.body[f] # Null /\ r.body[f].kind \in {"string", "number"}
      <3>1. Value(f, r.body[f]) = <<"number", Milli(r.body[f])>>
        BY <1>4, <2>3 DEF Value
      <3> QED BY <1>1, <2>1, <2>3, <3>1
    <2>4. CASE r.body[f] # Null /\ r.body[f].kind \notin {"string", "number"}
      <3>1. Value(f, r.body[f]) = <<"other", r.body[f].kind>>
        BY <1>4, <2>4 DEF Value
      <3> QED BY <1>1, <2>1, <3>1
    <2> QED BY <2>2, <2>3, <2>4
  <1>5. ASSUME NEW f \in Given(r) PROVE ValidField(f, r.body[f])
    <2>1. ValidField(f, c.body[f])
      BY <1>1 DEF Valid
    <2>2. CASE f \in {"name", "description"}
      BY <1>3, <2>1, <2>2
    <2>3. CASE f = "price"
      <3>1. ValidPrice(c.body[f]) /\ WellFormed(r.body[f])
        BY <2>1, <2>3 DEF ValidField, Readable
      <3>2. Cents(r.body[f]) = Cents(c.body[f])
        BY <1>4, <2>3 DEF Cents
      <3>3. ValidPrice(r.body[f])
        BY <1>4, <2>3, <3>1, <3>2 DEF ValidPrice, InRange, Exact
      <3> QED BY <1>4, <2>3, <3>3 DEF ValidField
    <2>4. CASE f = "expected_version"
      <3>1. ValidVersion(c.body[f]) /\ r.body[f].kind = "number"
        BY <2>1, <2>4 DEF ValidField, Readable
      <3>2. ValidVersion(r.body[f])
        BY <1>4, <2>4, <3>1 DEF ValidVersion, WholeNumber
      <3> QED BY <2>4, <3>2 DEF ValidField
    <2> QED BY <1>2, <2>2, <2>3, <2>4
  <1>6. Valid(r)
    BY <1>1, <1>5 DEF Valid
  <1>7. ASSUME NEW f \in Given(r) PROVE Parsed(r, f) = Parsed(c, f)
    <2>1. CASE f \in {"name", "description"}
      BY <1>1, <1>3, <2>1 DEF Parsed
    <2>2. CASE f = "price"
      <3>1. Cents(r.body[f]) = Cents(c.body[f])
        BY <1>4, <2>2 DEF Cents
      <3> QED BY <1>1, <2>2, <3>1 DEF Parsed
    <2>3. CASE f = "expected_version"
      BY <1>1, <1>4, <2>3 DEF Parsed
    <2> QED BY <1>2, <2>1, <2>2, <2>3
  <1>8. \A f \in Given(r) : EncodedField(r, f) = EncodedField(c, f)
    BY <1>7 DEF EncodedField
  <1>9. [f \in Given(r) |-> EncodedField(r, f)] = [f \in Given(c) |-> EncodedField(c, f)]
    BY <1>1, <1>8
  <1> QED BY <1>6, <1>9, NormalizedIsGiven DEF Fingerprint

-----------------------------------------------------------------------------
(* The contract's steps. *)

(* A claim of a request's key is of its own operation and scope. *)
LEMMA ClaimFacts ==
    ASSUME Inv, NEW r \in Requests, Claim(r) # None
    PROVE  LET c == Claim(r)
           IN  /\ c \in Requests /\ Valid(c) /\ r.operation = c.operation
               /\ r.key = c.key /\ r.key \notin {None, "malformed"}
               /\ Scope(r) = Scope(c) /\ Scope(r) \in DOMAIN records
               /\ records[Scope(r)] = Fingerprint(c)
  <1> DEFINE k == <<r.operation, r.key>>
  <1>1. k \in DOMAIN claims /\ Claim(r) = claims[k]
    BY DEF Claim
  <1>2. r.operation = claims[k].operation /\ r.key = claims[k].key
    BY <1>1 DEF Inv, ClaimInv
  <1>3. Scope(r) = Scope(claims[k])
    BY <1>2 DEF Scope, Template
  <1> QED BY <1>1, <1>2, <1>3 DEF Inv, ClaimInv

(* A live record has a claim. *)
LEMMA LiveHasClaim ==
    ASSUME Inv, NEW r \in Requests, Live(r)
    PROVE  Claim(r) # None
  <1>1. PICK k \in DOMAIN claims : Scope(r) = Scope(claims[k])
    BY DEF Live, Inv, ClaimInv
  <1>2. r.operation = claims[k].operation /\ r.key = claims[k].key
    BY <1>1 DEF Scope
  <1>3. k = <<r.operation, r.key>> /\ claims[k] \in Requests
    BY <1>2 DEF Inv, ClaimInv
  <1> QED BY <1>3, RequestsAssumption DEF Claim

(* An answer to a request that meets a claim is a replay, a mismatch or a  *)
(* refusal of the request itself.                                          *)
LEMMA AnswerStep ==
    ASSUME Inv, NEW r \in Requests, NEW kind, Answer(r, kind),
           kind = "replay" => Live(r) /\ Valid(r) /\ records[Scope(r)] = Fingerprint(r),
           kind = "bad_key" => r.key = "malformed",
           kind = "invalid" => ~Valid(r),
           kind = "mismatch" => records[Scope(r)] # Fingerprint(r),
           kind \in {"refused", "done"} => ~Live(r),
           kind \in {"replay", "bad_key", "invalid", "mismatch", "refused", "done"}
    PROVE  ReplayMeansTheSame' /\ RetryIsRecognised' /\ sent' \in 0 .. MaxSent
  <1>1. answer'.request = r /\ answer'.kind = kind /\ answer'.against = Claim(r)
    BY DEF Answer
  <1>2. ReplayMeansTheSame'
    <2> SUFFICES ASSUME kind = "replay"
                 PROVE  LET c == Claim(r)
                        IN  /\ c # None /\ r.operation = c.operation /\ r.id = c.id
                            /\ \A f \in Editable \cup {"expected_version"} :
                                  Asks(r, f) = Asks(c, f)
      BY <1>1 DEF ReplayMeansTheSame
    <2>1. Claim(r) # None
      BY LiveHasClaim
    <2>2. Fingerprint(r) = Fingerprint(Claim(r)) /\ Claim(r) \in Requests
            /\ Valid(Claim(r)) /\ r.operation = Claim(r).operation
      BY <2>1, ClaimFacts
    <2> QED BY <2>1, <2>2, FingerprintIsMeaning
  <1>3. RetryIsRecognised'
    <2> SUFFICES ASSUME Claim(r) # None, r.id = Claim(r).id,
                        Wrote(r) = Wrote(Claim(r)), Readable(r)
                 PROVE  kind = "replay"
      BY <1>1 DEF RetryIsRecognised
    <2>1. /\ Claim(r) \in Requests /\ Valid(Claim(r)) /\ r.operation = Claim(r).operation
          /\ r.key \notin {None, "malformed"} /\ Scope(r) \in DOMAIN records
          /\ records[Scope(r)] = Fingerprint(Claim(r))
      BY ClaimFacts
    <2>2. Valid(r) /\ Fingerprint(r) = Fingerprint(Claim(r))
      BY <2>1, RetryHasTheFingerprint
    <2>3. Live(r)
      BY <2>1 DEF Live
    <2> QED BY <2>1, <2>2, <2>3
  <1>4. sent' \in 0 .. MaxSent
    BY ContractAssumption DEF Answer, Inv, TypeOK
  <1> QED BY <1>2, <1>3, <1>4

(* What a request leaves in the table. *)
ItemOK(i) ==
    i = None \/ (/\ i.name \in Names /\ i.price \in 1 .. MaxCents
                 /\ i.description \in Names \cup {Null}
                 /\ i.version \in 1 .. MaxVersion)

(* What an accepted request leaves is an item the table may hold. *)
LEMMA ResultOK ==
    ASSUME Inv, NEW r \in Requests, Valid(r), Accepts(r)
    PROVE  ItemOK(Result(r))
  <1>1. /\ "name" \in Given(r) => Parsed(r, "name") \in Names
        /\ "price" \in Given(r) => Parsed(r, "price") \in 1 .. MaxCents
        /\ Parsed(r, "description") \in Names \cup {Null}
    <2>1. "name" \in Given(r) => Parsed(r, "name") \in Names
      BY DEF Valid, ValidField, Parsed
    <2>2. "price" \in Given(r) => Parsed(r, "price") \in 1 .. MaxCents
      BY ExactNumbers DEF Parsed
    <2>3. Parsed(r, "description") \in Names \cup {Null}
      BY DEF Valid, ValidField, Parsed
    <2> QED BY <2>1, <2>2, <2>3
  <1>2. CASE r.operation = "delete"
    BY <1>2 DEF Result, ItemOK
  <1>3. CASE r.operation = "create"
    <2>1. "name" \in Given(r) /\ "price" \in Given(r)
      BY <1>3 DEF Valid, Required
    <2>2. Result(r) = [name |-> Parsed(r, "name"), price |-> Parsed(r, "price"),
                       description |-> Parsed(r, "description"), version |-> 1]
      BY <1>3 DEF Result, WithVersion, Editable
    <2> QED BY <1>1, <2>1, <2>2, ContractAssumption DEF ItemOK
  <1>4. CASE r.operation \in {"replace", "update"}
    <2>1. /\ item # None /\ item.version < MaxVersion
          /\ item.version \in 1 .. MaxVersion
          /\ item.name \in Names /\ item.price \in 1 .. MaxCents
          /\ item.description \in Names \cup {Null}
      BY <1>4 DEF Accepts, Inv, TypeOK
    <2>2. Result(r) = WithVersion(Columns(r, item), item.version + 1)
      BY <1>4 DEF Result
    <2>3. ASSUME NEW f \in Editable
          PROVE  Columns(r, item)[f] = IF f \in Written(r) THEN Parsed(r, f) ELSE item[f]
      BY DEF Columns
    <2>4. Columns(r, item).name \in Names
      <3>1. "name" \in Written(r) => "name" \in Given(r)
        BY <1>4 DEF Written, Valid, Required
      <3> QED BY <1>1, <2>1, <2>3, <3>1 DEF Editable
    <2>5. Columns(r, item).price \in 1 .. MaxCents
      <3>1. "price" \in Written(r) => "price" \in Given(r)
        BY <1>4 DEF Written, Valid, Required
      <3> QED BY <1>1, <2>1, <2>3, <3>1 DEF Editable
    <2>6. Columns(r, item).description \in Names \cup {Null}
      BY <1>1, <2>1, <2>3 DEF Editable
    <2>7. item.version + 1 \in 1 .. MaxVersion
      BY <2>1, ContractAssumption
    <2> QED BY <2>2, <2>4, <2>5, <2>6, <2>7 DEF WithVersion, ItemOK
  <1> QED BY <1>2, <1>3, <1>4, RequestsAssumption

(* An executed request is the claim of its key, with its fingerprint. *)
LEMMA ExecuteStep ==
    ASSUME Inv, NEW r \in Requests, Execute(r)
    PROVE  Inv'
  <1>1. ReplayMeansTheSame' /\ RetryIsRecognised' /\ sent' \in 0 .. MaxSent
    BY AnswerStep DEF Execute
  <1>2. ItemOK(item')
    BY ResultOK DEF Execute
  <1>3. CASE r.key = None
    <2>1. records' = records /\ claims' = claims
      BY <1>3 DEF Execute
    <2>2. ClaimInv'
      BY <2>1 DEF Inv, ClaimInv
    <2> QED BY <1>1, <1>2, <2>1, <2>2 DEF Inv, TypeOK, ItemOK
  <1>4. CASE r.key # None
    <2> DEFINE n == <<r.operation, r.key>>
    <2>1. /\ DOMAIN records' = DOMAIN records \cup {Scope(r)}
          /\ DOMAIN claims' = DOMAIN claims \cup {n}
          /\ records'[Scope(r)] = Fingerprint(r) /\ claims'[n] = r
          /\ \A s \in DOMAIN records \ {Scope(r)} : records'[s] = records[s]
          /\ \A k \in DOMAIN claims \ {n} : claims'[k] = claims[k]
      BY <1>4 DEF Execute
    <2>2. r.key \notin {None, "malformed"} /\ Valid(r)
      BY <1>4 DEF Execute
    <2>3. Scope(r) \notin DOMAIN records
      BY <1>4 DEF Execute, Live
    <2>4. n \notin DOMAIN claims
      <3> SUFFICES ASSUME n \in DOMAIN claims PROVE FALSE
        OBVIOUS
      <3>1. Claim(r) = claims[n] /\ claims[n] \in Requests
        BY DEF Claim, Inv, ClaimInv
      <3> QED BY <2>3, <3>1, ClaimFacts, RequestsAssumption
    <2>5. ASSUME NEW k \in DOMAIN claims'
          PROVE  LET c == claims'[k]
                 IN  /\ c \in Requests /\ Valid(c) /\ k = <<c.operation, c.key>>
                     /\ c.key \notin {None, "malformed"}
                     /\ Scope(c) \in DOMAIN records'
                     /\ records'[Scope(c)] = Fingerprint(c)
      <3>1. CASE k = n
        BY <2>1, <2>2, <3>1
      <3>2. CASE k # n
        <4>1. k \in DOMAIN claims /\ claims'[k] = claims[k]
          BY <2>1, <3>2
        <4>2. Scope(claims[k]) \in DOMAIN records /\ Scope(claims[k]) # Scope(r)
          BY <2>3, <4>1 DEF Inv, ClaimInv
        <4> QED BY <2>1, <4>1, <4>2 DEF Inv, ClaimInv
      <3> QED BY <3>1, <3>2
    <2>6. DOMAIN records' = {Scope(claims'[k]) : k \in DOMAIN claims'}
      <3>1. \A k \in DOMAIN claims : claims'[k] = claims[k]
        BY <2>1, <2>4
      <3> QED BY <2>1, <3>1 DEF Inv, ClaimInv
    <2>7. ClaimInv'
      BY <2>5, <2>6 DEF ClaimInv
    <2>8. {<<s[1], s[3]>> : s \in DOMAIN records'} = DOMAIN claims'
      <3>1. <<Scope(r)[1], Scope(r)[3]>> = n
        BY DEF Scope
      <3> QED BY <2>1, <3>1 DEF Inv, TypeOK
    <2> QED BY <1>1, <1>2, <2>7, <2>8 DEF Inv, TypeOK, ItemOK
  <1> QED BY <1>3, <1>4

(* The end of the retention removes a record together with its claim. *)
LEMMA ExpireStep ==
    ASSUME Inv, NEW s \in DOMAIN records, Expire(s)
    PROVE  Inv'
  <1>1. PICK k \in DOMAIN claims : s = Scope(claims[k])
    BY DEF Inv, ClaimInv
  <1>2. <<s[1], s[3]>> = k
    BY <1>1 DEF Scope, Inv, ClaimInv
  <1>3. /\ DOMAIN records' = DOMAIN records \ {s} /\ DOMAIN claims' = DOMAIN claims \ {k}
        /\ \A t \in DOMAIN records' : records'[t] = records[t]
        /\ \A c \in DOMAIN claims' : claims'[c] = claims[c]
    BY <1>2 DEF Expire
  <1>4. \A c \in DOMAIN claims' : Scope(claims[c]) # s
    <2> SUFFICES ASSUME NEW c \in DOMAIN claims', Scope(claims[c]) = s PROVE FALSE
      OBVIOUS
    <2>1. claims[c].operation = claims[k].operation /\ claims[c].key = claims[k].key
      BY <1>1 DEF Scope
    <2>2. c = k
      BY <1>3, <2>1 DEF Inv, ClaimInv
    <2> QED BY <1>3, <2>2
  <1>5. ClaimInv'
    <2>1. DOMAIN records' = {Scope(claims'[c]) : c \in DOMAIN claims'}
      BY <1>1, <1>3, <1>4 DEF Inv, ClaimInv
    <2>2. \A c \in DOMAIN claims' :
             Scope(claims[c]) \in DOMAIN records' /\ records'[Scope(claims[c])] = Fingerprint(claims[c])
      BY <1>3, <1>4 DEF Inv, ClaimInv
    <2> QED BY <1>3, <2>1, <2>2 DEF Inv, ClaimInv
  <1>6. {<<t[1], t[3]>> : t \in DOMAIN records'} = DOMAIN claims'
    <2>1. \A t \in DOMAIN records : \E c \in DOMAIN claims : t = Scope(claims[c]) /\ <<t[1], t[3]>> = c
      <3>1. \A c \in DOMAIN claims : <<Scope(claims[c])[1], Scope(claims[c])[3]>> = c
        BY DEF Scope, Inv, ClaimInv
      <3>2. DOMAIN records = {Scope(claims[c]) : c \in DOMAIN claims}
        BY DEF Inv, ClaimInv
      <3> QED BY <3>1, <3>2
    <2>2. \A t \in DOMAIN records' : <<t[1], t[3]>> \in DOMAIN claims'
      <3> SUFFICES ASSUME NEW t \in DOMAIN records' PROVE <<t[1], t[3]>> \in DOMAIN claims'
        OBVIOUS
      <3>1. PICK c \in DOMAIN claims : t = Scope(claims[c]) /\ <<t[1], t[3]>> = c
        BY <1>3, <2>1
      <3>2. c # k
        BY <1>1, <1>3, <3>1
      <3> QED BY <1>3, <3>1, <3>2
    <2>3. \A c \in DOMAIN claims' : Scope(claims[c]) \in DOMAIN records'
                /\ <<Scope(claims[c])[1], Scope(claims[c])[3]>> = c
      BY <1>3, <1>4 DEF Inv, ClaimInv, Scope
    <2> QED BY <2>2, <2>3
  <1> QED BY <1>5, <1>6 DEF Inv, TypeOK, Expire, ReplayMeansTheSame, RetryIsRecognised

(* An answer without an effect. *)
LEMMA AnswerOnlyStep ==
    ASSUME Inv, NEW r \in Requests,
           BadKey(r) \/ Invalid(r) \/ Mismatch(r) \/ Replay(r) \/ Refuse(r)
    PROVE  Inv'
  <1>1. UNCHANGED <<item, records, claims>>
    BY DEF BadKey, Invalid, Mismatch, Replay, Refuse
  <1>2. ReplayMeansTheSame' /\ RetryIsRecognised' /\ sent' \in 0 .. MaxSent
    <2>1. CASE BadKey(r)
      BY <2>1, AnswerStep DEF BadKey
    <2>2. CASE Invalid(r)
      BY <2>2, AnswerStep DEF Invalid
    <2>3. CASE Mismatch(r)
      BY <2>3, AnswerStep DEF Mismatch
    <2>4. CASE Replay(r)
      BY <2>4, AnswerStep DEF Replay
    <2>5. CASE Refuse(r)
      BY <2>5, AnswerStep DEF Refuse
    <2> QED BY <2>1, <2>2, <2>3, <2>4, <2>5
  <1> QED BY <1>1, <1>2 DEF Inv, TypeOK, ClaimInv

(* A table without records satisfies the invariant. *)
LEMMA Initial == Init => Inv
  <1> SUFFICES ASSUME Init PROVE Inv
    OBVIOUS
  <1>1. DOMAIN records = {} /\ DOMAIN claims = {}
    BY DEF Init
  <1>2. ItemOK(item)
    BY PriceAssumption, ContractAssumption DEF Init, ItemOK
  <1> QED BY <1>1, <1>2, ContractAssumption
          DEF Init, Inv, TypeOK, ItemOK, ClaimInv, ReplayMeansTheSame, RetryIsRecognised

(* Every request, and every expiry, keeps it. *)
LEMMA Step == Inv /\ [Next]_vars => Inv'
  <1> SUFFICES ASSUME Inv, [Next]_vars PROVE Inv'
    OBVIOUS
  <1>1. CASE UNCHANGED vars
    BY <1>1 DEF vars, Inv, TypeOK, ClaimInv, ReplayMeansTheSame, RetryIsRecognised
  <1>2. CASE Next
    BY <1>2, AnswerOnlyStep, ExecuteStep, ExpireStep DEF Next
  <1> QED BY <1>1, <1>2

(* Every reachable state of the contract satisfies the invariant. *)
THEOREM Invariance == Spec => []Inv
  BY Initial, Step, PTL DEF Spec

(* An Idempotency-Key stands for one request (fingerprint and scope of     *)
(* idempotency_model.py 98-193, over the validated bodies of item_model.py *)
(* and price_model.py): a stored result is never returned to a request that *)
(* asks for another operation, item, column or exact value.                *)
THEOREM KeysIdentify == Spec => []KeyIdentifiesRequest
  <1>1. Inv => KeyIdentifiesRequest
    BY DEF Inv, KeyIdentifiesRequest
  <1> QED BY <1>1, Invariance, PTL

(* While its record lives, a retry that writes the same fields with equal  *)
(* values is replayed, however its numbers are spelled, whatever unknown   *)
(* fields it adds and by whichever path of the route it comes: neither     *)
(* normalisation nor encoding tells two spellings of a number apart.       *)
THEOREM RetriesAreRecognised == Spec => []RetryIsRecognised
  <1>1. Inv => RetryIsRecognised
    BY DEF Inv
  <1> QED BY <1>1, Invariance, PTL

-----------------------------------------------------------------------------
(* The effect. *)

(* A field that was given is stored at exactly the value written. *)
LEMMA GivenIsStored ==
    ASSUME NEW r \in Requests, Valid(r), NEW f \in Given(r) \cap Editable, NEW i,
           i[f] = Parsed(r, f)
    PROVE  Stored(f, i) = Asks(r, f) /\ Asks(r, f) # <<"keep">>
  <1>1. ValidField(f, r.body[f]) /\ Asks(r, f) = Value(f, r.body[f])
    BY DEF Valid, Asks
  <1>2. CASE f = "price"
    <2>1. i.price = Cents(r.body[f])
      BY <1>2 DEF Parsed
    <2>2. Value(f, r.body[f]) = <<"number", Milli(r.body[f])>>
      BY <1>2, ExactNumbers DEF Value
    <2>3. Milli(r.body[f]) = 10 * Cents(r.body[f])
      BY <1>2, ExactNumbers
    <2> QED BY <1>1, <1>2, <2>1, <2>2, <2>3 DEF Stored
  <1>3. CASE f \in {"name", "description"}
    <2>1. i[f] = r.body[f]
      BY <1>3 DEF Parsed
    <2> QED BY <1>1, <1>3, <2>1 DEF Value, Stored
  <1> QED BY <1>2, <1>3 DEF Editable

(* Every column is as the request asks, and the version moved by one. *)
LEMMA ResultAsAsked ==
    ASSUME NEW r \in Requests, Valid(r), Accepts(r), OneRow(r), r.operation # "delete"
    PROVE  AsAsked(r, Result(r), item)
  <1>1. r.operation \in {"create", "replace", "update"}
    BY RequestsAssumption
  <1>2. \A f \in Editable :
           Result(r)[f] = IF f \in Written(r) THEN Parsed(r, f) ELSE item[f]
    <2>1. CASE r.operation = "create"
      BY <2>1 DEF Result, WithVersion, Editable, Written
    <2>2. CASE r.operation \in {"replace", "update"}
      <3>1. Result(r) = WithVersion(Columns(r, item), item.version + 1)
        BY <2>2 DEF Result
      <3> QED BY <3>1 DEF WithVersion, Columns, Editable
    <2> QED BY <1>1, <2>1, <2>2
  <1>3. ASSUME NEW f \in Editable
        PROVE  IF Asks(r, f) = <<"keep">> THEN Result(r)[f] = item[f]
               ELSE Stored(f, Result(r)) = Asks(r, f)
    <2>1. CASE f \in Given(r)
      <3>1. f \in Written(r)
        BY <2>1 DEF Written
      <3>2. Result(r)[f] = Parsed(r, f)
        BY <1>2, <3>1
      <3> QED BY <2>1, <3>2, GivenIsStored
    <2>2. CASE f \notin Given(r) /\ r.operation = "update"
      <3>1. Asks(r, f) = <<"keep">> /\ f \notin Written(r)
        BY <2>2 DEF Asks, Written
      <3> QED BY <1>2, <3>1
    <2>3. CASE f \notin Given(r) /\ r.operation # "update"
      <3>1. Asks(r, f) = <<"null">> /\ f \in Written(r) /\ Parsed(r, f) = Null
        BY <2>3 DEF Asks, Written, Parsed
      <3>2. f = "description"
        BY <1>1, <2>3 DEF Valid, Required, Editable
      <3>3. Stored(f, Result(r)) = <<"null">>
        BY <1>2, <3>1, <3>2 DEF Stored
      <3> QED BY <3>1, <3>3
    <2> QED BY <2>1, <2>2, <2>3
  <1>4. item # None => Result(r).version = item.version + 1
    BY <1>1 DEF OneRow, Result, WithVersion
  <1> QED BY <1>3, <1>4 DEF AsAsked

(* create, replace and update of the item service leave every column at    *)
(* exactly the value written, nulled or kept as the request asks, and move *)
(* the version by one: validation rounds no price and model_to drops no    *)
(* null and writes no omitted field of an update.                          *)
THEOREM EffectsAreExact == Spec => EffectIsAsWritten
  <1>1. ASSUME [Next]_vars, sent' # sent, answer'.kind = "done",
               answer'.request.operation # "delete"
        PROVE  AsAsked(answer'.request, item', item)
    <2>1. PICK r \in Requests : \/ BadKey(r) \/ Invalid(r) \/ Mismatch(r)
                                \/ Replay(r) \/ Refuse(r) \/ Execute(r)
      BY <1>1 DEF Next, vars, Expire
    <2>2. Execute(r)
      BY <1>1, <2>1 DEF BadKey, Invalid, Mismatch, Replay, Refuse, Answer
    <2>3. answer'.request = r /\ item' = Result(r)
      BY <2>2 DEF Execute, Answer
    <2> QED BY <1>1, <2>2, <2>3, ResultAsAsked DEF Execute
  <1>2. [Next]_vars =>
          [sent' # sent /\ answer'.kind = "done" /\ answer'.request.operation # "delete" =>
             AsAsked(answer'.request, item', item)]_vars
    BY <1>1
  <1> QED BY <1>2, PTL DEF Spec, EffectIsAsWritten

-----------------------------------------------------------------------------
(* The cleanup service: its inductive invariant. *)

\* Whoever clears _pending has seen that sweep end, so what runs is pending.
RunningIsPending == \A s \in Running : s = pending

\* Sweeps are accepted only between start() and stop().
AcceptsWhileUp == accepting => service = "up"

\* A late batch is the one that was in flight at quiesce(): once it is
\* counted no batch is in flight.
LateBatchIsLast ==
    /\ accepting => late = 0
    /\ late \in {0, 1}
    /\ late = 1 => \A s \in Sweeps : sweep[s] # "batch"

CleanupInv ==
    /\ CleanupTypeOK /\ RunningIsPending /\ AcceptsWhileUp
    /\ NoSweepOutlivesService /\ LateBatchIsLast

-----------------------------------------------------------------------------
(* A service that was never started satisfies the invariant. *)
LEMMA CleanupInitial == CleanupInit => CleanupInv
  <1> SUFFICES ASSUME CleanupInit PROVE CleanupInv
    OBVIOUS
  <1>1. CleanupTypeOK
    <2>1. caller \in [Callers -> {"off", "idle", "joined", "ended"}]
      BY DEF CleanupInit
    <2>2. joined \in [Callers -> Sweeps \cup {NoSweep}]
      BY DEF CleanupInit
    <2>3. sweep \in [Sweeps -> {"unused", "loop", "batch", "done", "failed"}]
      BY DEF CleanupInit
    <2>4. 0 \in 0 .. MaxBatches /\ 0 \in 0 .. MaxRows /\ 0 \in 0 .. MaxStarts
      BY CleanupAssumption
    <2>5. batches \in [Sweeps -> 0 .. MaxBatches]
      BY <2>4 DEF CleanupInit
    <2> QED BY <2>1, <2>2, <2>3, <2>4, <2>5 DEF CleanupInit, CleanupTypeOK
  <1>2. Running = {}
    BY DEF CleanupInit, Running
  <1>3. AcceptsWhileUp /\ LateBatchIsLast
    BY DEF CleanupInit, AcceptsWhileUp, LateBatchIsLast
  <1> QED BY <1>1, <1>2, <1>3 DEF CleanupInv, RunningIsPending, NoSweepOutlivesService

(* The service's own steps and the surroundings leave the sweeps alone. *)
LEMMA ServiceStep ==
    ASSUME CleanupInv,
           \/ Start \/ Quiesce \/ Stop \/ TimerAwaited \/ SweepAwaited
           \/ TimerStops \/ RecordExpires \/ OtherReplica
    PROVE  CleanupInv'
  <1> USE CleanupAssumption DEF CleanupInv, Running
  <1>1. CASE Start
    BY <1>1 DEF Start, CleanupTypeOK, RunningIsPending, AcceptsWhileUp,
                NoSweepOutlivesService, LateBatchIsLast
  <1>2. CASE Quiesce
    BY <1>2 DEF Quiesce, CleanupTypeOK, RunningIsPending, AcceptsWhileUp,
                NoSweepOutlivesService, LateBatchIsLast
  <1>3. CASE Stop
    BY <1>3 DEF Stop, StopAccepts, CleanupTypeOK, RunningIsPending, AcceptsWhileUp,
                NoSweepOutlivesService, LateBatchIsLast
  <1>4. CASE TimerAwaited
    BY <1>4 DEF TimerAwaited, CleanupTypeOK, RunningIsPending, AcceptsWhileUp,
                NoSweepOutlivesService, LateBatchIsLast
  <1>5. CASE SweepAwaited
    BY <1>5 DEF SweepAwaited, CleanupTypeOK, RunningIsPending, AcceptsWhileUp,
                NoSweepOutlivesService, LateBatchIsLast
  <1>6. CASE TimerStops
    BY <1>6 DEF TimerStops, CleanupTypeOK, RunningIsPending, AcceptsWhileUp,
                NoSweepOutlivesService, LateBatchIsLast
  <1>7. CASE RecordExpires \/ OtherReplica
    BY <1>7 DEF RecordExpires, OtherReplica, CleanupTypeOK, RunningIsPending, AcceptsWhileUp,
                NoSweepOutlivesService, LateBatchIsLast
  <1> QED BY <1>1, <1>2, <1>3, <1>4, <1>5, <1>6, <1>7

(* A caller joins, creates or leaves the pending sweep. *)
LEMMA CallerStep ==
    ASSUME CleanupInv, NEW c \in Callers, Call(c) \/ Return(c)
    PROVE  CleanupInv'
  <1> USE CleanupAssumption DEF CleanupInv, Running
  <1>1. CASE Join(c)
    BY <1>1 DEF Join, CleanupTypeOK, RunningIsPending, AcceptsWhileUp,
                NoSweepOutlivesService, LateBatchIsLast
  <1>2. CASE \E s \in Sweeps : Create(c, s)
    <2>1. PICK s \in Sweeps : Create(c, s)
      BY <1>2
    <2>2. CleanupTypeOK'
      BY <2>1 DEF Create, CleanupTypeOK
    <2>3. RunningIsPending' /\ AcceptsWhileUp' /\ NoSweepOutlivesService'
      BY <2>1 DEF Create, CleanupTypeOK, RunningIsPending, AcceptsWhileUp,
                  NoSweepOutlivesService
    <2>4. LateBatchIsLast'
      BY <2>1 DEF Create, CleanupTypeOK, LateBatchIsLast
    <2> QED BY <2>2, <2>3, <2>4
  <1>3. CASE Return(c)
    BY <1>3 DEF Return, ClearPending, AfterSweep, CleanupTypeOK, RunningIsPending,
                AcceptsWhileUp, NoSweepOutlivesService, LateBatchIsLast
  <1> QED BY <1>1, <1>2, <1>3 DEF Call

(* The sweep itself. *)
LEMMA SweepTaskStep ==
    ASSUME CleanupInv, NEW s \in Sweeps, SweepStep(s)
    PROVE  CleanupInv'
  <1> USE CleanupAssumption DEF CleanupInv, Running
  <1>1. CASE NextBatch(s)
    <2>1. CleanupTypeOK'
      BY <1>1 DEF NextBatch, MoreBatches, CleanupTypeOK
    <2>2. RunningIsPending' /\ AcceptsWhileUp' /\ NoSweepOutlivesService'
      BY <1>1 DEF NextBatch, CleanupTypeOK, RunningIsPending, AcceptsWhileUp,
                  NoSweepOutlivesService
    <2>3. LateBatchIsLast'
      BY <1>1 DEF NextBatch, MoreBatches, CleanupTypeOK, LateBatchIsLast
    <2> QED BY <2>1, <2>2, <2>3
  <1>2. CASE Purge(s)
    <2>1. CleanupTypeOK'
      BY <1>2 DEF Purge, CleanupTypeOK
    <2>2. RunningIsPending' /\ AcceptsWhileUp' /\ NoSweepOutlivesService'
      BY <1>2 DEF Purge, CleanupTypeOK, RunningIsPending, AcceptsWhileUp,
                  NoSweepOutlivesService
    <2>3. \A t \in Sweeps : sweep'[t] # "batch"
      BY <1>2 DEF Purge, CleanupTypeOK, RunningIsPending
    <2>4. LateBatchIsLast'
      BY <1>2, <2>3 DEF Purge, LateBatchIsLast
    <2> QED BY <2>1, <2>2, <2>4
  <1>3. CASE PurgeFails(s)
    BY <1>3 DEF PurgeFails, CleanupTypeOK, RunningIsPending, AcceptsWhileUp,
                NoSweepOutlivesService, LateBatchIsLast
  <1>4. CASE Collect(s)
    BY <1>4 DEF Collect, CleanupTypeOK, RunningIsPending, AcceptsWhileUp,
                NoSweepOutlivesService, LateBatchIsLast
  <1> QED BY <1>1, <1>2, <1>3, <1>4 DEF SweepStep

(* Every step of the service, its callers and its sweeps keeps it. *)
LEMMA CleanupStep == CleanupInv /\ [CleanupNext]_cleanupVars => CleanupInv'
  <1> SUFFICES ASSUME CleanupInv, [CleanupNext]_cleanupVars PROVE CleanupInv'
    OBVIOUS
  <1>1. CASE UNCHANGED cleanupVars
    BY <1>1 DEF cleanupVars, CleanupInv, CleanupTypeOK, RunningIsPending, AcceptsWhileUp,
                NoSweepOutlivesService, LateBatchIsLast, Running
  <1>2. CASE CleanupNext
    BY <1>2, ServiceStep, CallerStep, SweepTaskStep DEF CleanupNext
  <1> QED BY <1>1, <1>2

(* The invariant holds of every behaviour. *)
THEOREM CleanupInvariance == CleanupSpec => []CleanupInv
  BY CleanupInitial, CleanupStep, PTL DEF CleanupSpec

-----------------------------------------------------------------------------
(* What runs is pending, so at most one sweep runs. *)
LEMMA OneSweepAtATime == CleanupInv => AtMostOneSweep
  <1> SUFFICES ASSUME CleanupInv PROVE Cardinality(Running) <= 1
    BY DEF AtMostOneSweep
  <1>1. Running \subseteq {pending}
    BY DEF CleanupInv, RunningIsPending
  <1>2. IsFiniteSet({pending}) /\ Cardinality({pending}) = 1
    BY FS_Singleton
  <1>3. Cardinality(Running) <= Cardinality({pending})
    BY <1>1, <1>2, FS_Subset
  <1> QED BY <1>2, <1>3

(* The shutdown contract of IdempotencyCleanupService (quiesce and stop    *)
(* 30-42, sweep 57-70, _sweep 72-92): one sweep at a time, at most one     *)
(* batch after quiesce() and no sweep after stop(), whoever began it.      *)
THEOREM StopLeavesNothing == CleanupSpec => []StopIsClean
  <1>1. CleanupInv => StopIsClean
    BY OneSweepAtATime DEF CleanupInv, StopIsClean, LateBatchIsLast, AtMostOneLateBatch
  <1> QED BY <1>1, CleanupInvariance, PTL

=============================================================================
