--------------------------- MODULE InputContract ---------------------------
(***************************************************************************)
(* What a client wrote, what the item service does about it, and which     *)
(* later request counts as a retry of it.  The request models validate and *)
(* normalise a body; its fingerprint, with the scope of its key, decides   *)
(* between executing, replaying and refusing; model_to decides which       *)
(* columns are written.                                                    *)
(*                                                                         *)
(* Requests are handled one at a time here: MutationRoute has the locks,   *)
(* the transactions and the crashes.                                       *)
(***************************************************************************)
EXTENDS Price, FiniteSets

CONSTANTS
    None, Null,   \* nothing there; JSON's null
    Requests,     \* what clients may send
    Names,        \* names and descriptions of allowed length
    MaxVersion,   \* MAX_VERSION
    MaxSent       \* bound: requests

ASSUME ContractAssumption == MaxVersion \in Nat \ {0} /\ MaxSent \in Nat

\* null is neither a text nor a number, and a written number has its digits
\* and at most three decimals.
ASSUME RequestsAssumption ==
    /\ Null \notin Names \cup Int /\ None \notin Requests
    /\ \A r \in Requests :
          /\ r.operation \in {"create", "replace", "update", "delete"}
          /\ \A f \in DOMAIN r.body \cap {"price", "expected_version"} :
                r.body[f] # Null /\ r.body[f].kind \in {"string", "number"}
                    => r.body[f].digits \in Nat /\ r.body[f].exponent + 3 \in Nat

VARIABLES
    item,      \* the one item of the table, or None
    records,   \* scope -> fingerprint of the live record; a partial function
    claims,    \* <<operation, key>> -> the request that was executed under it
    answer,    \* the last answer: its request, its kind, the claim it met
    sent

vars == <<item, records, claims, answer, sent>>

Id == "item"
Editable == {"name", "price", "description"}

\* The fields of ItemBase, ReplaceItemRequest, UpdateItemRequest, VersionInput.
Fields(operation) ==
    CASE operation = "create" -> Editable
      [] operation = "delete" -> {"expected_version"}
      [] OTHER                -> Editable \cup {"expected_version"}

Required(operation) ==
    CASE operation = "create"  -> {"name", "price"}
      [] operation = "replace" -> {"name", "price", "expected_version"}
      [] OTHER                 -> {"expected_version"}

Init ==
    /\ item \in {None} \cup [name : Names, price : {MaxCents}, description : Names,
                             version : {1}]
    /\ records = <<>> /\ claims = <<>>
    /\ answer = None /\ sent = 0

-----------------------------------------------------------------------------
(* Validation.                                                             *)

\* Variant: 1.0 is not the integer 1.
WholeNumberOnly(w) == w.kind = "number" /\ w.exponent = 0

\* normalize_revision_number: a float that is an integer is that integer.
WholeNumber(w) == w.kind = "number" /\ Milli(w) % 1000 = 0

ValidVersion(w) ==
    w # Null /\ WholeNumber(w) /\ Milli(w) \div 1000 \in 1 .. MaxVersion

ValidField(field, w) ==
    CASE field = "name"             -> w \in Names
      [] field = "description"      -> w \in Names \cup {Null}
      [] field = "price"            -> w # Null /\ ValidPrice(w)
      [] field = "expected_version" -> ValidVersion(w)

\* model_fields_set: a field that the model does not have is ignored.
Given(r) == DOMAIN r.body \cap Fields(r.operation)

Valid(r) ==
    /\ Required(r.operation) \subseteq Given(r)
    /\ \A f \in Given(r) : ValidField(f, r.body[f])
    /\ r.operation = "update" => Given(r) \cap Editable # {}

\* The validated value of a field; an omitted one has its default, null.
Parsed(r, f) ==
    IF f \notin Given(r) THEN Null
    ELSE CASE f = "price"            -> Cents(r.body[f])
           [] f = "expected_version" -> Milli(r.body[f]) \div 1000
           [] OTHER                  -> r.body[f]

-----------------------------------------------------------------------------
(* Fingerprint and scope.                                                  *)

\* Variant: null counts as omitted.
NormalizedNotNull(r) == {f \in Fields(r.operation) : Parsed(r, f) # Null}

\* Variant: the version is no part of what was asked.
NormalizedEditable(r) == Given(r) \cap Editable

\* normalized: the fields that enter the fingerprint.
Normalized(r) == {f \in Fields(r.operation) : f \in Given(r) \/ Parsed(r, f) # Null}

EncodedField(r, f) ==
    IF Parsed(r, f) = Null THEN Null
    ELSE CASE f = "price"            -> Encode(Parsed(r, f), -2)
           [] f = "expected_version" -> Encode(Parsed(r, f), 0)
           [] OTHER                  -> Parsed(r, f)

Fingerprint(r) ==
    [params |-> r.id, body |-> [f \in Normalized(r) |-> EncodedField(r, f)]]

\* Variant: the template as it was matched, with its final slash.
TemplateMatched(r) == <<r.operation, r.alias>>

\* resolve_route: both paths of a route have one template.
Template(r) == <<r.operation, FALSE>>

Scope(r) == <<r.operation, Template(r), r.key>>

-----------------------------------------------------------------------------
(* Execution.                                                              *)

\* Variant: replace leaves an omitted field as it is.
WrittenUnset(r) == Given(r) \cap Editable

\* The columns that model_to hands to the repository: update dumps what was
\* set, replace and create all there is.
Written(r) == IF r.operation = "update" THEN Given(r) \cap Editable ELSE Editable

Columns(r, old) ==
    [f \in Editable |-> IF f \in Written(r) THEN Parsed(r, f) ELSE old[f]]

WithVersion(columns, v) ==
    [name |-> columns.name, price |-> columns.price,
     description |-> columns.description, version |-> v]

\* _mutation_item finds the version; update has room for one more.  Nothing
\* refuses a create; OneRow bounds the table.
Accepts(r) ==
    r.operation # "create" =>
        /\ item # None /\ r.id = Id
        /\ item.version = Parsed(r, "expected_version")
        /\ r.operation # "delete" => item.version < MaxVersion

OneRow(r) == r.operation = "create" => item = None

Result(r) ==
    CASE r.operation = "delete" -> None
      [] r.operation = "create" -> WithVersion([f \in Editable |-> Parsed(r, f)], 1)
      [] OTHER                  -> WithVersion(Columns(r, item), item.version + 1)

Claim(r) ==
    IF <<r.operation, r.key>> \in DOMAIN claims THEN claims[<<r.operation, r.key>>]
    ELSE None

Answer(r, kind) ==
    /\ sent < MaxSent /\ sent' = sent + 1
    /\ answer' = [request |-> r, kind |-> kind, against |-> Claim(r)]

\* A key that is repeated or malformed is refused before anything else.
BadKey(r) ==
    /\ r.key = "malformed"
    /\ Answer(r, "bad_key")
    /\ UNCHANGED <<item, records, claims>>

\* FastAPI validates before the route claims the key.
Invalid(r) ==
    /\ r.key # "malformed" /\ ~Valid(r)
    /\ Answer(r, "invalid")
    /\ UNCHANGED <<item, records, claims>>

Live(r) == r.key # None /\ Scope(r) \in DOMAIN records

Mismatch(r) ==
    /\ r.key # "malformed" /\ Valid(r)
    /\ Live(r) /\ records[Scope(r)] # Fingerprint(r)
    /\ Answer(r, "mismatch")
    /\ UNCHANGED <<item, records, claims>>

Replay(r) ==
    /\ r.key # "malformed" /\ Valid(r)
    /\ Live(r) /\ records[Scope(r)] = Fingerprint(r)
    /\ Answer(r, "replay")
    /\ UNCHANGED <<item, records, claims>>

\* 404, or 409 for the version: rolled back with the claim.
Refuse(r) ==
    /\ r.key # "malformed" /\ Valid(r) /\ ~Live(r) /\ ~Accepts(r)
    /\ Answer(r, "refused")
    /\ UNCHANGED <<item, records, claims>>

Execute(r) ==
    /\ r.key # "malformed" /\ Valid(r) /\ ~Live(r) /\ Accepts(r) /\ OneRow(r)
    /\ Answer(r, "done")
    /\ item' = Result(r)
    /\ records' = IF r.key = None THEN records
                  ELSE [s \in DOMAIN records \cup {Scope(r)} |->
                          IF s = Scope(r) THEN Fingerprint(r) ELSE records[s]]
    /\ claims' = IF r.key = None THEN claims
                 ELSE [c \in DOMAIN claims \cup {<<r.operation, r.key>>} |->
                         IF c = <<r.operation, r.key>> THEN r ELSE claims[c]]

\* The retention of a record ends.
Expire(s) ==
    /\ records' = [t \in DOMAIN records \ {s} |-> records[t]]
    /\ claims' = [c \in {c \in DOMAIN claims : c # <<s[1], s[3]>>} |-> claims[c]]
    /\ UNCHANGED <<item, answer, sent>>

Next ==
    \/ \E r \in Requests :
          BadKey(r) \/ Invalid(r) \/ Mismatch(r) \/ Replay(r) \/ Refuse(r) \/ Execute(r)
    \/ \E s \in DOMAIN records : Expire(s)

Spec == Init /\ [][Next]_vars

-----------------------------------------------------------------------------
(* Properties.  What a request means is read off what was written, without *)
(* validation, rounding, normalisation or encoding.                        *)

Value(f, w) ==
    IF w = Null THEN <<"null">>
    ELSE IF f \in {"name", "description"} THEN <<"text", w>>
    ELSE IF w.kind \in {"string", "number"} THEN <<"number", Milli(w)>>
    ELSE <<"other", w.kind>>

\* Wrote(r): the recognised fields of the body with their exact values.
Wrote(r) == [f \in Given(r) |-> Value(f, r.body[f])]

\* What the request asks of a column: its value, or to keep it.
Asks(r, f) ==
    IF f \in Given(r) THEN Value(f, r.body[f])
    ELSE IF r.operation = "update" THEN <<"keep">> ELSE <<"null">>

\* The numbers are written in a form that the contract reads at all.
Readable(r) ==
    /\ "price" \in Given(r) => WellFormed(r.body["price"])
    /\ "expected_version" \in Given(r) => r.body["expected_version"].kind = "number"

TypeOK ==
    /\ item = None \/ (/\ item.name \in Names /\ item.price \in 1 .. MaxCents
                       /\ item.description \in Names \cup {Null}
                       /\ item.version \in 1 .. MaxVersion)
    /\ sent \in 0 .. MaxSent
    /\ {<<s[1], s[3]>> : s \in DOMAIN records} = DOMAIN claims

\* A replay answers only a request that asks for exactly what was done under
\* the key: the same operation on the same item, the same columns to the same
\* exact values, the same columns kept, from the same version
\* (idempotency_model.py 98-193).
ReplayMeansTheSame ==
    answer # None /\ answer.kind = "replay" =>
        LET r == answer.request
            c == answer.against
        IN  /\ c # None /\ r.operation = c.operation /\ r.id = c.id
            /\ \A f \in Editable \cup {"expected_version"} : Asks(r, f) = Asks(c, f)

\* A key stands for one request: its records and claims agree, and it never
\* answers a request that means something else.
KeyIdentifiesRequest == TypeOK /\ ReplayMeansTheSame

\* A retry that writes the same fields with equal values is recognised while
\* the record lives, however it spells its numbers, whatever unknown fields it
\* adds and whichever of the route's two paths it takes: it is neither
\* executed again nor refused.
RetryIsRecognised ==
    answer # None /\ answer.against # None =>
        LET r == answer.request
            c == answer.against
        IN  r.id = c.id /\ Wrote(r) = Wrote(c) /\ Readable(r) =>
                answer.kind = "replay"

\* A column of the item i, as a request would have written it.
Stored(f, i) ==
    IF f = "price" THEN <<"number", 10 * i.price>>
    ELSE IF i[f] = Null THEN <<"null">> ELSE <<"text", i[f]>>

\* Every column of i is as r asks, given the item that was there before.
AsAsked(r, i, old) ==
    /\ \A f \in Editable :
          IF Asks(r, f) = <<"keep">> THEN i[f] = old[f] ELSE Stored(f, i) = Asks(r, f)
    /\ old # None => i.version = old.version + 1

\* An executed request leaves every column it writes at exactly the value
\* written, to the last decimal, nulls what replace leaves out, keeps what
\* update leaves out, and moves the version by one.
EffectIsAsWritten ==
    [][sent' # sent /\ answer'.kind = "done" /\ answer'.request.operation # "delete" =>
         AsAsked(answer'.request, item', item)]_vars

=============================================================================
