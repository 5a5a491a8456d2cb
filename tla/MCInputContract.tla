-------------------------- MODULE MCInputContract --------------------------
(***************************************************************************)
(* Requests that agree and differ in every way the contract distinguishes: *)
(* spelling of numbers, null against omission, unknown fields, the alias   *)
(* path, another item, boundary and over-precise prices.                   *)
(***************************************************************************)
EXTENDS InputContract

CONSTANTS x, y, Empty

\* 1 in three spellings, 10 in two, half a cent, the bounds and beyond them.
Prices ==
    {Number("number", 1, 0), Number("number", 10, -1), Number("string", 100, -2),
     Number("number", 1, 1), Number("string", 10, 0),
     Number("number", 1005, -3), Number("string", 1000, -3),
     Number("number", 1, -2), Number("number", 5, -3), Number("number", 0, 0),
     Number("number", 1001, -2), Number("special", 0, 0)}

One == Number("number", 1, 0)
Versions ==
    {One, Number("number", 10, -1), Number("number", 2, 0), Number("number", 15, -1),
     Number("string", 1, 0), Number("number", 3, 0)}

Body(names, values) == [f \in names |-> values[f]]

All == [name : {x}, price : {One}, description : {x, Null}, expected_version : {One}]

Bodies ==
    {Body({"price", "expected_version"}, [price |-> p, expected_version |-> One]) : p \in Prices}
    \cup {Body({"price", "expected_version"}, [price |-> One, expected_version |-> v]) : v \in Versions}
    \cup UNION {{Body(names, b) : b \in All} :
            names \in {{"expected_version"}, {"name", "price", "expected_version"},
                       {"description", "expected_version"}, {"price", "description", "expected_version"},
                       {"name", "price", "description", "expected_version"}}}
    \cup {[name |-> Null, expected_version |-> One], [name |-> Empty, expected_version |-> One],
          [price |-> One, expected_version |-> One, unknown |-> x]}

Plain(operation, body) ==
    [operation |-> operation, id |-> Id, key |-> "k", alias |-> FALSE, body |-> body]

SomeRequests ==
    LET updates == {Plain("update", b) : b \in Bodies}
        full    == {b \in Bodies : {"name", "price"} \subseteq DOMAIN b}
    IN  updates
        \cup {Plain("replace", b) : b \in full} \cup {Plain("create", b) : b \in full}
        \cup {Plain("delete", [expected_version |-> v]) : v \in Versions}
        \cup {[Plain("update", [price |-> One, expected_version |-> One]) EXCEPT !.alias = TRUE],
              [Plain("update", [price |-> One, expected_version |-> One]) EXCEPT !.id = "other"],
              [Plain("update", [price |-> One, expected_version |-> One]) EXCEPT !.key = "malformed"],
              [Plain("update", [price |-> One, expected_version |-> One]) EXCEPT !.key = None]}

=============================================================================
