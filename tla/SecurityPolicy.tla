--------------------------- MODULE SecurityPolicy ---------------------------
(***************************************************************************)
(* scripts/security_policy.py: when a scan report is allowed by a policy   *)
(* of exceptions.  A package is a normalised name with its version; a      *)
(* report is a set of results, one per target, each with the packages of   *)
(* the target and the vulnerabilities found in it.  An image is named by   *)
(* its ID; "none" is no image (a scan of the declared requirements).       *)
(* Parsing is one flag: the report is well formed or not.                  *)
(***************************************************************************)
EXTENDS Integers, Sequences, FiniteSets, SequencesExt

CONSTANTS Horizon    \* days an exception may lie ahead

Severities == {"UNKNOWN", "LOW", "MEDIUM", "HIGH", "CRITICAL"}

\* exceptions(): every entry is exact, current and alone in its scope.  The
\* path of a package may be null.
ValidPolicy(policy, now) ==
    /\ policy.version = 1
    /\ \A i \in DOMAIN policy.entries :
        LET e == policy.entries[i]
        IN  /\ "*" \notin {e.scope[f] : f \in DOMAIN e.scope}
            /\ now < e.expires /\ e.expires <= now + Horizon
            /\ \A j \in 1 .. i - 1 : policy.entries[j].scope # e.scope

Rules(policy) == {policy.entries[i].scope : i \in DOMAIN policy.entries}

\* The scope of a finding, as an exception must name it.
Scope(f) == [id |-> f.id, package |-> f.package, path |-> f.path,
             target |-> f.target, kind |-> f.kind]

\* What evaluate() makes of a vulnerability listed in a result.
Finding(r, v) == [id |-> v.id, package |-> v.package, path |-> v.path,
                  target |-> r.target, kind |-> r.kind, severity |-> v.severity]

Findings(report) ==
    UNION {{Finding(r, v) : v \in r.vulnerabilities} : r \in report.results}

\* Variant: an exception for the vulnerability covers it wherever it is.
ExceptedByName(f, policy) == f.id \in {r.id : r \in Rules(policy)}

Excepted(f, policy) == Scope(f) \in Rules(policy)

\* Variant: the report may be another image's.
IdentifiesAny(report, image) == (report.artifact = "filesystem") = (image = "none")

\* The report is about what was asked: Metadata.ImageID is the image's.
Identifies(report, image) ==
    IF image = "none" THEN report.artifact = "filesystem"
    ELSE report.artifact = image /\ report.os = "supported"

\* The Python packages that the report covers.
Inventory(report, image) ==
    UNION {r.packages : r \in {x \in report.results :
        /\ x.class = "lang-pkgs"
        /\ x.kind = IF image = "none" THEN "pip" ELSE "python-pkg"}}

\* evaluate() raises: the policy, the report or its coverage is no basis.
Raises(report, policy, expected, image, now) ==
    \/ ~ValidPolicy(policy, now)
    \/ ~report.wellformed
    \/ ~Identifies(report, image)
    \/ \E r \in report.results : \E v \in r.vulnerabilities :
        \/ v.severity \notin Severities
        \/ v.package \notin r.packages
        \/ image = "none" /\ v.package \notin expected
    \/ ~(expected \subseteq Inventory(report, image))
    \/ image # "none" /\ \A r \in report.results : r.class = "os-pkgs" => r.packages = {}

\* Critical, in production or in an image, and without an exception.
Blocked(report, policy, production, image) ==
    {f \in Findings(report) :
        /\ f.severity = "CRITICAL"
        /\ image # "none" \/ f.package \in production
        /\ ~Excepted(f, policy)}

Evaluate(report, policy, expected, production, image, now) ==
    IF Raises(report, policy, expected, image, now) THEN "error"
    ELSE IF Blocked(report, policy, production, image) = {} THEN "allowed"
    ELSE "blocked"

=============================================================================
