------------------------- MODULE MCReleasePipeline --------------------------
(***************************************************************************)
(* Builds: two candidates, and others with two runtimes, of another        *)
(* source, with an attestation bound elsewhere, of another subject,        *)
(* doubled, missing or without the packages.  At the path may also be the  *)
(* good candidate packed again with its index inline in the catalog, or a  *)
(* copy with a layer altered or a stray member; a registry may return one  *)
(* with a layer gone.  Scans find something critical or not.               *)
(***************************************************************************)
EXTENDS ReleasePipeline

Desc(digest) == [digest |-> digest, size |-> 1, mediaType |-> "index", inline |-> Absent]
Long(digest) == [Desc(digest) EXCEPT !.size = 2]
Typed(digest) == [Desc(digest) EXCEPT !.mediaType = "manifest"]
Inline(digest) == [Desc(digest) EXCEPT !.inline = [body |-> digest, size |-> 1]]
Statement(digest, predicate) ==
    [digest |-> digest, size |-> 1, inline |-> Absent, predicate |-> predicate]

Run(digest) ==
    [digest |-> digest, size |-> 1, inline |-> Absent, platform |-> "linux/amd64",
     reference |-> Absent, attests |-> FALSE]
Attest(digest, reference) ==
    [digest |-> digest, size |-> 1, inline |-> Absent, platform |-> "unknown",
     reference |-> reference, attests |-> TRUE]

Manifest(config, layers, subject) ==
    [config |-> config, layers |-> layers, subject |-> subject]

\* The empty config is inline.
EmptyConfig == Inline("empty")

Indexes ==
    [good     |-> <<Run("rt"), Attest("sb", Absent), Attest("pr", "rt")>>,
     rebuilt  |-> <<Attest("pr", "rt"), Attest("sb", "rt"), Run("rt")>>,
     twice    |-> <<Run("rt"), Run("rt2"), Attest("sb", Absent), Attest("pr", "rt")>>,
     foreign  |-> <<Run("rt2"), Attest("fo", "rt2")>>,
     misbound |-> <<Run("rt"), Attest("sb", "rt2"), Attest("pr", "rt")>>,
     stray    |-> <<Run("rt"), Attest("st", "rt"), Attest("pr", "rt")>>,
     doubled  |-> <<Run("rt"), Attest("sb", Absent), Attest("sb", Absent), Attest("pr", "rt")>>,
     bare     |-> <<Run("rt"), Attest("sb", Absent)>>,
     poor     |-> <<Run("rt"), Attest("po", "rt"), Attest("pr", "rt")>>]

Manifests ==
    [rt  |-> Manifest(Desc("cfg"), <<Desc("l1"), Desc("l2")>>, Absent),
     rt2 |-> Manifest(Desc("cfg2"), <<Desc("l1")>>, Absent),
     sb  |-> Manifest(EmptyConfig, <<Statement("sbom", "sbom")>>, "rt"),
     pr  |-> Manifest(EmptyConfig, <<Statement("slsa", "provenance")>>, Absent),
     st  |-> Manifest(EmptyConfig, <<Statement("sbom2", "sbom")>>, Absent),
     po  |-> Manifest(EmptyConfig, <<Statement("empty2", "sbom")>>, Absent),
     fo  |-> Manifest(EmptyConfig, <<Statement("sbom2", "sbom"), Statement("slsa2", "provenance")>>,
                      Absent)]

Leaf(predicate, subjects, packages, sources) ==
    [predicate |-> predicate, subjects |-> subjects, packages |-> packages,
     sources |-> sources]

Leaves ==
    [cfg    |-> [source |-> "commit"], cfg2 |-> [source |-> "other"],
     l1     |-> [source |-> Absent], l2 |-> [source |-> Absent],
     empty  |-> [source |-> Absent],
     sbom   |-> Leaf("sbom", {"rt"}, {"api"}, {}),
     empty2 |-> Leaf("sbom", {}, {}, {}),
     sbom2  |-> Leaf("sbom", {"rt2"}, {"api"}, {}),
     slsa   |-> Leaf("provenance", {"rt"}, {}, {"commit"}),
     slsa2  |-> Leaf("provenance", {"rt2"}, {}, {"commit"})]

MCDoc ==
    [d \in DOMAIN Indexes \cup DOMAIN Manifests \cup DOMAIN Leaves |->
        IF d \in DOMAIN Indexes THEN [manifests |-> Indexes[d]]
        ELSE IF d \in DOMAIN Manifests THEN Manifests[d] ELSE Leaves[d]]

Blobs == [d \in DOMAIN MCDoc \ {"empty"} |-> [body |-> d, size |-> 1]]
Archive(roots, stored, clean) == [roots |-> roots, stored |-> stored, clean |-> clean]

MCBuilds == DOMAIN Indexes

MCContent ==
    [a \in MCBuilds \cup {"repacked", "altered", "unsafe"} |->
        CASE a \in MCBuilds -> Archive(<<Desc(a)>>, Blobs, TRUE)
          [] a = "repacked" -> Archive(<<Inline("good")>>,
                                       [d \in DOMAIN Blobs \ {"good"} |-> Blobs[d]], TRUE)
          [] a = "altered"  -> Archive(<<Desc("good")>>, [Blobs EXCEPT !["l2"].body = "x"], TRUE)
          [] OTHER          -> Archive(<<Desc("good")>>, Blobs, FALSE)]

\* A registry may list other indexes first, and give less than it was given
\* or something else.
MCReturned ==
    [d \in MCBuilds |->
        [l \in {"whole", "torn", "clash", "retyped", "other"} |->
            CASE l = "whole" -> Archive(<<Desc("bare"), Desc(d)>>, Blobs, TRUE)
              [] l = "torn"  -> Archive(<<Desc("bare"), Desc(d)>>,
                                        [b \in DOMAIN Blobs \ {"l1"} |-> Blobs[b]], TRUE)
              [] l = "clash" -> Archive(<<Desc(d), Long(d)>>, Blobs, TRUE)
              [] l = "retyped" -> Archive(<<Typed(d), Desc(d)>>, Blobs, TRUE)
              [] OTHER       -> Archive(<<Desc(IF d = "good" THEN "rebuilt" ELSE "good")>>,
                                        [b \in DOMAIN Blobs \ {d} |-> Blobs[b]], TRUE)]]

\* Findings of an operating-system package, and of a Python package.
Critical == [id |-> "v1", package |-> "libc", path |-> Absent, severity |-> "CRITICAL"]
Medium == [id |-> "v2", package |-> "api", path |-> "/app", severity |-> "MEDIUM"]

Layer(class, kind, packages, found) ==
    [target |-> kind, class |-> class, kind |-> kind, packages |-> packages,
     vulnerabilities |-> found]
System(found) == Layer("os-pkgs", "debian", {"libc"}, found)
R(digest, found) ==
    [wellformed |-> TRUE, artifact |-> ImageId(digest), os |-> "supported",
     results |-> {System(found), Layer("lang-pkgs", "python-pkg", {"api"}, {Medium})}]
MCReports ==
    [d \in MCBuilds |-> IF d = "good" THEN {R(d, {}), R(d, {Critical})} ELSE {R(d, {})}]

\* The exception for what is found, and one for the same elsewhere.
Excused == Scope(Finding(System({}), Critical))
Elsewhere == [Excused EXCEPT !.target = "base"]
MCPolicies == {[version |-> 1, entries |-> es] :
    es \in {<<[scope |-> Excused, expires |-> 1]>>, <<[scope |-> Elsewhere, expires |-> 2]>>}}

\* Everything green; a job skipped; one missing, and another in its place.
Green == [j \in Jobs |-> "success"]
MCOutcomes ==
    {Green, [Green EXCEPT !["mysql"] = "skipped"],
     [j \in {"static", "other"} |-> "success"]}
=============================================================================
