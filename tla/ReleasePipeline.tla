--------------------------- MODULE ReleasePipeline --------------------------
(***************************************************************************)
(* The release commands (release_source, release_candidate qualify and     *)
(* verify, release_publish registry-test and publish) over one evidence    *)
(* directory.  They run one at a time, in any order and any number of      *)
(* times; a tool may fail and a command may be killed at any step; the     *)
(* archive and the exceptions policy may be exchanged under a running      *)
(* command, CI may run again and time passes.  verify(), which most        *)
(* commands call, opens the archive twice (to inspect it and to hash it)   *)
(* and the policy twice (to hash it and to apply it), so it is three steps *)
(* between which either may be exchanged.                                  *)
(*                                                                         *)
(* An archive is a name for its bytes, Content, which the inspections of   *)
(* OciArchive read; its hash is that name.  What inspect() returns follows *)
(* from the bytes it read: a command that holds it holds their name.  Two  *)
(* archives may have the same index digest inside, and two indexes the     *)
(* same image ID.  A file of the directory is its content, or None.        *)
(***************************************************************************)
EXTENDS SecurityPolicy, OciArchive

CONSTANTS Content,    \* the bytes of each archive that may be at the path
          Builds,     \* the archives that a build may have made
          Returned,   \* by digest: the layouts a registry may hand back
          Reports,    \* scanner reports, by the digest scanned
          Policies,
          Jobs,       \* REQUIRED_JOBS
          Outcomes,   \* the results a CI run may end with, by job
          Fresh,      \* time a scan stays valid: 24 hours
          MaxTime, MaxAttempts, MaxTrouble  \* bounds: clock, CI, disturbances

Archives == DOMAIN Content
DigestOf == [a \in Archives |-> Content[a].roots[1].digest]

ASSUME ReleaseAssumption ==
    /\ Horizon \in Nat /\ Fresh \in Nat /\ MaxTime \in Nat /\ MaxAttempts \in Nat
    /\ Builds \subseteq Archives /\ MaxTrouble \in Nat
ASSUME CatalogAssumption ==
    /\ \A a \in Archives : /\ IsSequence(Content[a].roots)
                           /\ DigestOf[a] \in DOMAIN Returned \ {Absent, "none"}
                           /\ ImageId(DigestOf[a]) # "none"
    /\ \A d \in DOMAIN Returned :
          \A layout \in DOMAIN Returned[d] : IsSequence(Returned[d][layout].roots)

VARIABLES ci,        \* attempts of the CI run: results by job, or "running"
          build,     \* BUILD_DIGEST of the workflow
          archive, policy, now,
          dir,       \* the evidence directory
          tags,      \* per registry: digest of the commit's and version's tag
          at,        \* the step about to run, or "idle"
          held,      \* what the running command holds in memory
          done,      \* history: digests smoke-tested; what was rehearsed; the
                     \* layout the real registry handed back last; the last
                     \* verification before a record: bytes, policy, time
          trouble    \* how often the environment has interfered

vars == <<ci, build, archive, policy, now, dir, tags, at, held, done, trouble>>
world == <<ci, build, archive, policy, now, trouble>>

None == [none |-> TRUE]
Empty == [commit |-> "none", version |-> "none"]

\* Nothing held.  then: the step after the verification that runs; seen and
\* archive: the bytes inspected and the bytes hashed; record: what verify()
\* returned to publish().
Nothing == [then |-> "idle", registry |-> "none", seen |-> "none", archive |-> "none",
            scanned |-> 0, record |-> None]

Init ==
    /\ archive \in Builds /\ build = DigestOf[archive]
    /\ ci = <<>> /\ policy \in Policies /\ now = 0
    /\ dir = [source |-> None, smoke |-> None, report |-> None, gate |-> None,
              candidate |-> None, rehearsal |-> None, publication |-> None,
              env |-> None, failure |-> FALSE]
    /\ tags = [real |-> Empty, loopback |-> Empty]
    /\ at = "idle" /\ held = Nothing /\ trouble = 0
    /\ done = [smoked |-> {}, rehearsed |-> {}, back |-> "none", judged |-> None]

-----------------------------------------------------------------------------
(* CI and release_source.                                                  *)

\* Variant: what did not fail has succeeded.
GateAllowsSkipped(results) ==
    DOMAIN results = Jobs /\ \A j \in Jobs : results[j] # "failure"

\* Variant: a required job that is missing is not asked for.
GateAllowsMissing(results) == \A j \in DOMAIN results : results[j] = "success"

\* ci_gate: the required jobs and no others, and nothing but success.
GateAllows(results) ==
    DOMAIN results = Jobs /\ \A j \in Jobs : results[j] = "success"

CiStarts ==
    /\ Len(ci) < MaxAttempts
    /\ ci # <<>> => ci[Len(ci)].status = "completed"
    /\ ci' = Append(ci, [status |-> "running"])
    /\ UNCHANGED <<build, archive, policy, now, dir, tags, at, held, done, trouble>>

CiEnds(results) ==
    /\ ci # <<>> /\ ci[Len(ci)].status = "running"
    /\ ci' = [ci EXCEPT ![Len(ci)] =
                [status |-> "completed", results |-> results,
                 gate |-> GateAllows(results)]]
    /\ UNCHANGED <<build, archive, policy, now, dir, tags, at, held, done, trouble>>

\* validate_ci of the latest attempt.
Valid(attempt) == ci[attempt].status = "completed" /\ ci[attempt].gate

SelectSource ==
    /\ at = "idle"
    /\ ci # <<>> /\ Valid(Len(ci))
    /\ dir' = [dir EXCEPT !.source = [attempt |-> Len(ci)]]
    /\ UNCHANGED <<world, tags, at, held, done>>

\* Not green, not of main, or GitHub did not answer.
SelectFails ==
    /\ at = "idle"
    /\ dir' = [dir EXCEPT !.failure = TRUE]
    /\ UNCHANGED <<world, tags, at, held, done>>

-----------------------------------------------------------------------------
(* Ends of a command.                                                      *)

\* main()'s except clause; registry-test removes its registry first.
Fail ==
    /\ at' = "idle" /\ held' = Nothing
    /\ dir' = [dir EXCEPT !.failure = TRUE]
    /\ tags' = [tags EXCEPT !.loopback = Empty]

\* A tool exits with an error or does not exit in time.
ToolFails ==
    /\ at \in {"load", "test", "scan", "boot", "start", "import", "check", "copy", "recheck",
               "return", "env", "output", "remove"}
    /\ Fail
    /\ UNCHANGED <<world, done>>

\* Killed: no failure.json is written.
Killed ==
    /\ at # "idle" /\ trouble < MaxTrouble
    /\ at' = "idle" /\ held' = Nothing /\ trouble' = trouble + 1
    /\ UNCHANGED <<ci, build, archive, policy, now, dir, tags, done>>

Goto(step) == at' = step

-----------------------------------------------------------------------------
(* release_candidate.                                                      *)

\* evaluate() of the report for the image that was inspected.
Decision == Evaluate(dir.report, policy, Packages, Packages,
                     ImageId(DigestOf[held.seen]), now)

\* The four kinds of evidence that candidate.json binds by hash.
Bound == [source |-> dir.source, smoke |-> dir.smoke, report |-> dir.report,
          gate |-> dir.gate]

\* The archives that inspect() accepts.
Sound == {a \in Archives : Inspected(Content[a], Absent)}

\* context() and inspect() return.
Inspects == dir.source # None /\ archive \in Sound

\* Variant: the archive is taken for what the build made.
OfTheBuildTrusting == TRUE

\* The digest that inspect() found is BUILD_DIGEST.
OfTheBuild == DigestOf[held.seen] = build

\* qualify(): fresh evidence, and the archive is inspected.
QualifyBegins ==
    /\ at = "idle"
    /\ IF /\ None = dir.candidate /\ None = dir.smoke /\ None = dir.gate
          /\ ~dir.failure /\ Inspects
         THEN Goto("digest") /\ held' = [held EXCEPT !.seen = archive] /\ UNCHANGED <<dir, tags>>
         ELSE Fail
    /\ UNCHANGED <<world, done>>

\* The archive is opened again and hashed.
Digest ==
    /\ at = "digest"
    /\ IF OfTheBuild
         THEN /\ Goto("load") /\ held' = [held EXCEPT !.archive = archive]
              /\ dir' = [dir EXCEPT !.smoke = [digest |-> DigestOf[held.seen],
                                               archive |-> archive, passed |-> FALSE]]
              /\ UNCHANGED tags
         ELSE Fail
    /\ UNCHANGED <<world, done>>

\* docker load reads the file again; the image is looked up by the digest.
Load ==
    /\ at = "load"
    /\ IF DigestOf[archive] = DigestOf[held.seen]
         THEN Goto("test") /\ UNCHANGED <<dir, tags, held>>
         ELSE Fail
    /\ UNCHANGED <<world, done>>

TestImage ==
    /\ at = "test"
    /\ Goto("scan")
    /\ dir' = [dir EXCEPT !.smoke = [digest |-> @.digest, archive |-> @.archive,
                                     passed |-> TRUE]]
    /\ done' = [done EXCEPT !.smoked = @ \cup {DigestOf[held.seen]}]
    /\ UNCHANGED <<world, tags, held>>

\* scan_archive reads the file once more.
Scan(report) ==
    /\ at = "scan" /\ report \in Reports[DigestOf[archive]]
    /\ Goto("gate")
    /\ dir' = [dir EXCEPT !.report = report]
    /\ UNCHANGED <<world, tags, held, done>>

Gate ==
    /\ at = "gate"
    /\ IF Decision = "error" THEN Fail
       ELSE /\ Goto("bind")
            /\ dir' = [dir EXCEPT !.gate = [verdict |-> Decision]]
            /\ held' = [held EXCEPT !.scanned = now]
            /\ UNCHANGED tags
    /\ UNCHANGED <<world, done>>

\* A verification begins, after which the caller goes on with step.
Verifies(step) == Goto("inspect") /\ held' = [held EXCEPT !.then = step]

Bind ==
    /\ at = "bind"
    /\ IF archive = held.archive
         THEN /\ Verifies("idle")
              /\ dir' = [dir EXCEPT !.candidate =
                   [archive |-> held.archive, digest |-> DigestOf[held.seen],
                    scanned |-> held.scanned, files |-> Bound, policy |-> policy]]
              /\ UNCHANGED tags
         ELSE Fail
    /\ UNCHANGED <<world, done>>

\* The verify command.
VerifyBegins ==
    /\ at = "idle"
    /\ Verifies("idle")
    /\ UNCHANGED <<world, dir, tags, done>>

\* Variant: an earlier failure is forgotten.
NotFailedEver == TRUE

NotFailed == ~dir.failure

\* verify(), the first opening of the archive.
Inspect ==
    /\ at = "inspect"
    /\ IF NotFailed /\ Inspects
         THEN Goto("hash") /\ held' = [held EXCEPT !.seen = archive] /\ UNCHANGED <<dir, tags>>
         ELSE Fail
    /\ UNCHANGED <<world, done>>

\* The evidence is what was bound, the archive and the policy hash to what
\* candidate.json says, and it is of the digest inspected, the build's.
Matches ==
    /\ dir.candidate # None
    /\ dir.candidate.files = Bound
    /\ dir.candidate.archive = archive /\ dir.candidate.policy = policy
    /\ dir.candidate.digest = DigestOf[held.seen] /\ OfTheBuild

Hash ==
    /\ at = "hash"
    /\ IF Matches THEN Goto("decide") /\ UNCHANGED <<dir, tags, held>> ELSE Fail
    /\ UNCHANGED <<world, done>>

\* Variant: the scan keeps its value.
ScanIsFreshAlways == TRUE

ScanIsFresh == now - dir.candidate.scanned <= Fresh

\* The rest of verify(); the policy is read again.
Allowed ==
    /\ ScanIsFresh
    /\ dir.smoke.passed /\ dir.smoke.digest = dir.candidate.digest
    /\ dir.smoke.archive = dir.candidate.archive
    /\ Decision = "allowed" /\ dir.gate.verdict = "allowed"

Decide ==
    /\ at = "decide"
    /\ IF Allowed
         THEN /\ Goto(held.then)
              /\ held' = IF held.then = "idle" THEN Nothing ELSE held
              /\ done' = IF held.then = "record" /\ held.registry = "real"
                           THEN [done EXCEPT !.judged =
                                  [seen |-> held.seen, policy |-> policy, at |-> now]]
                           ELSE done
              /\ UNCHANGED <<dir, tags>>
         ELSE Fail /\ UNCHANGED done
    /\ UNCHANGED world

-----------------------------------------------------------------------------
(* release_publish.                                                        *)

\* registry-test verifies before it starts anything.
RehearsalBegins ==
    /\ at = "idle"
    /\ Goto("inspect") /\ held' = [held EXCEPT !.then = "boot", !.registry = "loopback"]
    /\ UNCHANGED <<world, dir, tags, done>>

\* A new, empty registry on the loopback interface; publish() verifies again.
Boot ==
    /\ at = "boot"
    /\ Verifies("start")
    /\ tags' = [tags EXCEPT !.loopback = Empty]
    /\ UNCHANGED <<world, dir, done>>

\* Variant: the record is removed before the file that follows from it.
FirstUnlinkedRecord == "publication"

FirstUnlinked == "env"

PublishBegins ==
    /\ at = "idle"
    /\ Goto("unlink") /\ held' = [held EXCEPT !.registry = "real"]
    /\ dir' = [dir EXCEPT ![FirstUnlinked] = None]
    /\ UNCHANGED <<world, tags, done>>

Unlink ==
    /\ at = "unlink"
    /\ Verifies("start")
    /\ dir' = [dir EXCEPT !.publication = None, !.env = None]
    /\ UNCHANGED <<world, tags, done>>

\* Variant: a verified candidate needs no rehearsal.
RehearsedNot == TRUE

Rehearsed ==
    /\ dir.rehearsal # None
    /\ dir.rehearsal.digest = dir.candidate.digest
    /\ dir.rehearsal.archive = dir.candidate.archive

\* publish() has verified; up to the first write to a registry.
Start ==
    /\ at = "start"
    /\ IF held.registry = "real" => Rehearsed
         THEN /\ Goto("import")
              /\ held' = [held EXCEPT !.record = dir.candidate]
              /\ UNCHANGED <<dir, tags>>
         ELSE Fail
    /\ UNCHANGED <<world, done>>

\* The commit's tag is made from the file; the registry may store it in a
\* converted form.
Import(stored) ==
    /\ at = "import" /\ stored \in {DigestOf[archive], "converted"}
    /\ Goto("check")
    /\ tags' = [tags EXCEPT ![held.registry] = [commit |-> stored, version |-> @.version]]
    /\ UNCHANGED <<world, dir, held, done>>

\* Variant: the tag is as good as what was sent.
TagHoldsAssumed(tag) == TRUE

TagHolds(tag) == tags[held.registry][tag] = held.record.digest

Check(step, tag, next) ==
    /\ at = step
    /\ IF TagHolds(tag) THEN Goto(next) /\ UNCHANGED <<dir, tags, held>> ELSE Fail
    /\ UNCHANGED <<world, done>>

\* The version's tag is copied from the qualified digest.
Copy ==
    /\ at = "copy"
    /\ Goto("recheck")
    /\ tags' = [tags EXCEPT ![held.registry] =
                   [commit |-> @.commit, version |-> held.record.digest]]
    /\ UNCHANGED <<world, dir, held, done>>

\* The copy that the registry hands back passes inspect() for the digest; a
\* digest determines the runtime's digest and the image ID.
RoundTrip(layout) ==
    /\ at = "return" /\ layout \in DOMAIN Returned[held.record.digest]
    /\ IF Inspected(Returned[held.record.digest][layout], held.record.digest)
         THEN /\ Verifies("record") /\ UNCHANGED <<dir, tags>>
              /\ done' = IF held.registry = "real" THEN [done EXCEPT !.back = layout]
                                                   ELSE done
         ELSE Fail /\ UNCHANGED done
    /\ UNCHANGED world

Entry == [digest |-> held.record.digest, archive |-> held.record.archive, at |-> now]

\* verify() has returned once more.
Record ==
    /\ at = "record"
    /\ \/ /\ held.registry = "real"
          /\ Goto("env")
          /\ dir' = [dir EXCEPT !.publication = Entry]
          /\ UNCHANGED done
       \/ /\ held.registry = "loopback"
          /\ Goto("remove")
          /\ dir' = [dir EXCEPT !.rehearsal = Entry]
          /\ done' = [done EXCEPT !.rehearsed = @ \cup
                        {[digest |-> tags.loopback.version, archive |-> held.record.archive]}]
    /\ UNCHANGED <<world, tags, held>>

WriteEnv ==
    /\ at = "env"
    /\ Goto("output")
    /\ dir' = [dir EXCEPT !.env = [digest |-> held.record.digest]]
    /\ UNCHANGED <<world, tags, held, done>>

\* The reference also goes to the workflow's output, if there is one.
WriteOutput ==
    /\ at = "output"
    /\ Goto("idle") /\ held' = Nothing
    /\ UNCHANGED <<world, dir, tags, done>>

\* The finally clause of registry-test.
RemoveRegistry ==
    /\ at = "remove"
    /\ Goto("idle") /\ held' = Nothing
    /\ tags' = [tags EXCEPT !.loopback = Empty]
    /\ UNCHANGED <<world, dir, done>>

-----------------------------------------------------------------------------
(* The surroundings.                                                       *)
Exchange(a) ==
    /\ archive # a /\ trouble < MaxTrouble
    /\ archive' = a /\ trouble' = trouble + 1
    /\ UNCHANGED <<ci, build, policy, now, dir, tags, at, held, done>>

EditPolicy(p) ==
    /\ policy # p /\ trouble < MaxTrouble
    /\ policy' = p /\ trouble' = trouble + 1
    /\ UNCHANGED <<ci, build, archive, now, dir, tags, at, held, done>>

Tick ==
    /\ now < MaxTime /\ now' = now + 1
    /\ UNCHANGED <<ci, build, archive, policy, dir, tags, at, held, done, trouble>>

Next ==
    \/ CiStarts \/ (\E r \in Outcomes : CiEnds(r)) \/ SelectSource \/ SelectFails
    \/ ToolFails \/ Killed
    \/ QualifyBegins \/ Digest \/ Load \/ TestImage \/ Gate \/ Bind
    \/ VerifyBegins \/ Inspect \/ Hash \/ Decide
    \/ \E r \in UNION {Reports[d] : d \in DOMAIN Reports} : Scan(r)
    \/ RehearsalBegins \/ Boot \/ PublishBegins \/ Unlink \/ Start
    \/ \E s \in {DigestOf[a] : a \in Archives} \cup {"converted"} : Import(s)
    \/ Check("check", "commit", "copy") \/ Copy
    \/ Check("recheck", "version", "return")
    \/ \E l \in UNION {DOMAIN Returned[d] : d \in DOMAIN Returned} : RoundTrip(l)
    \/ Record \/ WriteEnv \/ WriteOutput \/ RemoveRegistry
    \/ (\E a \in Archives : Exchange(a)) \/ (\E p \in Policies : EditPolicy(p)) \/ Tick

Spec == Init /\ [][Next]_vars

-----------------------------------------------------------------------------
(* Properties.                                                             *)

TypeOK ==
    /\ archive \in Archives /\ policy \in Policies /\ now \in 0 .. MaxTime
    /\ Len(ci) <= MaxAttempts /\ trouble \in 0 .. MaxTrouble
    /\ dir.failure \in BOOLEAN
    /\ dir.smoke # None => dir.smoke.archive \in Archives /\ dir.smoke.passed \in BOOLEAN
    /\ held.seen \in Sound \cup {"none"}
    /\ at \in {"idle", "digest", "load", "test", "scan", "gate", "bind", "inspect",
               "hash", "decide", "boot", "unlink", "start", "import", "check", "copy",
               "recheck", "return", "record", "env", "output", "remove"}

\* Only a commit whose latest CI attempt had every required job succeed is
\* ever selected; a job that was skipped or is missing is no success
\* (ci_gate.py 27-35).
SourceIsGreen ==
    dir.source # None =>
        LET results == ci[dir.source.attempt].results
        IN  \A j \in Jobs : j \in DOMAIN results /\ results[j] = "success"

\* What publication.json records has been earned, whatever was exchanged,
\* killed or repeated on the way: the digest passed the smoke test; it was
\* rehearsed, with an archive of the same hash; the scan kept as evidence is
\* of the image ID of the digest and, when it was last verified, was recent
\* and had no critical finding without an exception in the policy then in
\* place; the bytes inspected then and the registry's copy are whole, and
\* what they attest is about the image that runs, built from the source;
\* both tags of the registry hold the digest.
PublicationIsEarned ==
    dir.publication # None =>
        LET p == dir.publication
            last == done.judged
        IN
        /\ p.digest \in done.smoked
        /\ [digest |-> p.digest, archive |-> p.archive] \in done.rehearsed
        /\ dir.report.artifact = ImageId(p.digest)
        /\ last.at - dir.candidate.scanned <= Fresh
        /\ \A f \in Findings(dir.report) :
              f.severity = "CRITICAL" => Scope(f) \in Rules(last.policy)
        /\ Whole(Content[last.seen], p.digest) /\ AboutTheImage(p.digest)
        /\ Whole(Returned[p.digest][done.back], p.digest)
        /\ tags.real = [commit |-> p.digest, version |-> p.digest]

\* The real registry is written to only for a candidate that was tested and
\* rehearsed, and the version's tag never names anything else: a wrong
\* import may spoil the commit's tag, not the version's.
VersionTagIsQualified ==
    /\ tags.real # Empty => /\ build \in done.smoked
                            /\ \E r \in done.rehearsed : r.digest = build
    /\ tags.real.version \in {"none", build}

\* release-image.env, which a deployment reads, never outlives or precedes
\* the record of its publication (release_publish.py 203-213, 306-307).
EnvFollowsPublication ==
    dir.env # None => dir.publication # None /\ dir.env.digest = dir.publication.digest

\* "A failed release attempt cannot publish": after failure.json no registry
\* tag and no record of a publication is written again.
FailureIsFinal ==
    [][dir.failure => /\ tags'.real = tags.real
                      /\ dir'.publication \in {dir.publication, None}
                      /\ dir'.env \in {dir.env, None}]_vars

\* Nothing is selected, tagged or recorded that was not earned.
ReleaseIsEarned ==
    TypeOK /\ SourceIsGreen /\ PublicationIsEarned /\ VersionTagIsQualified

\* What a deployment reads does not contradict the record, and a failure, once
\* written, is not overcome by running the commands again.
EvidenceIsConsistent == []EnvFollowsPublication /\ FailureIsFinal

=============================================================================
