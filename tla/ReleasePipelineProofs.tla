------------------------ MODULE ReleasePipelineProofs ------------------------
(***************************************************************************)
(* The release commands, for any archives, reports, policies and registry  *)
(* layouts, any number of CI attempts, disturbances and repetitions.  The   *)
(* argument: what a command holds in memory was verified when it started   *)
(* and candidate.json is written once; a verification holds on to what it  *)
(* inspected, whatever is at the path when it hashes and decides; a real   *)
(* publication has removed the record of the one before it before it       *)
(* touches a tag; and a failure is only ever written by a command that     *)
(* ends.                                                                   *)
(***************************************************************************)
EXTENDS ReleasePipeline, SequenceTheorems, WellFoundedInduction, TLAPS

-----------------------------------------------------------------------------
(* The inductive invariant. *)

Files == {"source", "smoke", "report", "gate", "candidate", "rehearsal",
          "publication", "env", "failure"}

Fields == {"then", "registry", "seen", "archive", "scanned", "record"}

\* Steps of qualify before candidate.json, of a verification, and of publish
\* after its first write to a registry.
Qualifying == {"digest", "load", "test", "scan", "gate", "bind"}
Verifying == {"inspect", "hash", "decide"}
Writing == {"import", "check", "copy", "recheck", "return", "record", "env",
            "output", "remove"}

\* The verification between the registry's copy and the record.
LastLook == at \in Verifying /\ held.then = "record"

\* publish() holds a record; it has not written its own.
Publishing == at \in Writing \/ LastLook
Unrecorded ==
    \/ at \in {"start", "import", "check", "copy", "recheck", "return", "record"}
    \/ at \in Verifying /\ held.then \in {"start", "record"}

Attempts ==
    {[status |-> "running"]}
      \cup [status : {"completed"}, results : Outcomes, gate : BOOLEAN]

Shapes ==
    /\ DOMAIN dir = Files /\ DOMAIN held = Fields
    /\ DOMAIN done = {"smoked", "rehearsed", "back", "judged"}
    /\ DOMAIN tags = {"real", "loopback"}
    /\ tags.real = [commit |-> tags.real.commit, version |-> tags.real.version]
    /\ ci \in Seq(Attempts)
    /\ now \in Int
    /\ build \in {DigestOf[a] : a \in Archives}

\* An attempt that was selected had passed the gate, and is not written again.
SourceInv ==
    /\ \A i \in DOMAIN ci : ci[i].status = "completed" /\ ci[i].gate
                              => GateAllows(ci[i].results)
    /\ dir.source # None =>
         /\ dir.source.attempt \in DOMAIN ci
         /\ ci[dir.source.attempt].status = "completed"
         /\ ci[dir.source.attempt].gate

\* candidate.json comes last in qualify, which never runs twice.
QualifyInv ==
    /\ dir.candidate # None => dir.smoke # None
    /\ dir.smoke # None /\ dir.smoke.passed => dir.smoke.digest \in done.smoked
    /\ dir.publication # None => dir.candidate # None
    /\ at \in Qualifying => dir.candidate = None
    /\ at \in Qualifying \ {"digest"} =>
         dir.smoke # None /\ dir.smoke.digest = DigestOf[held.seen]

\* What a verification has established so far.
VerifyInv ==
    /\ at \in Verifying => held.then \in {"idle", "boot", "start", "record"}
    /\ at \in {"hash", "decide"} => held.seen \in Sound
    /\ at = "decide" => DigestOf[held.seen] = build
    /\ at \in {"decide", "start"} => dir.candidate # None /\ dir.candidate.digest = build
    /\ at = "start" => build \in done.smoked

\* What a publishing command holds: the candidate as it was verified.
HeldInv ==
    /\ dir.rehearsal # None =>
         [digest |-> dir.rehearsal.digest, archive |-> dir.rehearsal.archive]
           \in done.rehearsed
    /\ Publishing =>
         /\ held.record = dir.candidate /\ dir.candidate # None
         /\ held.record.digest = build /\ build \in done.smoked
         /\ held.registry = "real" =>
              [digest |-> build, archive |-> held.record.archive] \in done.rehearsed

\* The last verification before the record of a publication.
Judged ==
    LET last == done.judged IN
    /\ last.seen \in Sound /\ DigestOf[last.seen] = build
    /\ last.at - dir.candidate.scanned <= Fresh
    /\ dir.report.artifact = ImageId(build)
    /\ \A f \in Findings(dir.report) :
          f.severity = "CRITICAL" => Scope(f) \in Rules(last.policy)

\* A publication to the real registry starts from no record at all and makes
\* one when both tags and the registry's copy have been checked.
PublishInv ==
    /\ EnvFollowsPublication
    /\ at = "unlink" => held.registry = "real" /\ dir.env = None
    /\ at = "boot" \/ (at \in Verifying /\ held.then = "boot") => held.registry = "loopback"
    /\ Publishing \/ Unrecorded => held.registry \in {"real", "loopback"}
    /\ Unrecorded /\ held.registry = "real" => dir.publication = None /\ dir.env = None
    /\ at = "env" => dir.publication # None /\ dir.publication.digest = held.record.digest
    /\ at \in {"copy", "recheck", "return", "record"} \/ LastLook
         => tags[held.registry].commit = build
    /\ at \in {"return", "record"} \/ LastLook => tags[held.registry].version = build
    /\ (at = "record" \/ LastLook) /\ held.registry = "real"
         => /\ done.back \in DOMAIN Returned[build]
            /\ Inspected(Returned[build][done.back], build)
    /\ at = "record" /\ held.registry = "real" => Judged

\* A command that runs on after a failure has not verified anything yet.
FailureInv == dir.failure => at \in {"idle", "unlink", "inspect"}

Inv ==
    /\ Shapes /\ TypeOK /\ SourceInv /\ QualifyInv /\ VerifyInv /\ HeldInv
    /\ PublishInv /\ FailureInv /\ PublicationIsEarned /\ VersionTagIsQualified

-----------------------------------------------------------------------------
(* What inspect() accepts is whole, and about the image that runs. *)

\* The first of several places.
LEMMA Least == ASSUME NEW S \in SUBSET Nat, S # {} PROVE \E i \in S : \A j \in S : i <= j
  <1>1. IsWellFoundedOn(OpToRel(<, Nat), Nat)
    BY NatLessThanWellFounded
  <1>2. PICK i \in S : \A j \in S : ~(<<j, i>> \in OpToRel(<, Nat))
    BY <1>1, WFMin
  <1>3. \A j \in S : ~(j < i)
    BY <1>2 DEF OpToRel
  <1> QED BY <1>3

LEMMA SelectedRoot ==
    ASSUME NEW a, IsSequence(a.roots), NEW expected, Selected(a, expected) # Absent
    PROVE  /\ Selected(a, expected) \in ToSet(a.roots)
           /\ expected = Absent => Selected(a, expected) = a.roots[1]
           /\ expected # Absent => Selected(a, expected).digest = expected
  <1> DEFINE found == Catalogued(a, expected)
  <1>1. DOMAIN a.roots = 1 .. Len(a.roots) /\ Len(a.roots) \in Nat
    BY DEF IsSequence
  <1>2. CASE expected = Absent
    <2>1. Len(a.roots) = 1 /\ Selected(a, expected) = a.roots[1]
      BY <1>2 DEF Selected
    <2> QED BY <1>1, <1>2, <2>1 DEF ToSet
  <1>3. CASE expected # Absent
    <2>1. /\ found # {}
          /\ Selected(a, expected) = a.roots[CHOOSE i \in found : \A j \in found : i <= j]
      BY <1>3 DEF Selected
    <2>2. found \subseteq DOMAIN a.roots
      BY DEF Catalogued
    <2>3. found \in SUBSET Nat
      BY <1>1, <2>2
    <2>4. PICK i \in found : i = CHOOSE k \in found : \A j \in found : k <= j
      BY <2>1, <2>3, Least
    <2>5. i \in DOMAIN a.roots /\ a.roots[i].digest = expected
      BY <2>4 DEF Catalogued
    <2> QED BY <1>3, <2>1, <2>4, <2>5 DEF ToSet
  <1> QED BY <1>2, <1>3

LEMMA IntactIsPresent == ASSUME NEW a, NEW d, Intact(a, d) PROVE Present(a, d)
  BY DEF Intact, Present

LEMMA AcceptedIsWhole ==
    ASSUME NEW a, IsSequence(a.roots), NEW expected, Inspected(a, expected)
    PROVE  /\ Whole(a, Selected(a, expected).digest)
           /\ AboutTheImage(Selected(a, expected).digest)
  <1>1. PICK root : root = Selected(a, expected)
    OBVIOUS
  <1>2. root \in ToSet(a.roots) /\ Present(a, root)
    BY <1>1, SelectedRoot, IntactIsPresent DEF Inspected
  <1>3. PICK r \in Runtimes(root) :
           /\ Runtimes(root) = {r}
           /\ RuntimeOk(a, Entries(root)[r])
           /\ \A i \in Others(root) : AttestationOk(a, Entries(root)[i], Entries(root)[r])
    BY <1>1 DEF Inspected
  <1>4. PICK runtime : runtime = Entries(root)[r]
    OBVIOUS
  <1>5. /\ runtime \in Kids(root.digest) /\ runtime.platform = "linux/amd64"
        /\ RuntimeOk(a, runtime)
    BY <1>3, <1>4 DEF Runtimes, Entries, Kids, ToSet
  <1>6. \A i \in Others(root) : /\ Entries(root)[i] \in Kids(root.digest) \ {runtime}
                                /\ AttestationOk(a, Entries(root)[i], runtime)
    BY <1>3, <1>4, <1>5 DEF Others, Runtimes, Entries, Kids, ToSet
  <1>7. \A kid \in Kids(root.digest) \ {runtime} :
           AttestationOk(a, kid, runtime)
    BY <1>3, <1>4, <1>6 DEF Others, Entries, Kids, ToSet
  <1>8. Whole(a, root.digest)
    <2>1. \A kid \in Kids(root.digest) :
             Present(a, kid) /\ \A part \in Parts(kid) : Present(a, part)
      <3>1. /\ Present(a, runtime)
            /\ \A part \in Parts(runtime) : Present(a, part)
        BY <1>5, IntactIsPresent DEF RuntimeOk, Parts
      <3>2. ASSUME NEW kid \in Kids(root.digest) \ {runtime}
            PROVE  Present(a, kid) /\ \A part \in Parts(kid) : Present(a, part)
        BY <1>7, <3>2, IntactIsPresent DEF AttestationOk, StatementOk, Parts
      <3> QED BY <3>1, <3>2
    <2> QED BY <1>2, <2>1 DEF Whole
  <1>9. AboutTheImage(root.digest)
    <2>1. Doc[Doc[runtime.digest].config.digest].source = Source
      BY <1>5 DEF RuntimeOk
    <2>2. ASSUME NEW e \in Kids(root.digest) \ {runtime}
          PROVE  /\ {e.reference, Doc[e.digest].subject} \subseteq {Absent, runtime.digest}
                 /\ \A l \in ToSet(Doc[e.digest].layers) :
                       Doc[l.digest].subjects \subseteq {runtime.digest}
      BY <1>7, <2>2 DEF AttestationOk, StatementOk, BoundTo, Bindings
    <2>3. ASSUME NEW p \in {"sbom", "provenance"}
          PROVE  \E e \in Kids(root.digest) \ {runtime} :
                    \E l \in ToSet(Doc[e.digest].layers) : Doc[l.digest].predicate = p
      <3>1. PICK s \in Statements(root) : Said(root, s).predicate = p
        BY <1>1, <2>3 DEF Inspected, EvidenceOk
      <3>2. PICK i \in Others(root) : s \in {i} \X DOMAIN Doc[Entries(root)[i].digest].layers
        BY <3>1 DEF Statements
      <3>3. s[1] = i /\ s[2] \in DOMAIN Doc[Entries(root)[i].digest].layers
        BY <3>2
      <3>4. PICK e \in Kids(root.digest) \ {runtime} : e = Entries(root)[i]
        BY <1>6, <3>2
      <3>5. PICK l \in ToSet(Doc[e.digest].layers) : l = Doc[e.digest].layers[s[2]]
        BY <3>3, <3>4 DEF ToSet
      <3> QED BY <3>1, <3>3, <3>4, <3>5 DEF Said
    <2> QED BY <1>5, <2>1, <2>2, <2>3 DEF AboutTheImage
  <1> QED BY <1>1, <1>8, <1>9

-----------------------------------------------------------------------------
(* What a step has to leave alone to keep each part of the invariant. *)

LEMMA SameSource ==
    ASSUME SourceInv, ci' = ci, dir'.source = dir.source
    PROVE  SourceInv'
  BY DEF SourceInv

LEMMA SamePublication ==
    ASSUME PublicationIsEarned,
           dir'.publication = dir.publication, dir'.report = dir.report,
           dir'.candidate = dir.candidate, tags'.real = tags.real,
           done'.back = done.back, done'.judged = done.judged,
           done.smoked \subseteq done'.smoked, done.rehearsed \subseteq done'.rehearsed
    PROVE  PublicationIsEarned'
  BY DEF PublicationIsEarned

LEMMA SameVersionTag ==
    ASSUME VersionTagIsQualified, tags'.real = tags.real, build' = build,
           done.smoked \subseteq done'.smoked, done.rehearsed \subseteq done'.rehearsed
    PROVE  VersionTagIsQualified'
  BY DEF VersionTagIsQualified

LEMMA BuildIsDigest ==
    ASSUME Inv
    PROVE  /\ build # Absent /\ ImageId(build) # "none" /\ build \in DOMAIN Returned
           /\ \A layout \in DOMAIN Returned[build] :
                 IsSequence(Returned[build][layout].roots)
  BY CatalogAssumption DEF Inv, Shapes

-----------------------------------------------------------------------------
\* What a command holds when it ends.
LEMMA NothingHeld == DOMAIN Nothing = Fields /\ Nothing.seen = "none"
  BY DEF Nothing, Fields

LEMMA Initial == Init => Inv
  <1> SUFFICES ASSUME Init PROVE Inv
    OBVIOUS
  <1> USE ReleaseAssumption DEF Init
  <1>1. Shapes
    <2>1. DOMAIN dir = Files /\ DOMAIN held = Fields
      BY NothingHeld DEF Files
    <2>2. ci \in Seq(Attempts)
      OBVIOUS
    <2>3. build \in {DigestOf[a] : a \in Archives}
      OBVIOUS
    <2>4. /\ DOMAIN done = {"smoked", "rehearsed", "back", "judged"}
          /\ DOMAIN tags = {"real", "loopback"}
          /\ tags.real = [commit |-> tags.real.commit, version |-> tags.real.version]
          /\ now \in Int
      BY DEF Empty
    <2> QED BY <2>1, <2>2, <2>3, <2>4 DEF Shapes
  <1>2. TypeOK
    <2>1. Len(ci) <= MaxAttempts
      OBVIOUS
    <2>2. now \in 0 .. MaxTime /\ trouble \in 0 .. MaxTrouble
      OBVIOUS
    <2>3. archive \in Archives /\ held.seen = "none"
      BY NothingHeld
    <2> QED BY <2>1, <2>2, <2>3 DEF TypeOK
  <1>3. SourceInv /\ QualifyInv /\ VerifyInv /\ HeldInv /\ FailureInv
    BY DEF SourceInv, QualifyInv, VerifyInv, HeldInv, FailureInv, Qualifying, Verifying,
           Writing, Publishing, LastLook
  <1>4. PublishInv /\ PublicationIsEarned
    BY DEF PublishInv, EnvFollowsPublication, PublicationIsEarned, Verifying, Writing,
           Publishing, LastLook, Unrecorded
  <1>5. VersionTagIsQualified
    <2>1. tags.real = Empty /\ tags.real.version = "none"
      BY DEF Empty
    <2> QED BY <2>1 DEF VersionTagIsQualified
  <1> QED BY <1>1, <1>2, <1>3, <1>4, <1>5 DEF Inv

LEMMA SamePublishing ==
    ASSUME PublishInv, UNCHANGED <<build, dir, tags, at, held, done>>
    PROVE  PublishInv'
  BY DEF PublishInv, EnvFollowsPublication, Publishing, LastLook, Unrecorded, Judged

-----------------------------------------------------------------------------
(* The surroundings and CI. *)
LEMMA SurroundingsStep ==
    ASSUME Inv,
           \/ \E a \in Archives : Exchange(a)
           \/ \E p \in Policies : EditPolicy(p)
           \/ Tick
    PROVE  Inv'
  <1> USE ReleaseAssumption DEF Inv
  <1>1. UNCHANGED <<ci, build, dir, tags, at, held, done>>
    BY DEF Exchange, EditPolicy, Tick
  <1>2. /\ archive' \in Archives /\ policy' \in Policies /\ now' \in 0 .. MaxTime
        /\ trouble' \in 0 .. MaxTrouble
    BY DEF Exchange, EditPolicy, Tick, TypeOK
  <1>3. Shapes' /\ TypeOK'
    BY <1>1, <1>2 DEF Shapes, TypeOK
  <1>4. SourceInv' /\ PublicationIsEarned' /\ VersionTagIsQualified'
    BY <1>1, SameSource, SamePublication, SameVersionTag
  <1>5. QualifyInv' /\ VerifyInv' /\ HeldInv' /\ FailureInv'
    BY <1>1 DEF QualifyInv, VerifyInv, HeldInv, FailureInv, Publishing, LastLook
  <1>6. PublishInv'
    BY <1>1, SamePublishing
  <1> QED BY <1>3, <1>4, <1>5, <1>6

LEMMA CiStep ==
    ASSUME Inv, CiStarts \/ \E r \in Outcomes : CiEnds(r)
    PROVE  Inv'
  <1> USE ReleaseAssumption DEF Inv
  <1>1. UNCHANGED <<build, archive, policy, now, dir, tags, at, held, done, trouble>>
    BY DEF CiStarts, CiEnds
  <1>2. ci \in Seq(Attempts) /\ Len(ci) \in Nat /\ DOMAIN ci = 1 .. Len(ci)
    BY DEF Shapes
  <1>3. /\ ci' \in Seq(Attempts) /\ Len(ci') <= MaxAttempts /\ DOMAIN ci \subseteq DOMAIN ci'
        /\ \A i \in DOMAIN ci : ci[i].status = "completed" => ci'[i] = ci[i]
        /\ \A i \in DOMAIN ci' : ci'[i].status = "completed" /\ ci'[i].gate
                                   => GateAllows(ci'[i].results)
    <2>1. CASE CiStarts
      <3>1. PICK new : new = [status |-> "running"]
        OBVIOUS
      <3>2. new \in Attempts /\ new.status = "running"
        BY <3>1 DEF Attempts
      <3>3. /\ ci' \in Seq(Attempts) /\ Len(ci') = Len(ci) + 1
            /\ DOMAIN ci' = 1 .. Len(ci) + 1
            /\ \A i \in 1 .. Len(ci) : ci'[i] = ci[i]
            /\ ci'[Len(ci) + 1] = new
        BY <1>2, <2>1, <3>1, <3>2 DEF CiStarts
      <3>4. Len(ci) < MaxAttempts
        BY <2>1 DEF CiStarts
      <3> QED BY <1>2, <3>2, <3>3, <3>4 DEF SourceInv
    <2>2. CASE \E r \in Outcomes : CiEnds(r)
      <3>1. PICK r \in Outcomes : CiEnds(r)
        BY <2>2
      <3>2. PICK new : new = [status |-> "completed", results |-> r, gate |-> GateAllows(r)]
        OBVIOUS
      <3>3. GateAllows(r) \in BOOLEAN
        BY DEF GateAllows
      <3>4. new \in Attempts /\ (new.gate => GateAllows(new.results))
        BY <3>2, <3>3 DEF Attempts
      <3>5. /\ ci # <<>> /\ ci[Len(ci)].status = "running"
            /\ ci' = [ci EXCEPT ![Len(ci)] = new]
        BY <3>1, <3>2 DEF CiEnds
      <3>6. Len(ci) \in 1 .. Len(ci)
        BY <1>2, <3>5
      <3>7. /\ ci' \in Seq(Attempts) /\ Len(ci') = Len(ci) /\ DOMAIN ci' = DOMAIN ci
            /\ \A i \in DOMAIN ci : ci'[i] = IF i = Len(ci) THEN new ELSE ci[i]
        <4>1. PICK n \in 1 .. Len(ci) : n = Len(ci)
          BY <3>6
        <4>2. /\ [ci EXCEPT ![n] = new] \in Seq(Attempts)
              /\ Len([ci EXCEPT ![n] = new]) = Len(ci)
              /\ \A i \in 1 .. Len(ci) :
                    [ci EXCEPT ![n] = new][i] = IF i = n THEN new ELSE ci[i]
          BY <1>2, <3>4, ExceptSeq
        <4> QED BY <1>2, <3>5, <4>1, <4>2
      <3> QED BY <1>2, <3>4, <3>5, <3>7 DEF SourceInv, TypeOK
    <2> QED BY <2>1, <2>2
  <1>4. Shapes' /\ TypeOK'
    BY <1>1, <1>3 DEF Shapes, TypeOK
  <1>5. SourceInv'
    BY <1>1, <1>3 DEF SourceInv
  <1>6. PublicationIsEarned' /\ VersionTagIsQualified'
    BY <1>1, SamePublication, SameVersionTag
  <1>7. QualifyInv' /\ VerifyInv' /\ HeldInv' /\ FailureInv'
    BY <1>1 DEF QualifyInv, VerifyInv, HeldInv, FailureInv, Publishing, LastLook
  <1>8. PublishInv'
    BY <1>1, SamePublishing
  <1> QED BY <1>4, <1>5, <1>6, <1>7, <1>8

-----------------------------------------------------------------------------
(* The end of a command, with or without a failure. *)
LEMMA EndStep ==
    ASSUME Inv, at' = "idle", DOMAIN held' = Fields, held'.seen \in Sound \cup {"none"},
           dir' = dir \/ dir' = [dir EXCEPT !.failure = TRUE],
           tags' = tags \/ tags' = [tags EXCEPT !.loopback = Empty],
           UNCHANGED <<ci, build, archive, policy, now, done>>,
           trouble' \in 0 .. MaxTrouble
    PROVE  Inv'
  <1> USE DEF Inv
  <1>1. /\ DOMAIN dir' = Files /\ dir'.failure \in BOOLEAN
        /\ \A f \in Files \ {"failure"} : dir'[f] = dir[f]
    BY DEF Shapes, Files, TypeOK
  <1>2. /\ dir'.source = dir.source /\ dir'.smoke = dir.smoke /\ dir'.report = dir.report
        /\ dir'.candidate = dir.candidate /\ dir'.rehearsal = dir.rehearsal
        /\ dir'.publication = dir.publication /\ dir'.env = dir.env
    BY <1>1 DEF Files
  <1>3. DOMAIN tags' = {"real", "loopback"} /\ tags'.real = tags.real
    BY DEF Shapes
  <1>4. Shapes'
    BY <1>1, <1>3 DEF Shapes
  <1>5. TypeOK'
    BY <1>1, <1>2 DEF TypeOK
  <1>6. SourceInv' /\ PublicationIsEarned' /\ VersionTagIsQualified'
    BY <1>2, <1>3, SameSource, SamePublication, SameVersionTag
  <1>7. QualifyInv' /\ VerifyInv' /\ HeldInv' /\ FailureInv'
    BY <1>2 DEF QualifyInv, VerifyInv, HeldInv, FailureInv, Qualifying, Verifying, Writing,
                Publishing, LastLook
  <1>8. PublishInv'
    BY <1>2 DEF PublishInv, EnvFollowsPublication, Verifying, Writing, Publishing, LastLook,
                Unrecorded
  <1> QED BY <1>4, <1>5, <1>6, <1>7, <1>8

LEMMA FailStep == ASSUME Inv, Fail, UNCHANGED <<world, done>> PROVE Inv'
  BY EndStep, NothingHeld DEF Fail, world, Inv, TypeOK

LEMMA SelectStep == ASSUME Inv, SelectSource \/ SelectFails PROVE Inv'
  <1> USE DEF Inv
  <1>1. at = "idle" /\ UNCHANGED <<world, tags, at, held, done>>
    BY DEF SelectSource, SelectFails
  <1>2. CASE SelectSource
    <2>1. /\ dir' = [dir EXCEPT !.source = [attempt |-> Len(ci)]]
          /\ ci # <<>> /\ Valid(Len(ci))
      BY <1>2 DEF SelectSource
    <2>2. /\ DOMAIN dir' = Files /\ dir'.source.attempt = Len(ci)
          /\ \A f \in Files \ {"source"} : dir'[f] = dir[f]
      BY <2>1 DEF Shapes, Files
    <2>3. /\ dir'.failure = dir.failure /\ dir'.smoke = dir.smoke
          /\ dir'.report = dir.report
          /\ dir'.candidate = dir.candidate /\ dir'.rehearsal = dir.rehearsal
          /\ dir'.publication = dir.publication /\ dir'.env = dir.env
      BY <2>2 DEF Files
    <2>4. Len(ci) \in DOMAIN ci
      BY <2>1 DEF Shapes
    <2>5. Shapes' /\ TypeOK'
      BY <1>1, <2>2, <2>3 DEF Shapes, TypeOK, world
    <2>6. SourceInv'
      BY <1>1, <2>1, <2>2, <2>4 DEF SourceInv, Valid, world
    <2>7. PublicationIsEarned' /\ VersionTagIsQualified'
      BY <1>1, <2>3, SamePublication, SameVersionTag DEF world
    <2>8. QualifyInv' /\ VerifyInv' /\ HeldInv' /\ FailureInv'
      BY <1>1, <2>3 DEF QualifyInv, VerifyInv, HeldInv, FailureInv, Qualifying, Verifying,
                        Writing, Publishing, LastLook
    <2>9. PublishInv'
      BY <1>1, <2>3 DEF PublishInv, EnvFollowsPublication, Verifying, Writing, Publishing,
                        LastLook, Unrecorded
    <2> QED BY <2>5, <2>6, <2>7, <2>8, <2>9
  <1>3. CASE SelectFails
    <2>1. dir' = [dir EXCEPT !.failure = TRUE]
      BY <1>3 DEF SelectFails
    <2> QED BY <1>1, <2>1, EndStep DEF world, TypeOK, Shapes
  <1> QED BY <1>2, <1>3

-----------------------------------------------------------------------------
(* qualify. *)
LEMMA QualifyFrame ==
    ASSUME Inv, dir.candidate = None, ~dir.failure,
           at' \in Qualifying \/ (at' = "inspect" /\ held'.then = "idle"),
           UNCHANGED <<world, tags>>,
           DOMAIN held' = Fields, held'.seen \in Sound \cup {"none"},
           DOMAIN dir' = Files, dir'.source = dir.source,
           dir'.rehearsal = dir.rehearsal, dir'.publication = dir.publication,
           dir'.env = dir.env, dir'.failure = dir.failure,
           DOMAIN done' = DOMAIN done, done'.rehearsed = done.rehearsed,
           done'.back = done.back, done.smoked \subseteq done'.smoked,
           dir'.smoke # None => /\ dir'.smoke.archive \in Archives
                                /\ dir'.smoke.passed \in BOOLEAN
                                /\ dir'.smoke.passed => dir'.smoke.digest \in done'.smoked,
           at' = "digest" \/ dir'.smoke # None,
           at' \in Qualifying => dir'.candidate = None,
           at' \in Qualifying \ {"digest"} => dir'.smoke.digest = DigestOf[held'.seen],
           dir'.candidate = None \/ dir'.smoke # None
    PROVE  Inv'
  <1> USE DEF Inv, world
  <1>1. dir.publication = None
    BY DEF QualifyInv
  <1>2. Shapes'
    BY DEF Shapes
  <1>3. TypeOK'
    BY DEF TypeOK, Qualifying
  <1>4. SourceInv' /\ VersionTagIsQualified'
    BY SameSource, SameVersionTag
  <1>5. QualifyInv'
    BY <1>1 DEF QualifyInv, Qualifying
  <1>6. VerifyInv' /\ HeldInv' /\ FailureInv'
    BY DEF VerifyInv, HeldInv, FailureInv, Qualifying, Verifying, Writing, Publishing,
           LastLook
  <1>7. PublishInv' /\ PublicationIsEarned'
    BY <1>1 DEF PublishInv, EnvFollowsPublication, PublicationIsEarned, Qualifying,
                Verifying, Writing, Publishing, LastLook, Unrecorded
  <1> QED BY <1>2, <1>3, <1>4, <1>5, <1>6, <1>7

LEMMA QualifyStep ==
    ASSUME Inv,
           \/ QualifyBegins \/ Digest \/ Load \/ TestImage \/ Gate \/ Bind
           \/ \E r \in UNION {Reports[d] : d \in DOMAIN Reports} : Scan(r)
    PROVE  Inv'
  <1> USE DEF Inv
  <1>1. CASE Fail /\ UNCHANGED <<world, done>>
    BY <1>1, FailStep
  <1>2. CASE QualifyBegins /\ ~Fail
    <2>1. /\ dir.candidate = None /\ dir.smoke = None /\ ~dir.failure /\ archive \in Sound
          /\ at' = "digest" /\ held' = [held EXCEPT !.seen = archive]
          /\ UNCHANGED <<world, done, dir, tags>>
      BY <1>2 DEF QualifyBegins, Goto, Inspects
    <2>2. DOMAIN held' = Fields /\ held'.seen = archive
      BY <2>1 DEF Shapes, Fields
    <2> QED BY <2>1, <2>2, QualifyFrame DEF Qualifying, Shapes
  <1>3. ASSUME at \in Qualifying
        PROVE  /\ dir.candidate = None /\ ~dir.failure
               /\ held.seen \in Sound \cup {"none"} /\ DOMAIN held = Fields
    BY <1>3 DEF QualifyInv, FailureInv, Qualifying, TypeOK, Shapes
  <1>4. ASSUME at \in Qualifying, at # "digest"
        PROVE  /\ dir.smoke # None /\ dir.smoke.digest = DigestOf[held.seen]
               /\ dir.smoke.archive \in Archives /\ dir.smoke.passed \in BOOLEAN
               /\ dir.smoke.passed => dir.smoke.digest \in done.smoked
    BY <1>4 DEF QualifyInv, TypeOK
  <1>5. CASE Digest /\ ~Fail
    <2>1. PICK smoke : smoke = [digest |-> DigestOf[held.seen], archive |-> archive,
                                passed |-> FALSE]
      OBVIOUS
    <2>2. /\ at = "digest" /\ at' = "load" /\ UNCHANGED <<world, done, tags>>
          /\ held' = [held EXCEPT !.archive = archive]
          /\ dir' = [dir EXCEPT !.smoke = smoke]
      BY <1>5, <2>1 DEF Digest, Goto
    <2>3. at \in Qualifying /\ at' \in Qualifying
      BY <2>2 DEF Qualifying
    <2>4. DOMAIN held' = Fields /\ held'.seen = held.seen
      BY <2>2 DEF Shapes, Fields
    <2>5. /\ smoke # None /\ smoke.archive = archive /\ smoke.passed \in BOOLEAN
          /\ ~smoke.passed /\ smoke.digest = DigestOf[held.seen] /\ archive \in Archives
      BY <2>1 DEF None, TypeOK
    <2>6. /\ DOMAIN dir' = Files /\ dir'.smoke = smoke
          /\ \A f \in Files \ {"smoke"} : dir'[f] = dir[f]
      BY <2>2 DEF Shapes, Files
    <2>7. /\ dir'.source = dir.source /\ dir'.candidate = dir.candidate
          /\ dir'.rehearsal = dir.rehearsal /\ dir'.publication = dir.publication
          /\ dir'.env = dir.env /\ dir'.failure = dir.failure
      BY <2>6 DEF Files
    <2> QED BY <1>3, <2>2, <2>3, <2>4, <2>5, <2>6, <2>7, QualifyFrame
  <1>6. CASE Load /\ ~Fail
    <2>1. at = "load" /\ at' = "test" /\ UNCHANGED <<world, done, dir, tags, held>>
      BY <1>6 DEF Load, Goto
    <2>2. at \in Qualifying /\ at' \in Qualifying /\ DOMAIN dir' = Files
      BY <2>1 DEF Qualifying, Shapes
    <2> QED BY <1>3, <1>4, <2>1, <2>2, QualifyFrame
  <1>7. CASE TestImage
    <2>1. PICK smoke : smoke = [digest |-> dir.smoke.digest, archive |-> dir.smoke.archive,
                                passed |-> TRUE]
      OBVIOUS
    <2>2. /\ at = "test" /\ at' = "scan" /\ UNCHANGED <<world, tags, held>>
          /\ dir' = [dir EXCEPT !.smoke = smoke]
          /\ done' = [done EXCEPT !.smoked = done.smoked \cup {DigestOf[held.seen]}]
      BY <1>7, <2>1 DEF TestImage, Goto
    <2>3. at \in Qualifying /\ at' \in Qualifying /\ at # "digest"
      BY <2>2 DEF Qualifying
    <2>4. /\ smoke # None /\ smoke.archive = dir.smoke.archive
          /\ smoke.passed \in BOOLEAN /\ smoke.digest = dir.smoke.digest
      BY <2>1 DEF None
    <2>5. /\ DOMAIN dir' = Files /\ dir'.smoke = smoke
          /\ \A f \in Files \ {"smoke"} : dir'[f] = dir[f]
      BY <2>2 DEF Shapes, Files
    <2>6. /\ dir'.source = dir.source /\ dir'.candidate = dir.candidate
          /\ dir'.rehearsal = dir.rehearsal /\ dir'.publication = dir.publication
          /\ dir'.env = dir.env /\ dir'.failure = dir.failure
      BY <2>5 DEF Files
    <2>7. /\ DOMAIN done' = DOMAIN done /\ done'.rehearsed = done.rehearsed
          /\ done'.back = done.back
          /\ done'.smoked = done.smoked \cup {DigestOf[held.seen]}
      BY <2>2 DEF Shapes
    <2>8. /\ done.smoked \subseteq done'.smoked
          /\ dir'.smoke.digest \in done'.smoked
      BY <1>4, <2>3, <2>4, <2>5, <2>7
    <2> QED BY <1>3, <1>4, <2>2, <2>3, <2>4, <2>5, <2>6, <2>7, <2>8, QualifyFrame
  <1>8. ASSUME at \in Qualifying, at' \in Qualifying, at # "digest", at' # "digest",
               NEW f \in {"report", "gate"}, NEW x,
               dir' = [dir EXCEPT ![f] = x], held'.seen = held.seen, DOMAIN held' = Fields,
               UNCHANGED <<world, done, tags>>
        PROVE  Inv'
    <2>1. DOMAIN dir' = Files /\ \A g \in Files \ {"report", "gate"} : dir'[g] = dir[g]
      BY <1>8 DEF Shapes, Files
    <2>2. /\ dir'.source = dir.source /\ dir'.candidate = dir.candidate
          /\ dir'.rehearsal = dir.rehearsal /\ dir'.publication = dir.publication
          /\ dir'.env = dir.env /\ dir'.failure = dir.failure /\ dir'.smoke = dir.smoke
      BY <2>1 DEF Files
    <2> QED BY <1>3, <1>4, <1>8, <2>1, <2>2, QualifyFrame
  <1>9. CASE \E r \in UNION {Reports[d] : d \in DOMAIN Reports} : Scan(r)
    <2>1. PICK r : Scan(r)
      BY <1>9
    <2>2. /\ at = "scan" /\ at' = "gate" /\ dir' = [dir EXCEPT !["report"] = r]
          /\ held' = held /\ UNCHANGED <<world, done, tags>>
      BY <2>1 DEF Scan, Goto
    <2> QED BY <1>8, <2>2 DEF Qualifying, Shapes
  <1>10. CASE Gate /\ ~Fail
    <2>1. PICK x : /\ dir' = [dir EXCEPT !["gate"] = x]
                   /\ at = "gate" /\ at' = "bind" /\ UNCHANGED <<world, done, tags>>
                   /\ held' = [held EXCEPT !.scanned = now]
      BY <1>10 DEF Gate, Goto
    <2>2. held'.seen = held.seen /\ DOMAIN held' = Fields
      BY <2>1 DEF Shapes, Fields
    <2> QED BY <1>8, <2>1, <2>2 DEF Qualifying
  <1>11. CASE Bind /\ ~Fail
    <2>1. PICK x : /\ dir' = [dir EXCEPT !["candidate"] = x]
                   /\ at = "bind" /\ at' = "inspect" /\ UNCHANGED <<world, done, tags>>
                   /\ held' = [held EXCEPT !.then = "idle"]
      BY <1>11 DEF Bind, Verifies, Goto
    <2>2. held'.seen = held.seen /\ DOMAIN held' = Fields /\ held'.then = "idle"
      BY <2>1 DEF Shapes, Fields
    <2>3. DOMAIN dir' = Files /\ \A g \in Files \ {"candidate"} : dir'[g] = dir[g]
      BY <2>1 DEF Shapes, Files
    <2>4. /\ dir'.source = dir.source /\ dir'.rehearsal = dir.rehearsal
          /\ dir'.publication = dir.publication
          /\ dir'.env = dir.env /\ dir'.failure = dir.failure /\ dir'.smoke = dir.smoke
      BY <2>3 DEF Files
    <2>5. at \in Qualifying /\ at # "digest" /\ at' \notin Qualifying
      BY <2>1 DEF Qualifying
    <2> QED BY <1>3, <1>4, <2>1, <2>2, <2>3, <2>4, <2>5, QualifyFrame
  <1> QED BY <1>1, <1>2, <1>5, <1>6, <1>7, <1>9, <1>10, <1>11
          DEF QualifyBegins, Digest, Load, Gate, Bind

-----------------------------------------------------------------------------
(* verify, registry-test and publish. *)

\* What no step of the three disturbs.
LEMMA PublishFrame ==
    ASSUME Inv, UNCHANGED world, DOMAIN dir' = Files,
           DOMAIN held' = Fields, held'.seen \in Sound \cup {"none"},
           dir'.source = dir.source, dir'.smoke = dir.smoke,
           dir'.candidate = dir.candidate, dir'.failure = dir.failure,
           dir'.publication # None => dir.candidate # None,
           DOMAIN done' = DOMAIN done, done'.smoked = done.smoked,
           DOMAIN tags' = DOMAIN tags,
           tags'.real = [commit |-> tags'.real.commit, version |-> tags'.real.version],
           \/ at' \in {"unlink", "inspect"}
           \/ at' \in {"hash", "decide", "boot", "start"} \cup Writing /\ ~dir.failure
    PROVE  Shapes' /\ TypeOK' /\ SourceInv' /\ QualifyInv' /\ FailureInv'
  <1> USE DEF Inv, world
  <1>1. Shapes'
    BY DEF Shapes
  <1>2. TypeOK'
    BY DEF TypeOK, Writing
  <1>3. SourceInv'
    BY SameSource
  <1>4. QualifyInv'
    BY DEF QualifyInv, Qualifying, Writing
  <1>5. FailureInv'
    BY DEF FailureInv
  <1> QED BY <1>1, <1>2, <1>3, <1>4, <1>5

\* A command begins with a verification or, to publish, by removing files.
LEMMA BeginStep ==
    ASSUME Inv, VerifyBegins \/ RehearsalBegins \/ Boot \/ PublishBegins \/ Unlink
    PROVE  Inv'
  <1> USE DEF Inv
  <1>1. CASE VerifyBegins
    <2>1. /\ at' = "inspect" /\ held' = [held EXCEPT !.then = "idle"]
          /\ UNCHANGED <<world, dir, tags, done>>
      BY <1>1 DEF VerifyBegins, Verifies, Goto
    <2>2. DOMAIN held' = Fields /\ held'.then = "idle" /\ held'.seen = held.seen
      BY <2>1 DEF Shapes, Fields
    <2>3. Shapes' /\ TypeOK' /\ SourceInv' /\ QualifyInv' /\ FailureInv'
      BY <2>1, <2>2, PublishFrame DEF Shapes, QualifyInv, TypeOK
    <2>4. VerifyInv' /\ HeldInv' /\ PublishInv'
      BY <2>1, <2>2 DEF VerifyInv, HeldInv, PublishInv, EnvFollowsPublication, Verifying,
                        Writing, Publishing, LastLook, Unrecorded
    <2>5. PublicationIsEarned' /\ VersionTagIsQualified'
      BY <2>1, SamePublication, SameVersionTag DEF world
    <2> QED BY <2>3, <2>4, <2>5
  <1>2. CASE RehearsalBegins
    <2>1. /\ at' = "inspect"
          /\ held' = [held EXCEPT !.then = "boot", !.registry = "loopback"]
          /\ UNCHANGED <<world, dir, tags, done>>
      BY <1>2 DEF RehearsalBegins, Goto
    <2>2. /\ DOMAIN held' = Fields /\ held'.then = "boot" /\ held'.seen = held.seen
          /\ held'.registry = "loopback"
      BY <2>1 DEF Shapes, Fields
    <2>3. Shapes' /\ TypeOK' /\ SourceInv' /\ QualifyInv' /\ FailureInv'
      BY <2>1, <2>2, PublishFrame DEF Shapes, QualifyInv, TypeOK
    <2>4. VerifyInv' /\ HeldInv' /\ PublishInv'
      BY <2>1, <2>2 DEF VerifyInv, HeldInv, PublishInv, EnvFollowsPublication, Verifying,
                        Writing, Publishing, LastLook, Unrecorded
    <2>5. PublicationIsEarned' /\ VersionTagIsQualified'
      BY <2>1, SamePublication, SameVersionTag DEF world
    <2> QED BY <2>3, <2>4, <2>5
  <1>3. CASE Boot
    <2>1. /\ at = "boot" /\ at' = "inspect" /\ held' = [held EXCEPT !.then = "start"]
          /\ UNCHANGED <<world, dir, done>>
          /\ tags' = [tags EXCEPT !.loopback = Empty]
      BY <1>3 DEF Boot, Verifies, Goto
    <2>2. /\ DOMAIN held' = Fields /\ held'.then = "start" /\ held'.seen = held.seen
          /\ held'.registry = held.registry /\ held.registry = "loopback"
      BY <2>1 DEF Shapes, Fields, PublishInv
    <2>3. DOMAIN tags' = DOMAIN tags /\ tags'.real = tags.real
      BY <2>1 DEF Shapes
    <2>4. Shapes' /\ TypeOK' /\ SourceInv' /\ QualifyInv' /\ FailureInv'
      BY <2>1, <2>2, <2>3, PublishFrame DEF Shapes, QualifyInv, TypeOK
    <2>5. VerifyInv' /\ HeldInv' /\ PublishInv'
      BY <2>1, <2>2 DEF VerifyInv, HeldInv, PublishInv, EnvFollowsPublication, Verifying,
                        Writing, Publishing, LastLook, Unrecorded
    <2>6. PublicationIsEarned' /\ VersionTagIsQualified'
      BY <2>1, <2>3, SamePublication, SameVersionTag DEF world
    <2> QED BY <2>4, <2>5, <2>6
  <1>4. CASE PublishBegins
    <2>1. /\ at' = "unlink" /\ held' = [held EXCEPT !.registry = "real"]
          /\ UNCHANGED <<world, tags, done>> /\ dir' = [dir EXCEPT !["env"] = None]
      BY <1>4 DEF PublishBegins, Goto, FirstUnlinked
    <2>2. /\ DOMAIN dir' = Files /\ dir'.env = None
          /\ \A f \in Files \ {"env"} : dir'[f] = dir[f]
      BY <2>1 DEF Shapes, Files
    <2>3. DOMAIN held' = Fields /\ held'.registry = "real" /\ held'.seen = held.seen
      BY <2>1 DEF Shapes, Fields
    <2>4. /\ dir'.source = dir.source /\ dir'.smoke = dir.smoke /\ dir'.report = dir.report
          /\ dir'.candidate = dir.candidate /\ dir'.failure = dir.failure
          /\ dir'.publication = dir.publication /\ dir'.rehearsal = dir.rehearsal
      BY <2>2 DEF Files
    <2>5. Shapes' /\ TypeOK' /\ SourceInv' /\ QualifyInv' /\ FailureInv'
      BY <2>1, <2>2, <2>3, <2>4, PublishFrame DEF Shapes, QualifyInv, TypeOK
    <2>6. VerifyInv' /\ HeldInv' /\ PublishInv'
      BY <2>1, <2>2, <2>3, <2>4
         DEF VerifyInv, HeldInv, PublishInv, EnvFollowsPublication, Verifying, Writing,
             Publishing, LastLook, Unrecorded
    <2>7. PublicationIsEarned' /\ VersionTagIsQualified'
      BY <2>1, <2>4, SamePublication, SameVersionTag DEF world
    <2> QED BY <2>5, <2>6, <2>7
  <1>5. CASE Unlink
    <2>1. /\ at = "unlink" /\ at' = "inspect" /\ held' = [held EXCEPT !.then = "start"]
          /\ UNCHANGED <<world, tags, done>>
          /\ dir' = [dir EXCEPT !.publication = None, !.env = None]
      BY <1>5 DEF Unlink, Verifies, Goto
    <2>2. /\ DOMAIN dir' = Files /\ dir'.env = None /\ dir'.publication = None
          /\ \A f \in Files \ {"publication", "env"} : dir'[f] = dir[f]
      BY <2>1 DEF Shapes, Files
    <2>3. /\ DOMAIN held' = Fields /\ held'.then = "start" /\ held'.seen = held.seen
          /\ held'.registry = held.registry /\ held.registry = "real"
      BY <2>1 DEF Shapes, Fields, PublishInv
    <2>4. /\ dir'.source = dir.source /\ dir'.smoke = dir.smoke
          /\ dir'.candidate = dir.candidate /\ dir'.failure = dir.failure
          /\ dir'.rehearsal = dir.rehearsal
      BY <2>2 DEF Files
    <2>5. Shapes' /\ TypeOK' /\ SourceInv' /\ QualifyInv' /\ FailureInv'
      BY <2>1, <2>2, <2>3, <2>4, PublishFrame DEF Shapes, TypeOK
    <2>6. VerifyInv' /\ HeldInv' /\ PublishInv'
      BY <2>1, <2>2, <2>3, <2>4
         DEF VerifyInv, HeldInv, PublishInv, EnvFollowsPublication, Verifying, Writing,
             Publishing, LastLook, Unrecorded
    <2>7. PublicationIsEarned' /\ VersionTagIsQualified'
      BY <2>1, <2>2, SameVersionTag DEF PublicationIsEarned, world
    <2> QED BY <2>5, <2>6, <2>7
  <1> QED BY <1>1, <1>2, <1>3, <1>4, <1>5

\* The evidence binds a tested digest, and the policy in place allows the scan
\* of its image.
LEMMA AllowedCandidate ==
    ASSUME Inv, at = "decide", Allowed
    PROVE  /\ dir.candidate # None /\ dir.candidate.digest = build
           /\ build \in done.smoked /\ ~dir.failure
           /\ held.seen \in Sound /\ DigestOf[held.seen] = build
           /\ now - dir.candidate.scanned <= Fresh
           /\ dir.report.artifact = ImageId(build)
           /\ \A f \in Findings(dir.report) :
                 f.severity = "CRITICAL" => Scope(f) \in Rules(policy)
  <1>1. /\ dir.candidate # None /\ dir.candidate.digest = build /\ held.seen \in Sound
        /\ DigestOf[held.seen] = build /\ ~dir.failure
    BY DEF Inv, VerifyInv, FailureInv
  <1>2. build \in done.smoked
    BY <1>1 DEF Allowed, Inv, QualifyInv
  <1>3. now - dir.candidate.scanned <= Fresh
    BY DEF Allowed, ScanIsFresh
  <1>4. PICK image : image = ImageId(build) /\ image # "none"
    BY BuildIsDigest
  <1>5. /\ ~Raises(dir.report, policy, Packages, image, now)
        /\ Blocked(dir.report, policy, Packages, image) = {}
    BY <1>1, <1>4 DEF Allowed, Decision, Evaluate
  <1>6. dir.report.artifact = image
    BY <1>4, <1>5 DEF Raises, Identifies
  <1>7. \A f \in Findings(dir.report) :
           f.severity = "CRITICAL" => Scope(f) \in Rules(policy)
    BY <1>4, <1>5 DEF Blocked, Excepted
  <1> QED BY <1>1, <1>2, <1>3, <1>4, <1>6, <1>7

\* The steps of a verification: only what the command holds changes.
LEMMA VerifyStep == ASSUME Inv, Inspect \/ Hash \/ Decide PROVE Inv'
  <1> USE DEF Inv
  <1>1. CASE Fail /\ UNCHANGED <<world, done>>
    BY <1>1, FailStep
  <1>2. CASE Inspect /\ ~Fail
    <2>1. /\ at = "inspect" /\ at' = "hash" /\ held' = [held EXCEPT !.seen = archive]
          /\ ~dir.failure /\ archive \in Sound /\ UNCHANGED <<world, dir, tags, done>>
      BY <1>2 DEF Inspect, Goto, NotFailed, Inspects
    <2>2. /\ DOMAIN held' = Fields /\ held'.then = held.then /\ held'.seen = archive
          /\ held'.registry = held.registry /\ held'.record = held.record
      BY <2>1 DEF Shapes, Fields
    <2>3. Shapes' /\ TypeOK' /\ SourceInv' /\ QualifyInv' /\ FailureInv'
      BY <2>1, <2>2, PublishFrame DEF Shapes, QualifyInv
    <2>4. LastLook' = LastLook /\ Publishing' = Publishing /\ Unrecorded' = Unrecorded
      BY <2>1, <2>2 DEF LastLook, Publishing, Unrecorded, Verifying, Writing
    <2>5. VerifyInv' /\ HeldInv'
      BY <2>1, <2>2, <2>4 DEF VerifyInv, HeldInv, Verifying, world
    <2>6. PublishInv'
      BY <2>1, <2>2, <2>4 DEF PublishInv, EnvFollowsPublication, Verifying, world
    <2>7. PublicationIsEarned' /\ VersionTagIsQualified'
      BY <2>1, SamePublication, SameVersionTag DEF world
    <2> QED BY <2>3, <2>5, <2>6, <2>7
  <1>3. CASE Hash /\ ~Fail
    <2>1. /\ at = "hash" /\ at' = "decide" /\ Matches
          /\ UNCHANGED <<world, dir, tags, held, done>>
      BY <1>3 DEF Hash, Goto
    <2>2. ~dir.failure /\ DOMAIN held' = Fields /\ held'.seen \in Sound
      BY <2>1 DEF FailureInv, VerifyInv, Shapes
    <2>3. Shapes' /\ TypeOK' /\ SourceInv' /\ QualifyInv' /\ FailureInv'
      BY <2>1, <2>2, PublishFrame DEF Shapes, QualifyInv
    <2>4. LastLook' = LastLook /\ Publishing' = Publishing /\ Unrecorded' = Unrecorded
      BY <2>1 DEF LastLook, Publishing, Unrecorded, Verifying, Writing
    <2>5. VerifyInv' /\ HeldInv'
      BY <2>1, <2>2, <2>4 DEF VerifyInv, HeldInv, Verifying, world, Matches, OfTheBuild
    <2>6. PublishInv'
      BY <2>1, <2>4 DEF PublishInv, EnvFollowsPublication, Verifying, world
    <2>7. PublicationIsEarned' /\ VersionTagIsQualified'
      BY <2>1, SamePublication, SameVersionTag DEF world
    <2> QED BY <2>3, <2>5, <2>6, <2>7
  <1>4. CASE Decide /\ ~Allowed
    BY <1>1, <1>4 DEF Decide
  <1>5. CASE Decide /\ Allowed
    <2>1. /\ at = "decide" /\ at' = held.then /\ UNCHANGED <<world, dir, tags>>
          /\ held' = IF held.then = "idle" THEN Nothing ELSE held
          /\ done' = IF held.then = "record" /\ held.registry = "real"
                       THEN [done EXCEPT !.judged =
                              [seen |-> held.seen, policy |-> policy, at |-> now]]
                       ELSE done
      BY <1>5 DEF Decide, Goto
    <2>2. held.then \in {"idle", "boot", "start", "record"} /\ at \in Verifying
      BY <2>1 DEF VerifyInv, Verifying
    <2>3. /\ dir.candidate # None /\ dir.candidate.digest = build
          /\ build \in done.smoked /\ ~dir.failure
      BY <1>5, <2>1, AllowedCandidate
    <2>4. CASE held.then = "idle"
      BY <2>1, <2>4, EndStep, NothingHeld DEF world, TypeOK
    <2>5. ASSUME held.then # "idle", DOMAIN done' = DOMAIN done, done'.smoked = done.smoked
          PROVE  Shapes' /\ TypeOK' /\ SourceInv' /\ QualifyInv' /\ FailureInv'
      BY <2>1, <2>2, <2>3, <2>5, PublishFrame DEF Shapes, TypeOK, Writing
    <2>6. CASE held.then \in {"boot", "start"}
      <3>1. /\ at' = held.then /\ UNCHANGED <<world, dir, tags, held, done>>
        BY <2>1, <2>6
      <3>2. Shapes' /\ TypeOK' /\ SourceInv' /\ QualifyInv' /\ FailureInv'
        BY <2>5, <2>6, <3>1
      <3>3. VerifyInv' /\ HeldInv'
        BY <2>3, <2>6, <3>1 DEF VerifyInv, HeldInv, Verifying, Writing, Publishing, LastLook,
                                world
      <3>4. PublishInv'
        BY <2>1, <2>2, <2>6, <3>1
           DEF PublishInv, EnvFollowsPublication, Verifying, Writing, Publishing, LastLook,
               Unrecorded
      <3>5. PublicationIsEarned' /\ VersionTagIsQualified'
        BY <3>1, SamePublication, SameVersionTag DEF world
      <3> QED BY <3>2, <3>3, <3>4, <3>5
    <2>7. CASE held.then = "record"
      <3>1. /\ at' = "record" /\ UNCHANGED <<world, dir, tags, held>>
            /\ LastLook /\ Publishing /\ Unrecorded
        BY <2>1, <2>2, <2>7 DEF LastLook, Publishing, Unrecorded
      <3>2. held.registry \in {"real", "loopback"}
        BY <3>1 DEF PublishInv
      <3>3. PICK last : last = [seen |-> held.seen, policy |-> policy, at |-> now]
        OBVIOUS
      <3>4. last.seen = held.seen /\ last.policy = policy /\ last.at = now
        BY <3>3
      <3>5. /\ DOMAIN done' = DOMAIN done /\ done'.smoked = done.smoked
            /\ done'.rehearsed = done.rehearsed /\ done'.back = done.back
            /\ held.registry = "real" => done'.judged = last
            /\ held.registry = "loopback" => done' = done
        BY <2>1, <2>7, <3>2, <3>3 DEF Shapes
      <3>6. Shapes' /\ TypeOK' /\ SourceInv' /\ QualifyInv' /\ FailureInv'
        BY <2>5, <2>7, <3>5
      <3>7. VerifyInv' /\ HeldInv'
        BY <3>1, <3>5 DEF VerifyInv, HeldInv, Verifying, Writing, Publishing, LastLook, world
      <3>8. held.registry = "real" => Judged'
        BY <1>5, <2>1, <3>1, <3>4, <3>5, AllowedCandidate DEF Judged, world
      <3>9. PublishInv'
        BY <3>1, <3>2, <3>5, <3>8
           DEF PublishInv, EnvFollowsPublication, Verifying, Writing, Publishing, LastLook,
               Unrecorded, world
      <3>10. VersionTagIsQualified'
        BY <3>1, <3>5, SameVersionTag DEF world
      <3>11. PublicationIsEarned'
        <4>1. CASE held.registry = "real"
          BY <3>1, <4>1 DEF PublishInv, PublicationIsEarned
        <4>2. CASE held.registry = "loopback"
          BY <3>1, <3>5, <4>2, SamePublication
        <4> QED BY <3>2, <4>1, <4>2
      <3> QED BY <3>6, <3>7, <3>9, <3>10, <3>11
    <2> QED BY <2>2, <2>4, <2>6, <2>7
  <1> QED BY <1>1, <1>2, <1>3, <1>4, <1>5 DEF Inspect, Hash

\* The step before the first write to a registry.
LEMMA StartStep == ASSUME Inv, Start PROVE Inv'
  <1> USE DEF Inv
  <1>1. CASE Fail /\ UNCHANGED <<world, done>>
    BY <1>1, FailStep
  <1>2. CASE Start /\ ~Fail
    <2>1. /\ at = "start" /\ at' = "import" /\ UNCHANGED <<world, dir, tags, done>>
          /\ held' = [held EXCEPT !.record = dir.candidate]
          /\ (held.registry = "real" => Rehearsed)
      BY <1>2 DEF Start, Goto
    <2>2. /\ held'.registry = held.registry /\ held'.record = dir.candidate
          /\ held'.seen = held.seen /\ DOMAIN held' = Fields
      BY <2>1 DEF Shapes, Fields
    <2>3. /\ dir.candidate # None /\ dir.candidate.digest = build
          /\ build \in done.smoked /\ ~dir.failure /\ Unrecorded
      BY <2>1 DEF VerifyInv, FailureInv, Unrecorded
    <2>4. held.registry = "real" =>
             [digest |-> build, archive |-> dir.candidate.archive] \in done.rehearsed
      BY <2>1, <2>3 DEF Rehearsed, HeldInv
    <2>5. Shapes' /\ TypeOK' /\ SourceInv' /\ QualifyInv' /\ FailureInv'
      BY <2>1, <2>2, <2>3, PublishFrame DEF Shapes, Writing, TypeOK
    <2>6. VerifyInv' /\ HeldInv'
      BY <2>1, <2>2, <2>3, <2>4 DEF VerifyInv, HeldInv, Verifying, world
    <2>7. PublishInv'
      BY <2>1, <2>2, <2>3 DEF PublishInv, EnvFollowsPublication, Verifying, Writing,
                              Publishing, LastLook, Unrecorded
    <2>8. PublicationIsEarned' /\ VersionTagIsQualified'
      BY <2>1, SamePublication, SameVersionTag DEF world
    <2> QED BY <2>5, <2>6, <2>7, <2>8
  <1> QED BY <1>1, <1>2 DEF Start

\* A step of a publishing command that writes no file and no record of its own.
LEMMA TagFrame ==
    ASSUME Inv, at \in Writing,
           at' \in Writing \/ (at' = "inspect" /\ held'.then = "record"), at' # "env",
           UNCHANGED <<world, dir>>, DOMAIN held' = Fields, held'.seen = held.seen,
           held'.registry = held.registry, held'.record = held.record,
           DOMAIN tags' = DOMAIN tags,
           held.registry = "loopback" => tags'.real = tags.real,
           held.registry = "real" =>
              /\ Unrecorded
              /\ tags'.real = [commit |-> tags'.real.commit, version |-> tags'.real.version]
              /\ tags'.real.version \in {tags.real.version, build},
           DOMAIN done' = DOMAIN done, done'.smoked = done.smoked,
           done'.rehearsed = done.rehearsed, done'.judged = done.judged,
           held.registry = "loopback" => done'.back = done.back
    PROVE  /\ Shapes' /\ TypeOK' /\ SourceInv' /\ QualifyInv' /\ FailureInv'
           /\ VerifyInv' /\ HeldInv'
           /\ PublicationIsEarned' /\ VersionTagIsQualified' /\ EnvFollowsPublication'
           /\ ~dir.failure /\ held.record.digest = build
           /\ held.registry \in {"real", "loopback"}
  <1> USE DEF Inv
  <1>1. /\ held.registry \in {"real", "loopback"} /\ ~dir.failure
        /\ held.record.digest = build /\ build \in done.smoked
        /\ held.registry = "real" =>
             [digest |-> build, archive |-> held.record.archive] \in done.rehearsed
    BY DEF PublishInv, HeldInv, FailureInv, Writing, Publishing
  <1>2. tags'.real = [commit |-> tags'.real.commit, version |-> tags'.real.version]
    BY <1>1 DEF Shapes
  <1>3. Shapes' /\ TypeOK' /\ SourceInv' /\ QualifyInv' /\ FailureInv'
    BY <1>1, <1>2, PublishFrame DEF Shapes, QualifyInv, TypeOK
  <1>4. VerifyInv' /\ HeldInv' /\ EnvFollowsPublication'
    BY <1>1 DEF VerifyInv, HeldInv, PublishInv, EnvFollowsPublication, Publishing, Verifying,
                Writing, world
  <1>5. PublicationIsEarned'
    <2>1. CASE held.registry = "loopback"
      BY <2>1, SamePublication
    <2>2. CASE held.registry = "real"
      BY <2>2 DEF PublishInv, PublicationIsEarned
    <2> QED BY <1>1, <2>1, <2>2
  <1>6. VersionTagIsQualified'
    <2>1. CASE held.registry = "loopback"
      BY <2>1, SameVersionTag DEF world
    <2>2. CASE held.registry = "real"
      <3>1. PICK r : r \in done.rehearsed /\ r.digest = build
        BY <1>1, <2>2
      <3> QED BY <1>1, <2>2, <3>1 DEF VersionTagIsQualified, world
    <2> QED BY <1>1, <2>1, <2>2
  <1> QED BY <1>1, <1>3, <1>4, <1>5, <1>6

\* The steps that write to a registry and check what it holds.
LEMMA TagStep ==
    ASSUME Inv,
           \/ \E s \in {DigestOf[a] : a \in Archives} \cup {"converted"} : Import(s)
           \/ Check("check", "commit", "copy") \/ Copy
           \/ Check("recheck", "version", "return")
           \/ \E l \in UNION {DOMAIN Returned[d] : d \in DOMAIN Returned} : RoundTrip(l)
    PROVE  Inv'
  <1> USE DEF Inv
  <1>1. CASE Fail /\ UNCHANGED <<world, done>>
    BY <1>1, FailStep
  <1>2. ASSUME at \in Writing
        PROVE  /\ held.registry \in {"real", "loopback"} /\ held.registry \in DOMAIN tags
               /\ DOMAIN held = Fields
    BY <1>2 DEF PublishInv, Shapes, Publishing
  <1>3. CASE \E s \in {DigestOf[a] : a \in Archives} \cup {"converted"} : Import(s)
    <2>1. PICK s : Import(s)
      BY <1>3
    <2>2. PICK tag : tag = [commit |-> s, version |-> tags[held.registry].version]
      OBVIOUS
    <2>3. /\ at = "import" /\ at' = "check" /\ UNCHANGED <<world, dir, held, done>>
          /\ tags' = [tags EXCEPT ![held.registry] = tag]
      BY <2>1, <2>2 DEF Import, Goto
    <2>4. at \in Writing /\ at' \in Writing /\ Unrecorded
      BY <2>3 DEF Writing, Unrecorded
    <2>5. /\ DOMAIN tags' = DOMAIN tags
          /\ held.registry = "loopback" => tags'.real = tags.real
          /\ held.registry = "real" => tags'.real = tag
      BY <1>2, <2>3, <2>4 DEF Shapes
    <2>6. tag = [commit |-> tag.commit, version |-> tag.version]
      BY <2>2
    <2>7. held.registry = "real" => tag.version = tags.real.version
      BY <2>2
    <2>8. /\ Shapes' /\ TypeOK' /\ SourceInv' /\ QualifyInv' /\ FailureInv' /\ VerifyInv'
          /\ HeldInv' /\ PublicationIsEarned' /\ VersionTagIsQualified'
          /\ EnvFollowsPublication'
      BY <1>2, <2>3, <2>4, <2>5, <2>6, <2>7, TagFrame
    <2>9. PublishInv'
      BY <1>2, <2>3, <2>4, <2>8 DEF PublishInv, Verifying, Writing, Publishing, LastLook,
                                    Unrecorded
    <2> QED BY <2>8, <2>9
  <1>4. CASE Copy
    <2>1. PICK tag : tag = [commit |-> tags[held.registry].commit,
                            version |-> held.record.digest]
      OBVIOUS
    <2>2. /\ at = "copy" /\ at' = "recheck" /\ UNCHANGED <<world, dir, held, done>>
          /\ tags' = [tags EXCEPT ![held.registry] = tag]
      BY <1>4, <2>1 DEF Copy, Goto
    <2>3. at \in Writing /\ at' \in Writing /\ Unrecorded /\ Publishing
      BY <2>2 DEF Writing, Unrecorded, Publishing
    <2>4. /\ DOMAIN tags' = DOMAIN tags /\ tags'[held.registry] = tag
          /\ held.registry = "loopback" => tags'.real = tags.real
          /\ held.registry = "real" => tags'.real = tag
      BY <1>2, <2>2, <2>3 DEF Shapes
    <2>5. tag = [commit |-> tag.commit, version |-> tag.version] /\ tag.version = build
      BY <2>1, <2>3 DEF HeldInv
    <2>6. tag.commit = build
      BY <2>1, <2>2 DEF PublishInv
    <2>7. /\ Shapes' /\ TypeOK' /\ SourceInv' /\ QualifyInv' /\ FailureInv' /\ VerifyInv'
          /\ HeldInv' /\ PublicationIsEarned' /\ VersionTagIsQualified'
          /\ EnvFollowsPublication'
      BY <1>2, <2>2, <2>3, <2>4, <2>5, TagFrame
    <2>8. PublishInv'
      BY <1>2, <2>2, <2>3, <2>4, <2>6, <2>7
         DEF PublishInv, Verifying, Writing, Publishing, LastLook, Unrecorded, world
    <2> QED BY <2>7, <2>8
  <1>5. CASE (Check("check", "commit", "copy") \/ Check("recheck", "version", "return"))
               /\ ~Fail
    <2>1. /\ \/ at = "check" /\ at' = "copy" /\ TagHolds("commit")
             \/ at = "recheck" /\ at' = "return" /\ TagHolds("version")
          /\ UNCHANGED <<world, dir, tags, held, done>>
      BY <1>5 DEF Check, Goto
    <2>2. at \in Writing /\ at' \in Writing /\ Unrecorded /\ at' # "env"
      BY <2>1 DEF Writing, Unrecorded
    <2>3. /\ Shapes' /\ TypeOK' /\ SourceInv' /\ QualifyInv' /\ FailureInv' /\ VerifyInv'
          /\ HeldInv' /\ PublicationIsEarned' /\ VersionTagIsQualified'
          /\ EnvFollowsPublication' /\ held.record.digest = build
      BY <1>2, <2>1, <2>2, TagFrame DEF Shapes
    <2>4. at = "check" => tags[held.registry].commit = build
      BY <2>1, <2>3 DEF TagHolds
    <2>5. at = "recheck" => tags[held.registry].version = build
      BY <2>1, <2>3 DEF TagHolds
    <2>6. PublishInv'
      BY <1>2, <2>1, <2>2, <2>3, <2>4, <2>5
         DEF PublishInv, Verifying, Writing, Publishing, LastLook, Unrecorded, world
    <2> QED BY <2>3, <2>6
  <1>6. CASE /\ \E l \in UNION {DOMAIN Returned[d] : d \in DOMAIN Returned} : RoundTrip(l)
             /\ ~Fail
    <2>1. PICK l : RoundTrip(l)
      BY <1>6
    <2>2. /\ at = "return" /\ at' = "inspect" /\ UNCHANGED <<world, dir, tags>>
          /\ held' = [held EXCEPT !.then = "record"]
          /\ l \in DOMAIN Returned[held.record.digest]
          /\ Inspected(Returned[held.record.digest][l], held.record.digest)
          /\ done' = IF held.registry = "real" THEN [done EXCEPT !.back = l] ELSE done
      BY <1>6, <2>1 DEF RoundTrip, Verifies, Goto
    <2>3. at \in Writing /\ Unrecorded
      BY <2>2 DEF Writing, Unrecorded
    <2>4. /\ DOMAIN held' = Fields /\ held'.seen = held.seen /\ held'.then = "record"
          /\ held'.registry = held.registry /\ held'.record = held.record
      BY <2>2 DEF Shapes, Fields
    <2>5. /\ DOMAIN done' = DOMAIN done /\ done'.smoked = done.smoked
          /\ done'.rehearsed = done.rehearsed /\ done'.judged = done.judged
          /\ held.registry = "loopback" => done'.back = done.back
          /\ held.registry = "real" => done'.back = l
      BY <2>2 DEF Shapes
    <2>6. /\ Shapes' /\ TypeOK' /\ SourceInv' /\ QualifyInv' /\ FailureInv' /\ VerifyInv'
          /\ HeldInv' /\ PublicationIsEarned' /\ VersionTagIsQualified'
          /\ EnvFollowsPublication' /\ held.record.digest = build
      BY <2>2, <2>3, <2>4, <2>5, TagFrame DEF Shapes
    <2>7. PublishInv'
      BY <1>2, <2>2, <2>3, <2>4, <2>5, <2>6
         DEF PublishInv, Verifying, Writing, Publishing, LastLook, Unrecorded, world
    <2> QED BY <2>6, <2>7
  <1>7. CASE /\ \E l \in UNION {DOMAIN Returned[d] : d \in DOMAIN Returned} : RoundTrip(l)
             /\ Fail
    <2>1. PICK l : RoundTrip(l)
      BY <1>7
    <2>2. UNCHANGED <<world, done>>
      BY <1>7, <2>1 DEF RoundTrip, Fail, Verifies, Goto
    <2> QED BY <1>1, <1>7, <2>2
  <1>8. CASE (Check("check", "commit", "copy") \/ Check("recheck", "version", "return"))
               /\ Fail
    BY <1>1, <1>8 DEF Check
  <1> QED BY <1>3, <1>4, <1>5, <1>6, <1>7, <1>8

\* Everything the record of a publication claims has been checked by then.
LEMMA RecordStep == ASSUME Inv, Record PROVE Inv'
  <1> USE DEF Inv
  <1>1. at = "record" /\ UNCHANGED <<world, tags, held>> /\ DOMAIN held' = Fields
    BY DEF Record, Shapes
  <1>2. at \in Writing /\ Unrecorded /\ Publishing /\ ~dir.failure
    BY <1>1 DEF Writing, Unrecorded, Publishing, FailureInv
  <1>3. /\ dir.candidate # None /\ held.record = dir.candidate
        /\ held.record.digest = build /\ build \in done.smoked
        /\ held.registry \in {"real", "loopback"}
    BY <1>2 DEF HeldInv, PublishInv
  <1>4. PICK entry : entry = Entry
    OBVIOUS
  <1>5. entry # None /\ entry.digest = build /\ entry.archive = held.record.archive
    BY <1>3, <1>4 DEF Entry, None
  <1>6. CASE held.registry = "real"
    <2>1. /\ at' = "env" /\ done' = done /\ dir' = [dir EXCEPT !.publication = entry]
      BY <1>4, <1>6 DEF Record, Goto
    <2>2. /\ DOMAIN dir' = Files /\ dir'.publication = entry
          /\ \A f \in Files \ {"publication"} : dir'[f] = dir[f]
      BY <2>1 DEF Shapes, Files
    <2>3. /\ dir'.source = dir.source /\ dir'.smoke = dir.smoke /\ dir'.report = dir.report
          /\ dir'.candidate = dir.candidate /\ dir'.failure = dir.failure
          /\ dir'.env = dir.env /\ dir'.rehearsal = dir.rehearsal
      BY <2>2 DEF Files
    <2>4. Shapes' /\ TypeOK' /\ SourceInv' /\ QualifyInv' /\ FailureInv'
      BY <1>1, <1>2, <1>3, <2>1, <2>2, <2>3, PublishFrame DEF Shapes, Writing, TypeOK
    <2>5. VerifyInv' /\ HeldInv'
      BY <1>1, <1>2, <2>1, <2>3 DEF VerifyInv, HeldInv, Verifying, Publishing, world
    <2>6. /\ dir.env = None /\ tags.real.commit = build /\ tags.real.version = build
          /\ done.back \in DOMAIN Returned[build]
          /\ Inspected(Returned[build][done.back], build)
          /\ [digest |-> build, archive |-> held.record.archive] \in done.rehearsed
          /\ Judged
      BY <1>1, <1>2, <1>6 DEF PublishInv, HeldInv
    <2>7. PublishInv'
      BY <1>1, <1>3, <1>5, <1>6, <2>1, <2>2, <2>3, <2>6
         DEF PublishInv, EnvFollowsPublication, Verifying, Writing, Publishing, LastLook,
             Unrecorded
    <2>8. VersionTagIsQualified'
      BY <1>1, <2>1, SameVersionTag DEF world
    <2>9. PublicationIsEarned'
      <3>1. tags.real = [commit |-> build, version |-> build]
        BY <2>6 DEF Shapes
      <3>2. PICK last : last = done.judged
        OBVIOUS
      <3>3. /\ last.seen \in Sound /\ DigestOf[last.seen] = build
            /\ last.at - dir.candidate.scanned <= Fresh
            /\ dir.report.artifact = ImageId(build)
            /\ \A f \in Findings(dir.report) :
                  f.severity = "CRITICAL" => Scope(f) \in Rules(last.policy)
        BY <2>6, <3>2 DEF Judged
      <3>4. Whole(Content[last.seen], build) /\ AboutTheImage(build)
        <4>1. /\ IsSequence(Content[last.seen].roots) /\ last.seen \in Archives
              /\ Inspected(Content[last.seen], Absent)
          BY <3>3, CatalogAssumption DEF Sound
        <4>2. Selected(Content[last.seen], Absent) = Content[last.seen].roots[1]
          BY <4>1, SelectedRoot DEF Inspected
        <4>3. Selected(Content[last.seen], Absent).digest = build
          BY <3>3, <4>1, <4>2 DEF DigestOf
        <4> QED BY <4>1, <4>3, AcceptedIsWhole
      <3>5. Whole(Returned[build][done.back], build)
        <4>1. IsSequence(Returned[build][done.back].roots) /\ build # Absent
          BY <2>6, BuildIsDigest
        <4>2. Selected(Returned[build][done.back], build).digest = build
          BY <2>6, <4>1, SelectedRoot DEF Inspected
        <4> QED BY <2>6, <4>1, <4>2, AcceptedIsWhole
      <3>6. [digest |-> entry.digest, archive |-> entry.archive] \in done.rehearsed
        BY <1>5, <2>6
      <3> QED BY <1>1, <1>3, <1>5, <2>1, <2>2, <2>3, <3>1, <3>2, <3>3, <3>4, <3>5, <3>6
          DEF PublicationIsEarned, world
    <2> QED BY <2>4, <2>5, <2>7, <2>8, <2>9
  <1>7. CASE held.registry = "loopback"
    <2>1. PICK rehearsed : rehearsed = [digest |-> tags.loopback.version,
                                        archive |-> held.record.archive]
      OBVIOUS
    <2>2. /\ at' = "remove" /\ dir' = [dir EXCEPT !.rehearsal = entry]
          /\ done' = [done EXCEPT !.rehearsed = done.rehearsed \cup {rehearsed}]
      BY <1>4, <1>7, <2>1 DEF Record, Goto
    <2>3. /\ DOMAIN dir' = Files /\ dir'.rehearsal = entry
          /\ \A f \in Files \ {"rehearsal"} : dir'[f] = dir[f]
      BY <2>2 DEF Shapes, Files
    <2>4. /\ dir'.source = dir.source /\ dir'.smoke = dir.smoke /\ dir'.report = dir.report
          /\ dir'.candidate = dir.candidate /\ dir'.failure = dir.failure
          /\ dir'.env = dir.env /\ dir'.publication = dir.publication
      BY <2>3 DEF Files
    <2>5. /\ DOMAIN done' = DOMAIN done /\ done'.smoked = done.smoked
          /\ done'.rehearsed = done.rehearsed \cup {rehearsed} /\ done'.back = done.back
          /\ done'.judged = done.judged
      BY <2>2 DEF Shapes
    <2>6. [digest |-> entry.digest, archive |-> entry.archive] = rehearsed
      <3>1. tags.loopback.version = build
        BY <1>1, <1>7 DEF PublishInv
      <3> QED BY <1>5, <2>1, <3>1
    <2>7. Shapes' /\ TypeOK' /\ SourceInv' /\ QualifyInv' /\ FailureInv'
      BY <1>1, <1>2, <1>3, <2>2, <2>3, <2>4, <2>5, PublishFrame DEF Shapes, Writing, TypeOK
    <2>8. VerifyInv' /\ HeldInv'
      BY <1>1, <1>2, <1>7, <2>2, <2>3, <2>4, <2>5, <2>6
         DEF VerifyInv, HeldInv, Verifying, Publishing, world
    <2>9. PublishInv'
      BY <1>1, <1>7, <2>2, <2>4 DEF PublishInv, EnvFollowsPublication, Verifying, Writing,
                                    Publishing, LastLook, Unrecorded
    <2>10. PublicationIsEarned' /\ VersionTagIsQualified'
      BY <1>1, <2>4, <2>5, SamePublication, SameVersionTag DEF world
    <2> QED BY <2>7, <2>8, <2>9, <2>10
  <1> QED BY <1>3, <1>6, <1>7

LEMMA EnvStep == ASSUME Inv, WriteEnv PROVE Inv'
  <1> USE DEF Inv
  <1>1. PICK x : x = [digest |-> held.record.digest]
    OBVIOUS
  <1>2. /\ at = "env" /\ at' = "output" /\ UNCHANGED <<world, tags, held, done>>
        /\ dir' = [dir EXCEPT !.env = x] /\ x.digest = held.record.digest
    BY <1>1 DEF WriteEnv, Goto
  <1>3. at \in Writing /\ at' \in Writing /\ ~dir.failure /\ Publishing
    BY <1>2 DEF Writing, FailureInv, Publishing
  <1>4. /\ DOMAIN dir' = Files /\ dir'.env = x
        /\ \A f \in Files \ {"env"} : dir'[f] = dir[f]
    BY <1>2 DEF Shapes, Files
  <1>5. /\ dir'.source = dir.source /\ dir'.smoke = dir.smoke /\ dir'.report = dir.report
        /\ dir'.candidate = dir.candidate /\ dir'.failure = dir.failure
        /\ dir'.rehearsal = dir.rehearsal /\ dir'.publication = dir.publication
    BY <1>4 DEF Files
  <1>6. Shapes' /\ TypeOK' /\ SourceInv' /\ QualifyInv' /\ FailureInv'
    BY <1>2, <1>3, <1>4, <1>5, PublishFrame DEF Shapes, QualifyInv, TypeOK
  <1>7. VerifyInv' /\ HeldInv'
    BY <1>2, <1>3, <1>5 DEF VerifyInv, HeldInv, Verifying, Publishing, world
  <1>8. PublishInv'
    BY <1>2, <1>3, <1>4, <1>5 DEF PublishInv, EnvFollowsPublication, Verifying, Writing,
                                  Publishing, LastLook, Unrecorded
  <1>9. PublicationIsEarned' /\ VersionTagIsQualified'
    BY <1>2, <1>5, SamePublication, SameVersionTag DEF world
  <1> QED BY <1>6, <1>7, <1>8, <1>9

-----------------------------------------------------------------------------
(* The theorems. *)
LEMMA InductiveStep == Inv /\ [Next]_vars => Inv'
  <1> SUFFICES ASSUME Inv, [Next]_vars PROVE Inv'
    OBVIOUS
  <1>1. CASE \/ \E a \in Archives : Exchange(a)
             \/ \E p \in Policies : EditPolicy(p)
             \/ Tick
    BY <1>1, SurroundingsStep
  <1>2. CASE CiStarts \/ \E r \in Outcomes : CiEnds(r)
    BY <1>2, CiStep
  <1>3. CASE SelectSource \/ SelectFails
    BY <1>3, SelectStep
  <1>4. CASE \/ QualifyBegins \/ Digest \/ Load \/ TestImage \/ Gate \/ Bind
             \/ \E r \in UNION {Reports[d] : d \in DOMAIN Reports} : Scan(r)
    BY <1>4, QualifyStep
  <1>5. CASE VerifyBegins \/ RehearsalBegins \/ Boot \/ PublishBegins \/ Unlink
    BY <1>5, BeginStep
  <1>6. CASE \/ \E s \in {DigestOf[a] : a \in Archives} \cup {"converted"} : Import(s)
             \/ Check("check", "commit", "copy") \/ Copy
             \/ Check("recheck", "version", "return")
             \/ \E l \in UNION {DOMAIN Returned[d] : d \in DOMAIN Returned} : RoundTrip(l)
    BY <1>6, TagStep
  <1>7. CASE Record
    BY <1>7, RecordStep
  <1>8. CASE WriteEnv
    BY <1>8, EnvStep
  <1>9. CASE ToolFails
    BY <1>9, FailStep DEF ToolFails
  <1>10. CASE Inspect \/ Hash \/ Decide \/ Start
    BY <1>10, VerifyStep, StartStep
  <1>11. CASE Killed
    <2>1. trouble' \in 0 .. MaxTrouble
      BY <1>11, ReleaseAssumption DEF Killed, Inv, TypeOK
    <2> QED BY <1>11, <2>1, EndStep, NothingHeld DEF Killed
  <1>12. CASE WriteOutput \/ RemoveRegistry
    BY <1>12, EndStep, NothingHeld DEF WriteOutput, RemoveRegistry, Goto, world, Inv, TypeOK
  <1>13. CASE UNCHANGED vars
    <2> USE <1>13 DEF vars, Inv
    <2>1. Shapes' /\ TypeOK' /\ SourceInv' /\ QualifyInv' /\ VerifyInv' /\ HeldInv' /\ FailureInv'
      BY DEF Shapes, TypeOK, SourceInv, QualifyInv, VerifyInv, HeldInv, FailureInv,
             Publishing, LastLook
    <2>2. PublishInv' /\ PublicationIsEarned' /\ VersionTagIsQualified'
      BY SamePublishing, SamePublication, SameVersionTag
    <2> QED BY <2>1, <2>2
  <1> QED BY <1>1, <1>2, <1>3, <1>4, <1>5, <1>6, <1>7, <1>8, <1>9, <1>10, <1>11, <1>12,
             <1>13 DEF Next

\* Every reachable state satisfies the inductive invariant, whatever is
\* exchanged, killed or repeated.
THEOREM Invariance == Spec => []Inv
  <1>1. Init => Inv
    BY Initial
  <1>2. Inv /\ [Next]_vars => Inv'
    BY InductiveStep
  <1> QED BY <1>1, <1>2, PTL DEF Spec

\* Nothing is selected, tagged or recorded that was not earned: ci_gate.py
\* 27-35, release_candidate.py's verify before every write, and the checks of
\* release_publish.py between the tags, for any archive, report and layout.
THEOREM EarnedRelease == Spec => []ReleaseIsEarned
  <1>1. Inv => SourceIsGreen
    BY DEF Inv, SourceInv, SourceIsGreen, GateAllows
  <1>2. Inv => ReleaseIsEarned
    BY <1>1 DEF Inv, ReleaseIsEarned
  <1> QED BY <1>2, Invariance, PTL

\* release-image.env, which a deployment reads, follows from the record of its
\* publication in every state, and failure.json is final: with it no step
\* writes a tag of the real registry, a record or an env file again
\* (release_publish.py 203-213, 306-307, release_candidate.py's verify).
THEOREM ConsistentEvidence == Spec => EvidenceIsConsistent
  <1> DEFINE Kept == dir.failure => /\ tags'.real = tags.real
                                    /\ dir'.publication \in {dir.publication, None}
                                    /\ dir'.env \in {dir.env, None}
  <1>1. Inv => EnvFollowsPublication
    BY DEF Inv, PublishInv
  <1>2. Inv /\ [Next]_vars => [Kept]_vars
    <2> SUFFICES ASSUME Inv, Next, dir.failure
                 PROVE  /\ tags'.real = tags.real
                        /\ dir'.publication \in {dir.publication, None}
                        /\ dir'.env \in {dir.env, None}
      OBVIOUS
    <2>1. at \in {"idle", "unlink", "inspect"} /\ ~NotFailed
      BY DEF Inv, FailureInv, NotFailed
    <2>2. DOMAIN dir = Files /\ DOMAIN tags = {"real", "loopback"}
      BY DEF Inv, Shapes
    <2>3. CASE UNCHANGED <<dir, tags>>
      BY <2>3
    <2>4. CASE Fail
      BY <2>2, <2>4 DEF Fail, Files
    <2>5. CASE SelectSource \/ SelectFails
      BY <2>2, <2>5 DEF SelectSource, SelectFails, Files
    <2>6. CASE PublishBegins \/ Unlink
      BY <2>2, <2>6 DEF PublishBegins, Unlink, FirstUnlinked, Files
    <2>7. \/ UNCHANGED <<dir, tags>> \/ Fail \/ SelectSource \/ SelectFails
          \/ PublishBegins \/ Unlink
      <3>1. CASE \/ CiStarts \/ (\E r \in Outcomes : CiEnds(r)) \/ Killed
                 \/ (\E a \in Archives : Exchange(a)) \/ (\E p \in Policies : EditPolicy(p))
                 \/ Tick
        BY <3>1 DEF CiStarts, CiEnds, Killed, Exchange, EditPolicy, Tick
      <3>2. CASE \/ ToolFails \/ QualifyBegins \/ VerifyBegins \/ Inspect \/ Hash \/ Decide
                 \/ RehearsalBegins \/ Boot \/ Start
        BY <2>1, <3>2 DEF ToolFails, QualifyBegins, VerifyBegins, Inspect, Hash, Decide,
                          RehearsalBegins, Boot, Start
      <3>3. CASE \/ Digest \/ Load \/ TestImage \/ Gate \/ Bind
                 \/ \E r \in UNION {Reports[d] : d \in DOMAIN Reports} : Scan(r)
        BY <2>1, <3>3 DEF Digest, Load, TestImage, Gate, Bind, Scan
      <3>4. CASE \/ \E s \in {DigestOf[a] : a \in Archives} \cup {"converted"} : Import(s)
                 \/ Check("check", "commit", "copy") \/ Copy
                 \/ Check("recheck", "version", "return")
                 \/ \E l \in UNION {DOMAIN Returned[d] : d \in DOMAIN Returned} : RoundTrip(l)
        BY <2>1, <3>4 DEF Import, Check, Copy, RoundTrip
      <3>5. CASE Record \/ WriteEnv \/ WriteOutput \/ RemoveRegistry
        BY <2>1, <3>5 DEF Record, WriteEnv, WriteOutput, RemoveRegistry
      <3> QED BY <3>1, <3>2, <3>3, <3>4, <3>5 DEF Next
    <2> QED BY <2>3, <2>4, <2>5, <2>6, <2>7
  <1>3. []Inv /\ [][Next]_vars => [][Kept]_vars
    BY <1>2, PTL
  <1>4. Spec => []EnvFollowsPublication
    BY <1>1, Invariance, PTL
  <1>5. Spec => FailureIsFinal
    BY <1>3, Invariance, PTL DEF Spec, FailureIsFinal
  <1> QED BY <1>4, <1>5, PTL DEF EvidenceIsConsistent

=============================================================================
