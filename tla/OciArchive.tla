----------------------------- MODULE OciArchive -----------------------------
(***************************************************************************)
(* release_oci.inspect: what an OCI archive must be to be accepted.  An    *)
(* archive is a set of blobs, each stored under a digest that may or may   *)
(* not be the digest of its body, and a catalog of root descriptors;       *)
(* documents refer to each other by descriptors.  A digest names a body,   *)
(* so Doc gives the document of each digest once for all.                  *)
(***************************************************************************)
EXTENDS Naturals, Sequences, FiniteSets, SequencesExt

CONSTANTS Absent,     \* a field or a descriptor that is not there
          Doc,        \* digest -> document
          Source,     \* the selected source, as labels and provenance name it
          Packages    \* requirements.txt, which the inventory must list

IsSequence(s) == s \in Seq(ToSet(s))

\* Variant: a blob is as good as its name.
IntactByName(a, d) == d.digest \in DOMAIN a.stored \/ d.inline # Absent

\* blob() returns: the member has the size and the hash of the descriptor;
\* what is not a member may be inline.
Intact(a, d) ==
    IF d.digest \in DOMAIN a.stored
      THEN a.stored[d.digest] = [body |-> d.digest, size |-> d.size]
      ELSE d.inline = [body |-> d.digest, size |-> d.size]

Catalogued(a, expected) == {i \in DOMAIN a.roots : a.roots[i].digest = expected}

\* Variant: the first entry of the catalog is the candidate.
SelectedFirst(a, expected) == IF a.roots = <<>> THEN Absent ELSE a.roots[1]

\* The single root, or, when a digest is expected, its first descriptor; a
\* registry's layout may list more than the candidate.
Selected(a, expected) ==
    LET found == Catalogued(a, expected) IN
    CASE expected = Absent /\ Len(a.roots) = 1 -> a.roots[1]
      [] /\ expected # Absent /\ found # {}
         /\ \A i, j \in found : /\ a.roots[i].size = a.roots[j].size
                               /\ a.roots[i].mediaType = a.roots[j].mediaType
           -> a.roots[CHOOSE i \in found : \A j \in found : i <= j]
      [] OTHER -> Absent

Entries(root) == Doc[root.digest].manifests

\* The places of the linux/amd64 runtimes, and of everything else.
Runtimes(root) ==
    {i \in DOMAIN Entries(root) : Entries(root)[i].platform = "linux/amd64"}
Others(root) == DOMAIN Entries(root) \ Runtimes(root)

\* The runtime's manifest, its config, whose labels name the source, and its
\* layers.
RuntimeOk(a, runtime) ==
    /\ Intact(a, runtime) /\ Intact(a, Doc[runtime.digest].config)
    /\ Doc[Doc[runtime.digest].config.digest].source = Source
    /\ \A layer \in ToSet(Doc[runtime.digest].layers) : Intact(a, layer)

Bindings(entry) == {entry.reference, Doc[entry.digest].subject} \ {Absent}

\* Variant: one binding is enough.
BoundSomehow(entry, runtime) == runtime.digest \in Bindings(entry)

\* Annotation and subject: at least one is there, and neither says otherwise.
BoundTo(entry, runtime) == Bindings(entry) = {runtime.digest}

\* A layer of an attestation: it says what it is annotated with, and speaks
\* of no other subject.
StatementOk(a, layer, runtime) ==
    /\ Intact(a, layer)
    /\ layer.predicate = Doc[layer.digest].predicate
    /\ layer.predicate \in {"sbom", "provenance"}
    /\ Doc[layer.digest].subjects \subseteq {runtime.digest}

AttestationOk(a, entry, runtime) ==
    /\ Intact(a, entry) /\ BoundTo(entry, runtime) /\ entry.attests
    /\ Intact(a, Doc[entry.digest].config)
    /\ \A layer \in ToSet(Doc[entry.digest].layers) : StatementOk(a, layer, runtime)

\* The statements of the attestations, by entry and layer, and what one says.
Statements(root) ==
    UNION {{i} \X DOMAIN Doc[Entries(root)[i].digest].layers : i \in Others(root)}
Said(root, s) == Doc[Doc[Entries(root)[s[1]].digest].layers[s[2]].digest]

\* One of each kind; the inventory lists the packages, the provenance names
\* the source.
EvidenceOk(root) ==
    LET all == Statements(root) IN
    /\ Cardinality(all) = 2
    /\ {Said(root, s).predicate : s \in all} = {"sbom", "provenance"}
    /\ \A s \in all :
          /\ Said(root, s).predicate = "sbom" => Packages \subseteq Said(root, s).packages
          /\ Said(root, s).predicate = "provenance" => Source \in Said(root, s).sources

\* inspect() returns.  clean: no member twice, none of another kind, and the
\* layout's version is known.
Inspected(a, expected) ==
    LET root == Selected(a, expected) IN
    /\ a.clean
    /\ root # Absent /\ Intact(a, root)
    /\ \E r \in Runtimes(root) :
          LET runtime == Entries(root)[r] IN
          /\ Runtimes(root) = {r}
          /\ RuntimeOk(a, runtime)
          /\ \A i \in Others(root) : AttestationOk(a, Entries(root)[i], runtime)
    /\ EvidenceOk(root)

Kids(digest) == ToSet(Doc[digest].manifests)

\* info['imageId']: the digest of the config of the runtime that an index
\* names.  Two indexes with the same runtime have the same image ID.
ImageId(digest) ==
    LET runtime == CHOOSE kid \in Kids(digest) : kid.platform = "linux/amd64"
    IN  Doc[runtime.digest].config.digest

-----------------------------------------------------------------------------
(* What an accepted archive is for, without the order of inspect().        *)

Parts(manifest) == {Doc[manifest.digest].config} \cup ToSet(Doc[manifest.digest].layers)

\* What a descriptor asks for is there, as a blob or inline, and is what its
\* digest says.
Present(a, d) ==
    \/ d.digest \in DOMAIN a.stored /\ a.stored[d.digest].body = d.digest
    \/ d.inline = [body |-> d.digest, size |-> d.size]

\* The index, which the catalog lists, and whatever it leads to are present.
Whole(a, digest) ==
    /\ \E root \in ToSet(a.roots) : root.digest = digest /\ Present(a, root)
    /\ \A kid \in Kids(digest) :
          Present(a, kid) /\ \A part \in Parts(kid) : Present(a, part)

\* The image that runs is of the source, and nothing the index attests, by
\* annotation, by subject or in a statement, is about another image.
AboutTheImage(digest) ==
    \E runtime \in Kids(digest) :
        /\ runtime.platform = "linux/amd64"
        /\ Doc[Doc[runtime.digest].config.digest].source = Source
        /\ \A e \in Kids(digest) \ {runtime} :
              /\ {e.reference, Doc[e.digest].subject} \subseteq {Absent, runtime.digest}
              /\ \A l \in ToSet(Doc[e.digest].layers) :
                    Doc[l.digest].subjects \subseteq {runtime.digest}
        /\ \A p \in {"sbom", "provenance"} :
              \E e \in Kids(digest) \ {runtime} :
                 \E l \in ToSet(Doc[e.digest].layers) : Doc[l.digest].predicate = p
=============================================================================
