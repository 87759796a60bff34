--------------------------- MODULE BundleVerifier ---------------------------
(* cmd/bundle-verifier: the preflight evaluation of a request against an     *)
(* observed environment (internal/preflight), the verification of a bundle   *)
(* directory file by file (internal/verify), and the exclusive publication   *)
(* of the receipt (cmd/bundle-verifier/main.go).                             *)
(*                                                                           *)
(* A file's content is a record; its digest is the field "digest", which no  *)
(* two contents share.  "form" stands for every check a document passes or   *)
(* fails by itself: canonical JSON, exact keys, schema, state, patterns and  *)
(* its own self digest.  Module, key and time strings are naturals, ordered  *)
(* as the strings are.  The directory is not the verifier's: between two     *)
(* reads a file of it may be replaced by the one of another release, which   *)
(* is what happens when a bundle is refreshed in place.                      *)
EXTENDS Integers, FiniteSets, SequencesExt

CONSTANTS Verifiers,            \* processes started with one --output path
          Cases,                \* [request, observation, bundle, intact, refreshes]
          Names,                \* the relative paths a bundle may hold
          Refresh,              \* the content a refresh puts at each path
          When,                 \* --verification-time
          minimumTrustSequence,
          Missing, NoValue

VARIABLES given,                \* the case of this run
          dir,                  \* the directory below --bundle-root
          refreshed,            \* paths refreshed so far
          proc,                 \* the verifiers
          temporary,            \* the verifiers whose temporary file exists
          output                \* the file at --output: its writer, or NoValue

bundleVars == <<given, dir, refreshed, proc, temporary, output>>

File(n) == <<n>>
KeyFile(k) == <<"public-keys", k>>
Payload(a) == <<"payload", a>>
Signature(a) == <<"signature", a>>
Blob(d) == <<"blob", d>>

-----------------------------------------------------------------------------
(* internal/preflight *)

SortedUnique(s) == \A i \in 1 .. Len(s) - 1 : s[i] < s[i + 1]

\* A version is <<major, minor>>.
compareVersion(left, right) ==
  IF left[1] # right[1] THEN left[1] - right[1] ELSE left[2] - right[2]

validateRequest(q) ==
  /\ q.form
  /\ compareVersion(q.minimum, q.maximum) <= 0
  /\ \A c \in DOMAIN q.capacity : q.capacity[c] >= 1
  /\ q.modules # <<>> /\ SortedUnique(q.modules)

validateObservation(o) ==
  o.form /\ \A c \in DOMAIN o.capacity : o.capacity[c] >= 0

Evaluate(q, o) ==
  /\ q.platform = o.platform
  /\ q.architecture = o.architecture
  /\ compareVersion(o.version, q.minimum) >= 0
  /\ compareVersion(o.version, q.maximum) <= 0
  /\ \A c \in DOMAIN q.capacity : o.capacity[c] >= q.capacity[c]
  /\ q.storageClass \in o.storageClasses
  /\ q.connectivity = o.connectivity
  /\ q.sandboxRequired => o.sandboxAvailable
  /\ q.locks = o.locks

-----------------------------------------------------------------------------
(* internal/verify: checks of documents already read *)

insideWindow(d) == d.notBefore <= When /\ When < d.notAfter

validateSupplyChain(evidence) ==
  /\ evidence.components # <<>>
  /\ \A i \in DOMAIN evidence.components : evidence.components[i].accepted
  /\ evidence.modelsAccepted

validateReleaseSubjects(lock, evidence) ==
  /\ Len(lock.components) = Len(evidence.components)
  /\ SortedUnique([i \in DOMAIN lock.components |-> lock.components[i].module])
  /\ \A i \in DOMAIN lock.components :
       /\ lock.components[i].reference = lock.components[i].artifact
       /\ evidence.components[i].subject = lock.components[i].subject
       /\ evidence.components[i].artifact = lock.components[i].artifact
       /\ evidence.components[i].module = lock.components[i].module

componentPayloadMatches(lock, evidence, payload) ==
  \E i \in DOMAIN lock.components :
    /\ lock.components[i].artifact = payload.artifact
    /\ \A j \in 1 .. i - 1 : lock.components[j].artifact # payload.artifact
    /\ payload.module = lock.components[i].module
    /\ payload.subject = lock.components[i].subject
    /\ payload.sbom = evidence.components[i].sbom

\* The records of the trust bundle, each with its key file in directory d.
TrustKeysValid(trust, d) ==
  /\ trust.keys # <<>>
  /\ SortedUnique([i \in DOMAIN trust.keys |-> trust.keys[i].id])
  /\ \A i \in DOMAIN trust.keys :
       LET key == trust.keys[i] IN
       /\ key.role \in {"BUNDLE_RELEASE", "RELEASE_APPROVAL"}
       /\ key.state \in {"ACTIVE", "RETIRING"}
       /\ insideWindow(key)
       /\ d[KeyFile(key.id)] # Missing
       /\ d[KeyFile(key.id)].digest = key.file

RevocationsValid(trust) ==
  LET ids == [i \in DOMAIN trust.revocations |-> trust.revocations[i].id] IN
  /\ \A i, j \in DOMAIN ids : ids[i] = ids[j] => i = j
  /\ \A i \in DOMAIN ids : \E k \in DOMAIN trust.keys : trust.keys[k].id = ids[i]

\* What a strict comparison of the effective time would do.
RevokedAfter(trust, id) ==
  \E i \in DOMAIN trust.revocations :
    trust.revocations[i].id = id /\ trust.revocations[i].effectiveAt < When

Revoked(trust, id) ==
  \E i \in DOMAIN trust.revocations :
    trust.revocations[i].id = id /\ trust.revocations[i].effectiveAt <= When

\* The keys validateTrust returns: id to role.
UsableKeys(trust) ==
  {<<trust.keys[i].id, trust.keys[i].role>> :
     i \in {j \in DOMAIN trust.keys : ~Revoked(trust, trust.keys[j].id)}}

\* cosign verify-blob reads key, signature and payload from directory d.
Cosign(d, key, signature, payload) ==
  /\ {d[KeyFile(key)], d[signature], d[payload]} \cap {Missing} = {}
  /\ d[signature].over = d[payload].digest
  /\ d[signature].by = d[KeyFile(key)].digest

-----------------------------------------------------------------------------
(* A verifier: where it is, an index into the list it walks, and what it     *)
(* holds in memory.                                                          *)

Nothing == [n \in Names |-> Missing]
Started == [at |-> "preflight", i |-> 1, held |-> Nothing, modules |-> <<>>]
Ended(how) == [Started EXCEPT !.at = how]

\* The files whose first read is compared with a digest; the bytes of the
\* approval's signature are read and dropped.
Bound == Names \ {File("approval.sigstore.json")}

Held(p, n) == proc[p].held[File(n)]
Digest(p, n) == Held(p, n).digest
KeyId(p) == Held(p, "signed-release.json").key

To(p, next) == proc' = [proc EXCEPT ![p] = [@ EXCEPT !.at = next, !.i = 1]]
Refuse(p) == proc' = [proc EXCEPT ![p] = Ended("refused")]

\* A step at "at" that goes on to "next" where its check passes.
Checks(p, at, passes, next) ==
  /\ proc[p].at = at
  /\ IF passes THEN To(p, next) ELSE Refuse(p)
  /\ UNCHANGED <<given, dir, refreshed, temporary, output>>

\* regularBytes and readObject: file n is read into memory if it is there and
\* passes, which is asked of its content.
Reads(p, at, n, passes, next) ==
  /\ proc[p].at = at
  /\ IF dir[n] # Missing /\ passes
     THEN proc' = [proc EXCEPT ![p] = [@ EXCEPT !.at = next, !.held[n] = dir[n]]]
     ELSE Refuse(p)
  /\ UNCHANGED <<given, dir, refreshed, temporary, output>>

Preflight(p) ==
  Checks(p, "preflight",
         /\ validateRequest(given.request)
         /\ validateObservation(given.observation)
         /\ Evaluate(given.request, given.observation),
         "signed")

ReadSigned(p) ==
  Reads(p, "signed", File("signed-release.json"),
        dir[File("signed-release.json")].form, "lock")

ReadLock(p) ==
  Reads(p, "lock", File("bundle.lock.json"),
        dir[File("bundle.lock.json")].form, "evidence")

\* signed-release.json's own digest is the releaseDigest it states.
ReadEvidence(p) ==
  LET signed == Held(p, "signed-release.json")
      lock == Held(p, "bundle.lock.json")
      d == dir[File("supply-chain.evidence.json")] IN
  Reads(p, "evidence", File("supply-chain.evidence.json"),
        /\ d.form
        /\ given.request.locks =
             [profile |-> lock.profile, bundle |-> lock.digest,
              release |-> signed.digest]
        /\ lock.digest = signed.lock
        /\ d.digest = signed.evidence
        /\ d.lock = lock.digest
        /\ validateSupplyChain(d)
        /\ validateReleaseSubjects(lock, d),
        "trust")

ReadTrust(p) ==
  LET d == dir[File("trust-bundle.json")] IN
  Reads(p, "trust", File("trust-bundle.json"),
        /\ d.form
        /\ d.digest = Held(p, "signed-release.json").trust
        /\ d.sequence >= minimumTrustSequence,
        "keys")

\* validateTrust.  Each key file is compared with a digest the trust bundle
\* in memory gives, so the files are read in one step.
ReadKeys(p) ==
  LET trust == Held(p, "trust-bundle.json") IN
  /\ proc[p].at = "keys"
  /\ IF /\ TrustKeysValid(trust, dir)
        /\ RevocationsValid(trust)
        /\ <<KeyId(p), "BUNDLE_RELEASE">> \in UsableKeys(trust)
     THEN proc' = [proc EXCEPT ![p].at = "manifest",
                     ![p].held = [n \in Names |->
                        IF \E i \in DOMAIN trust.keys : n = KeyFile(trust.keys[i].id)
                        THEN dir[n] ELSE @[n]]]
     ELSE Refuse(p)
  /\ UNCHANGED <<given, dir, refreshed, temporary, output>>

ReadManifest(p) ==
  Reads(p, "manifest", File("release-manifest.json"),
        dir[File("release-manifest.json")].form, "rootSignature")

\* What leaving the root signature out of the comparison would do.
ReadRootSignatureUnbound(p) ==
  LET signed == Held(p, "signed-release.json")
      lock == Held(p, "bundle.lock.json")
      manifest == Held(p, "release-manifest.json") IN
  Reads(p, "rootSignature", File("release-manifest.sigstore.json"),
        /\ manifest.digest = signed.manifest
        /\ manifest.key = signed.key
        /\ manifest.verificationTime = When
        /\ manifest.profileId = lock.profileId,
        "cosignRoot")

ReadRootSignature(p) ==
  LET signed == Held(p, "signed-release.json")
      lock == Held(p, "bundle.lock.json")
      manifest == Held(p, "release-manifest.json")
      d == dir[File("release-manifest.sigstore.json")] IN
  Reads(p, "rootSignature", File("release-manifest.sigstore.json"),
        /\ manifest.digest = signed.manifest
        /\ d.digest = signed.rootSignature
        /\ manifest.lock = lock.digest
        /\ manifest.evidence = Digest(p, "supply-chain.evidence.json")
        /\ manifest.key = signed.key
        /\ manifest.trust = Digest(p, "trust-bundle.json")
        /\ manifest.verificationTime = When
        /\ manifest.profileId = lock.profileId,
        "cosignRoot")

CosignRoot(p) ==
  Checks(p, "cosignRoot",
         Cosign(dir, KeyId(p), File("release-manifest.sigstore.json"),
                File("release-manifest.json")),
         "approval")

ReadApproval(p) ==
  Reads(p, "approval", File("approval.json"),
        dir[File("approval.json")].form, "approvalSignature")

ReadApprovalSignature(p) ==
  LET signed == Held(p, "signed-release.json")
      manifest == Held(p, "release-manifest.json")
      approval == Held(p, "approval.json") IN
  Reads(p, "approvalSignature", File("approval.sigstore.json"),
        /\ <<approval.key, "RELEASE_APPROVAL">> \in
             UsableKeys(Held(p, "trust-bundle.json"))
        /\ approval.digest = signed.approval
        /\ approval.digest = manifest.approval
        /\ approval.lock = Digest(p, "bundle.lock.json")
        /\ approval.evidence = Digest(p, "supply-chain.evidence.json")
        /\ approval.profileId = Held(p, "bundle.lock.json").profileId
        /\ approval.organization = manifest.organization
        /\ approval.trust = Digest(p, "trust-bundle.json")
        /\ signed.key \in approval.authorizedReleaseKeyIds
        /\ insideWindow(approval),
        "cosignApproval")

CosignApproval(p) ==
  Checks(p, "cosignApproval",
         /\ Cosign(dir, Held(p, "approval.json").key,
                   File("approval.sigstore.json"), File("approval.json"))
         /\ Held(p, "release-manifest.json").components # <<>>,
         "payload")

-----------------------------------------------------------------------------
(* The components of the manifest, one after the other *)

Records(p) == Held(p, "release-manifest.json").components
ComponentRecord(p) == Records(p)[proc[p].i]

ReadPayload(p) ==
  LET artifact == ComponentRecord(p).artifact
      d == dir[Payload(artifact)] IN
  Reads(p, "payload", Payload(artifact),
        /\ \A j \in 1 .. proc[p].i - 1 : Records(p)[j].artifact # artifact
        /\ d.form,
        "signature")

ReadSignature(p) ==
  LET payload == proc[p].held[Payload(ComponentRecord(p).artifact)]
      d == dir[Signature(ComponentRecord(p).artifact)] IN
  Reads(p, "signature", Signature(ComponentRecord(p).artifact),
        /\ payload.artifact = ComponentRecord(p).artifact
        /\ payload.lock = Digest(p, "bundle.lock.json")
        /\ ComponentRecord(p).payload = payload.digest
        /\ ComponentRecord(p).signature = d.digest
        /\ componentPayloadMatches(Held(p, "bundle.lock.json"),
             Held(p, "supply-chain.evidence.json"), payload),
        "cosignPayload")

\* To the next element of a list of length n, or on to "next" after the last.
Walk(p, from, n, passes, again, next) ==
  /\ proc[p].at = from
  /\ IF ~passes THEN Refuse(p)
     ELSE IF proc[p].i < n
          THEN proc' = [proc EXCEPT ![p] = [@ EXCEPT !.at = again, !.i = @ + 1]]
          ELSE To(p, next)
  /\ UNCHANGED <<given, dir, refreshed, temporary, output>>

CosignPayload(p) ==
  Walk(p, "cosignPayload", Len(Records(p)),
       Cosign(dir, KeyId(p), Signature(ComponentRecord(p).artifact),
              Payload(ComponentRecord(p).artifact)),
       "payload", "layout")

-----------------------------------------------------------------------------
(* validateOCI, validateClosure and the closure of platforms and modules *)

ReadLayout(p) ==
  LET d == dir[File("oci/oci-layout")] IN
  Reads(p, "layout", File("oci/oci-layout"),
        d.form /\ d.digest = Held(p, "bundle.lock.json").ociLayout,
        "index")

ReadIndex(p) ==
  LET d == dir[File("oci/index.json")] IN
  Reads(p, "index", File("oci/index.json"),
        /\ d.form
        /\ d.digest = Held(p, "bundle.lock.json").sourceIndex
        /\ \A i, j \in DOMAIN d.manifests :
             d.manifests[i].digest = d.manifests[j].digest => i = j
        /\ Held(p, "bundle.lock.json").blobs # <<>>,
        "blob")

\* One blob of the lock; after the last, the index and the components are
\* compared with the blobs.
ReadBlob(p) ==
  LET blobs == Held(p, "bundle.lock.json").blobs
      indexed == Held(p, "oci/index.json").manifests
      blob == blobs[proc[p].i]
      content == dir[Blob(blob.digest)]
      digests == {blobs[j].digest : j \in DOMAIN blobs} IN
  Walk(p, "blob", Len(blobs),
       /\ \E j \in DOMAIN indexed : indexed[j] = blob
       /\ content # Missing
       /\ content.digest = blob.digest /\ content.size = blob.size
       /\ proc[p].i = Len(blobs) =>
            /\ Len(indexed) = Cardinality(digests)
            /\ \A j \in DOMAIN Records(p) : Records(p)[j].artifact \in digests,
       "blob", "closure")

expectedFiles(p) ==
  LET lock == Held(p, "bundle.lock.json")
      keys == Held(p, "trust-bundle.json").keys IN
  {File(n) : n \in {"approval.json", "approval.sigstore.json",
     "bundle.lock.json", "release-manifest.json",
     "release-manifest.sigstore.json", "signed-release.json",
     "supply-chain.evidence.json", "trust-bundle.json",
     "oci/oci-layout", "oci/index.json"}}
  \cup {KeyFile(keys[i].id) : i \in DOMAIN keys}
  \cup {Payload(Records(p)[i].artifact) : i \in DOMAIN Records(p)}
  \cup {Signature(Records(p)[i].artifact) : i \in DOMAIN Records(p)}
  \cup {Blob(lock.blobs[i].digest) : i \in DOMAIN lock.blobs}

validateClosure(p) ==
  LET lock == Held(p, "bundle.lock.json") IN
  Checks(p, "closure",
         /\ {n \in Names : dir[n] # Missing} = expectedFiles(p)
         /\ lock.platforms = <<given.request.architecture>>
         /\ lock.modules = given.request.modules,
         "platform")

\* The payloads are read a second time, for platform and module, and compared
\* with no digest: what is read may be another release's by now, and "held"
\* keeps what the signature was checked on.  The modules of all of them,
\* sorted, must be the ones requested.
ReadPlatform(p) ==
  LET payload == dir[Payload(ComponentRecord(p).artifact)]
      wanted == given.request.modules
      modules == Append(proc[p].modules, payload.module) IN
  /\ proc[p].at = "platform"
  /\ IF payload = Missing \/ ~payload.form
        \/ payload.subject.platform # given.request.architecture
     THEN Refuse(p)
     ELSE IF proc[p].i < Len(Records(p))
          THEN proc' = [proc EXCEPT ![p] = [@ EXCEPT !.i = @ + 1, !.modules = modules]]
          ELSE IF Len(modules) = Len(wanted) /\ ToSet(modules) = ToSet(wanted)
               THEN To(p, "exists")
               ELSE Refuse(p)
  /\ UNCHANGED <<given, dir, refreshed, temporary, output>>

-----------------------------------------------------------------------------
(* atomicReceipt *)

Publishing == {"exists", "create", "link", "unlink", "done"}

Fail(p) == proc' = [proc EXCEPT ![p] = Ended("failed")]

\* OUTPUT_ALREADY_EXISTS
Lstat(p) ==
  /\ proc[p].at = "exists"
  /\ IF output = NoValue THEN To(p, "create") ELSE Fail(p)
  /\ UNCHANGED <<given, dir, refreshed, temporary, output>>

\* The temporary file, written and synced next to the output.
CreateTemp(p) ==
  /\ proc[p].at = "create"
  /\ To(p, "link")
  /\ temporary' = temporary \cup {p}
  /\ UNCHANGED <<given, dir, refreshed, output>>

\* Creating, writing, syncing or closing it fails; it is removed.
CreateFails(p) ==
  /\ proc[p].at = "create"
  /\ Fail(p)
  /\ UNCHANGED <<given, dir, refreshed, temporary, output>>

\* os.Link, which fails where the output exists.
Link(p) ==
  /\ proc[p].at = "link"
  /\ IF output = NoValue
     THEN To(p, "unlink") /\ output' = p /\ UNCHANGED temporary
     ELSE Fail(p) /\ temporary' = temporary \ {p} /\ UNCHANGED output
  /\ UNCHANGED <<given, dir, refreshed>>

\* os.Remove of the temporary file; where it fails the output is removed, if
\* that can be done, and the deferred removal tries the temporary file again.
Unlink(p) ==
  /\ proc[p].at = "unlink"
  /\ To(p, "done")
  /\ temporary' = temporary \ {p}
  /\ UNCHANGED <<given, dir, refreshed, output>>

UnlinkFails(p) ==
  /\ proc[p].at = "unlink"
  /\ Fail(p)
  /\ output' \in {NoValue, output}
  /\ temporary' \in {temporary, temporary \ {p}}
  /\ UNCHANGED <<given, dir, refreshed>>

-----------------------------------------------------------------------------

\* A file of the directory is replaced by the one of the other release.
RefreshFile(n) ==
  /\ Cardinality(refreshed) < given.refreshes
  /\ n \notin refreshed
  /\ Refresh[n] # dir[n]
  /\ dir' = [dir EXCEPT ![n] = Refresh[n]]
  /\ refreshed' = refreshed \cup {n}
  /\ UNCHANGED <<given, proc, temporary, output>>

\* The process dies; what it wrote stays.
Crash(p) ==
  /\ proc[p].at \in Publishing \ {"done"}
  /\ proc' = [proc EXCEPT ![p] = Ended("dead")]
  /\ UNCHANGED <<given, dir, refreshed, temporary, output>>

BundleInit ==
  /\ given \in Cases
  /\ dir = given.bundle
  /\ refreshed = {}
  /\ proc = [p \in Verifiers |-> Started]
  /\ temporary = {}
  /\ output = NoValue

Verify(p) ==
  \/ Preflight(p)
  \/ ReadSigned(p) \/ ReadLock(p) \/ ReadEvidence(p)
  \/ ReadTrust(p) \/ ReadKeys(p)
  \/ ReadManifest(p) \/ ReadRootSignature(p) \/ CosignRoot(p)
  \/ ReadApproval(p) \/ ReadApprovalSignature(p) \/ CosignApproval(p)
  \/ ReadPayload(p) \/ ReadSignature(p) \/ CosignPayload(p)
  \/ ReadLayout(p) \/ ReadIndex(p) \/ ReadBlob(p)
  \/ validateClosure(p) \/ ReadPlatform(p)
  \/ Lstat(p) \/ CreateTemp(p) \/ CreateFails(p)
  \/ Link(p) \/ Unlink(p) \/ UnlinkFails(p)
  \/ Crash(p)

BundleNext == (\E p \in Verifiers : Verify(p)) \/ (\E n \in Names : RefreshFile(n))

BundleSpec == BundleInit /\ [][BundleNext]_bundleVars

-----------------------------------------------------------------------------
(* Properties *)

\* A receipt names one release: while a verifier publishes, every document it
\* quotes or compared with a digest it held is the one of the release whose
\* digest the request and the receipt carry, even where the directory was
\* refreshed file by file between the first reads.  Nothing is promised of the
\* reads that no digest is compared with: cosign's own, the approval's
\* signature and the second read of the payloads, so the platform and module
\* closure may be that of a payload replaced in between.  And a verifier that
\* reports success has its own receipt at the output path, whatever another
\* verifier with the same path does, fails at or dies in.
ReceiptNamesItsRelease ==
  \A p \in Verifiers :
    /\ proc[p].at \in Publishing \ {"done"} =>
         \A n \in Bound : proc[p].held[n] \in {Missing, given.bundle[n]}
    /\ proc[p].at = "done" => output = p

\* On a directory nobody touches the verdict is exact: an intact bundle, with
\* an environment that suits it, is verified and any other is refused, at
\* every boundary of versions, windows, revocations and sequence numbers.
QuietVerdictExact ==
  refreshed = {} => \A p \in Verifiers :
    /\ proc[p].at \in Publishing => given.intact
    /\ proc[p].at = "refused" => ~given.intact
=============================================================================
