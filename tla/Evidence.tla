------------------------------ MODULE Evidence ------------------------------
(***************************************************************************)
(* From an observation to a promotion: issuer keys and signed envelopes    *)
(* (packages/verifier/src/evidence.ts), the document authority and its     *)
(* readiness predicate (packages/document-verifier), the software verdict  *)
(* (packages/verifier/src/verdict.ts), and the attestation a promotion is  *)
(* checked against (packages/release/src/attestation.ts).  The verifier    *)
(* may be killed between writing its key and registering it; keys are      *)
(* revoked and replaced, and requirements, attempts and outputs move on    *)
(* while envelopes and attestations are kept.                              *)
(***************************************************************************)
EXTENDS Naturals, FiniteSets

CONSTANTS
  Issuers, TrustedIssuers, \* all, and those the policies name
  Candidates,              \* immutable: artifact and requirements revision of each
  ArtifactOf, RevisionOf,
  Job,                     \* a document job
  Digests,               \* digests of artifacts and of output manifests
  NoKey, NoRow,
  MaxKeys, MaxMoves, MaxEnvelopes \* bounds: keys made, revisions and the attempts of one subject, envelopes kept

Subjects == Candidates \cup {Job}

ASSUME EvidenceConstantsOK ==
  /\ TrustedIssuers \subseteq Issuers /\ Job \notin Candidates
  /\ ArtifactOf \in [Candidates -> Digests] /\ RevisionOf \in [Candidates -> 1 .. MaxMoves]
  /\ MaxKeys \in Nat /\ MaxMoves \in Nat \ {0} /\ MaxEnvelopes \in Nat /\ NoKey \notin 1 .. MaxKeys

VARIABLES
  trust,       \* issuer_public_keys: the row of each issuer
  keyFile,     \* the private key in each issuer's file
  signer,      \* the key of each issuer's open EvidenceSigner
  writing,     \* issuers whose new key is in its file and not registered yet
  made,        \* how many keys were generated
  revoked,     \* keys that were revoked while registered
  envelopes, aged,           \* sealed envelopes, and those past maximum_age_seconds
  attempt, revision, output, \* what the controller and the job hold now
  policies,                  \* revisions with a registered document policy
  verdicts, ready,           \* VERIFIED_FOR_SCOPE and READY_FOR_SCOPE answers
  attestations, promotable   \* what was attested, and answered promotable

keyVars == <<trust, keyFile, signer, writing, made, revoked>>
subjectVars == <<attempt, revision, output, policies>>
verdictVars == <<verdicts, ready, attestations, promotable>>
evidenceVars == <<keyVars, envelopes, aged, subjectVars, verdictVars>>

KeyOrNone == 1 .. MaxKeys \cup {NoKey}

EvidenceTypeOK ==
  /\ trust \in [Issuers -> [key : 1 .. MaxKeys, revoked : BOOLEAN] \cup {NoRow}]
  /\ keyFile \in [Issuers -> KeyOrNone] /\ signer \in [Issuers -> KeyOrNone]
  /\ writing \subseteq Issuers /\ made \in 0 .. MaxKeys /\ revoked \subseteq 1 .. made
  /\ aged \subseteq envelopes /\ Cardinality(envelopes) <= MaxEnvelopes
  /\ \A e \in envelopes : e.key \in 1 .. made /\ e.subject \in Subjects /\ e.issuer \in Issuers
  /\ attempt \in [Subjects -> 1 .. MaxMoves] /\ revision \in 1 .. MaxMoves
  /\ output \in Digests /\ policies \subseteq 1 .. MaxMoves
  /\ \A v \in verdicts \cup ready : v.evidence \in envelopes

EvidenceInit ==
  /\ trust = [i \in Issuers |-> NoRow]
  /\ keyFile = [i \in Issuers |-> NoKey] /\ signer = keyFile
  /\ writing = {} /\ made = 0 /\ revoked = {} /\ envelopes = {} /\ aged = {}
  /\ attempt = [s \in Subjects |-> 1] /\ revision = 1
  /\ output = (CHOOSE a \in Digests : TRUE) /\ policies = {}
  /\ verdicts = {} /\ ready = {} /\ attestations = {} /\ promotable = {}

-----------------------------------------------------------------------------
(* Keys *)

\* EvidenceSigner.open without a key file: the file first, the row after it.
GenerateKey(i) ==
  /\ keyFile[i] = NoKey /\ made < MaxKeys
  /\ made' = made + 1
  /\ keyFile' = [keyFile EXCEPT ![i] = made + 1]
  /\ writing' = writing \cup {i}
  /\ UNCHANGED <<trust, signer, revoked, envelopes, aged, subjectVars, verdictVars>>

\* register(): INSERT OR REPLACE, with revoked_at NULL.
Registered(i) == [trust EXCEPT ![i] = [key |-> keyFile[i], revoked |-> FALSE]]

RegisterKey(i) ==
  /\ i \in writing
  /\ trust' = Registered(i)
  /\ writing' = writing \ {i}
  /\ signer' = [signer EXCEPT ![i] = keyFile[i]]
  /\ UNCHANGED <<keyFile, made, revoked, envelopes, aged, subjectVars, verdictVars>>

\* Opened again, registering the key it found once more.
OpenAndRegister(i) ==
  /\ keyFile[i] # NoKey /\ signer[i] = NoKey /\ i \notin writing
  /\ signer' = [signer EXCEPT ![i] = keyFile[i]]
  /\ trust' = Registered(i)
  /\ UNCHANGED <<keyFile, writing, made, revoked, envelopes, aged, subjectVars, verdictVars>>

\* With a key file: the key is used, whatever the row says.
OpenSigner(i) ==
  /\ keyFile[i] # NoKey /\ signer[i] = NoKey /\ i \notin writing
  /\ signer' = [signer EXCEPT ![i] = keyFile[i]]
  /\ UNCHANGED <<trust, keyFile, writing, made, revoked, envelopes, aged, subjectVars, verdictVars>>

\* The process ends, maybe before the row of a new key is written.
VerifierEnds(i) ==
  /\ signer[i] # NoKey \/ i \in writing
  /\ signer' = [signer EXCEPT ![i] = NoKey] /\ writing' = writing \ {i}
  /\ UNCHANGED <<trust, keyFile, made, revoked, envelopes, aged, subjectVars, verdictVars>>

RevokeKey(i) ==
  /\ trust[i] # NoRow
  /\ trust' = [trust EXCEPT ![i].revoked = TRUE]
  /\ revoked' = revoked \cup {trust[i].key}
  /\ UNCHANGED <<keyFile, signer, writing, made, envelopes, aged, subjectVars, verdictVars>>

\* The operator takes the key away, to replace it.
RemoveKey(i) ==
  /\ keyFile[i] # NoKey /\ signer[i] = NoKey /\ i \notin writing
  /\ keyFile' = [keyFile EXCEPT ![i] = NoKey]
  /\ UNCHANGED <<trust, signer, writing, made, revoked, envelopes, aged, subjectVars, verdictVars>>

-----------------------------------------------------------------------------
(* Envelopes *)

KeepEnvelope(envelope) ==
  /\ Cardinality(envelopes \cup {envelope}) <= MaxEnvelopes
  /\ envelopes' = envelopes \cup {envelope}
  /\ UNCHANGED <<keyVars, aged, subjectVars, verdictVars>>

\* seal(): evidence about a candidate is about its artifact and its revision.
Seal(i, c, passed) ==
  /\ signer[i] # NoKey
  /\ KeepEnvelope([kind |-> "evidence", issuer |-> i, key |-> signer[i], subject |-> c,
           attempt |-> attempt[c], revision |-> RevisionOf[c], artifact |-> ArtifactOf[c],
           passed |-> passed])

\* resultOf(): what the authority observed itself, every one of it, and something.
ResultOf(observations) ==
  observations # <<>> /\ \A k \in DOMAIN observations : observations[k]

\* buildDocumentEvidence over the manifests of the moment.
SealDocument(i, observations) ==
  /\ signer[i] # NoKey
  /\ KeepEnvelope([kind |-> "document_evidence", issuer |-> i, key |-> signer[i], subject |-> Job,
           attempt |-> attempt[Job], revision |-> revision, artifact |-> output,
           passed |-> ResultOf(observations)])

\* resolve(): a row that is not revoked; then the signature under its key.
Resolves(i) == trust[i] # NoRow /\ ~trust[i].revoked

Opens(envelope, kind) ==
  Resolves(envelope.issuer) /\ trust[envelope.issuer].key = envelope.key /\ envelope.kind = kind

\* openEnvelope and openDocumentEnvelope refuse each other's kind.
OpenEnvelope(e) == Opens(e, "evidence")
OpenDocumentEnvelope(e) == Opens(e, "document_evidence")

-----------------------------------------------------------------------------
(* Verdicts *)

\* decide(): the candidate handed in, its own policy, the attempt expected.
VerifiedForScope(c, e) ==
  /\ OpenEnvelope(e) /\ e.issuer \in TrustedIssuers
  /\ e.subject = c /\ e.attempt = attempt[c] /\ e.passed /\ e \notin aged

\* The document predicate: every manifest as the job's state has it now, under
\* the policy of the revision.
ReadyForScope(e) ==
  /\ OpenDocumentEnvelope(e) /\ e.issuer \in TrustedIssuers
  /\ e.subject = Job /\ e.attempt = attempt[Job]
  /\ e.revision = revision /\ revision \in policies /\ e.artifact = output
  /\ e.passed /\ e \notin aged

Verdict(s, e) == [subject |-> s, evidence |-> e, late |-> e.key \in revoked]

DecideReadiness(c, e) ==
  /\ VerifiedForScope(c, e)
  /\ verdicts' = verdicts \cup {Verdict(c, e)}
  /\ UNCHANGED <<keyVars, envelopes, aged, subjectVars, ready, attestations, promotable>>

DecideDocumentReadiness(e) ==
  /\ ReadyForScope(e)
  /\ ready' = ready \cup {Verdict(Job, e)}
  /\ UNCHANGED <<keyVars, envelopes, aged, subjectVars, verdicts, attestations, promotable>>

Attestation(c, v) ==
  [artifact |-> ArtifactOf[c], revision |-> RevisionOf[c], evidence |-> v.evidence]

\* attest(): only a verdict about this candidate.
Attest(c, v) ==
  /\ v.subject = c
  /\ attestations' = attestations \cup {Attestation(c, v)}
  /\ UNCHANGED <<keyVars, envelopes, aged, subjectVars, verdicts, ready, promotable>>

\* checkPromotable(): the bytes and the revision, not the key or the age.
CheckPromotable(attestation, artifact) ==
  /\ attestation.artifact = artifact /\ attestation.revision = revision
  /\ promotable' = promotable \cup {[artifact |-> artifact, revision |-> revision]}
  /\ UNCHANGED <<keyVars, envelopes, aged, subjectVars, verdicts, ready, attestations>>

-----------------------------------------------------------------------------
(* What moves meanwhile *)

\* A policy of a digest is registered once and never changed.
RegisterDocumentPolicy ==
  /\ policies' = policies \cup {revision}
  /\ UNCHANGED <<keyVars, envelopes, aged, attempt, revision, output, verdictVars>>

Ages(e) ==
  /\ aged' = aged \cup {e}
  /\ UNCHANGED <<keyVars, envelopes, subjectVars, verdictVars>>

NewAttempt(s) ==
  /\ attempt[s] < MaxMoves /\ \A t \in Subjects \ {s} : attempt[t] = 1
  /\ attempt' = [attempt EXCEPT ![s] = @ + 1]
  /\ UNCHANGED <<keyVars, envelopes, aged, revision, output, policies, verdictVars>>

NewRevision ==
  /\ revision < MaxMoves
  /\ revision' = revision + 1
  /\ UNCHANGED <<keyVars, envelopes, aged, attempt, output, policies, verdictVars>>

NewOutput(a) ==
  /\ output' = a
  /\ UNCHANGED <<keyVars, envelopes, aged, attempt, revision, policies, verdictVars>>

KeyNext(i) ==
  \/ GenerateKey(i) \/ RegisterKey(i) \/ OpenSigner(i) \/ VerifierEnds(i) \/ RevokeKey(i) \/ RemoveKey(i)
  \/ \E passed \in BOOLEAN, c \in Candidates : Seal(i, c, passed)
  \/ \E observations \in {<<>>, <<TRUE>>, <<TRUE, FALSE>>} : SealDocument(i, observations)

EvidenceNext ==
  \/ \E i \in Issuers : KeyNext(i)
  \/ \E e \in envelopes : Ages(e) \/ DecideDocumentReadiness(e)
                          \/ \E c \in Candidates : DecideReadiness(c, e)
  \/ \E v \in verdicts, c \in Candidates : Attest(c, v)
  \/ \E a \in attestations, artifact \in Digests : CheckPromotable(a, artifact)
  \/ \E s \in Subjects : NewAttempt(s)
  \/ \E a \in Digests : NewOutput(a)
  \/ NewRevision \/ RegisterDocumentPolicy

EvidenceSpec == EvidenceInit /\ [][EvidenceNext]_evidenceVars

-----------------------------------------------------------------------------
(* Properties *)

\* Whatever was revoked, replaced, restarted or rebuilt in between: no verdict
\* rests on a key that had been revoked before it, and what is answered
\* promotable are bytes a passing check was signed for at the revision of then
\* (attestation.ts:1-7, docs/SECURITY_AND_RELEASE.md:118).
PromotionIsEvidenced ==
  /\ \A v \in verdicts \cup ready : ~v.late /\ v.evidence.passed
  /\ \A v \in ready : v.evidence.kind = "document_evidence"
  /\ \A p \in promotable : \E v \in verdicts :
       v.evidence.artifact = p.artifact /\ v.evidence.revision = p.revision
=============================================================================
