------------------------------ MODULE Artifacts ------------------------------
(***************************************************************************)
(* What DevRepro writes down and reads back: the vault that seals a file   *)
(* (snapshots/vault.py), signatures (snapshots/signing.py), the migration  *)
(* of old snapshots (snapshots/protocol.py), advisory bundles              *)
(* (compliance/advisories.py, rules/packs/advisories.py) and attestations  *)
(* (compliance/attest.py).                                                 *)
(*                                                                         *)
(* A directory is a function from names to contents; a name is a base and  *)
(* the number of ".vault" it ends in.  An operation on files is the        *)
(* sequence of the directories it goes through, so that it may stop after  *)
(* any of them: write_bytes empties the file before it fills it.           *)
(***************************************************************************)
EXTENDS Integers, Sequences, FiniteSets, TLC, Functions

CONSTANTS None, Garbled

V == INSTANCE Versioning

Raised == [kind |-> "raised"]

Final(steps)   == steps[Len(steps)]
Backwards(seq) == [i \in DOMAIN seq |-> seq[Len(seq) + 1 - i]]

Counted(seq) == [e \in Range(seq) |-> Cardinality({i \in DOMAIN seq : seq[i] = e})]

-----------------------------------------------------------------------------
(* The vault.  Fernet opens what it sealed, with the same key only.        *)

Plain(data)        == [kind |-> "plain", data |-> data]
Sealed(key, inner) == [kind |-> "sealed", key |-> key, inner |-> inner]
Torn               == [kind |-> "torn"]

write_bytes(dir, name, content) == <<dir, (name :> Torn) @@ dir, (name :> content) @@ dir>>

unlink(dir, name) == [n \in DOMAIN dir \ {name} |-> dir[n]]

encrypt_file(dir, name, key) ==
  LET written == write_bytes(dir, [name EXCEPT !.vaults = @ + 1], Sealed(key, dir[name]))
  IN Append(written, unlink(Final(written), name))

Opens(content, key) == content.kind = "sealed" /\ content.key = key

Unsealed(name) == IF name.vaults > 0 THEN [name EXCEPT !.vaults = @ - 1] ELSE name

(* Nothing is touched before the whole of it has been opened.              *)
decrypt_file(dir, name, key, keep_vault) ==
  IF ~Opens(dir[name], key) THEN <<dir>>
  ELSE LET written == write_bytes(dir, Unsealed(name), dir[name].inner)
       IN IF keep_vault THEN written ELSE Append(written, unlink(Final(written), name))

(* Whenever the process dies, what the file held is still held, sealed or  *)
(* open, by it or by its counterpart, and no other file has changed; and   *)
(* what is sealed comes back as it was (vault.py:84, :92).                 *)
HeldBy(dir, content) == \E n \in DOMAIN dir : dir[n] = content

VaultLosesNothingAt(dir, name, key) ==
  LET sealed  == encrypt_file(dir, name, key)
      opened  == decrypt_file(Final(sealed), [name EXCEPT !.vaults = @ + 1], key, FALSE)
      Spared(d) == \A n \in DOMAIN dir \ {name, [name EXCEPT !.vaults = @ + 1]} : d[n] = dir[n]
  IN /\ \A i \in DOMAIN sealed :
          (HeldBy(sealed[i], dir[name]) \/ HeldBy(sealed[i], Sealed(key, dir[name])))
          /\ Spared(sealed[i])
     /\ \A i \in DOMAIN opened :
          HeldBy(opened[i], dir[name]) \/ HeldBy(opened[i], Sealed(key, dir[name]))
     /\ Final(opened) = unlink(dir, [name EXCEPT !.vaults = @ + 1])

(* A key that does not open a vault leaves everything alone, and a file    *)
(* that keeps its vault can be opened again.                               *)
OpeningIsSafeAt(dir, name, key, keep) ==
  LET steps == decrypt_file(dir, name, key, keep)
      found == Opens(dir[name], key)
  IN /\ ~found => Final(steps) = dir
     /\ found /\ name.vaults > 0 =>
          /\ Final(steps)[Unsealed(name)] = dir[name].inner
          /\ keep => decrypt_file(Final(steps), name, key, keep)[3] = Final(steps)
          /\ \A i \in DOMAIN steps :
               HeldBy(steps[i], dir[name].inner) \/ HeldBy(steps[i], dir[name])

(* Disagreement: a vault of another name is opened over itself and then    *)
(* removed.                                                                *)
AnyVaultOpensAt(dir, name, key) ==
  Opens(dir[name], key) => HeldBy(Final(decrypt_file(dir, name, key, FALSE)), dir[name].inner)

-----------------------------------------------------------------------------
(* Signatures: the document is its lines; HMAC is one-to-one.              *)

sign_bytes(data, key, key_id) ==
  IF key = None THEN Raised
  ELSE [kind  |-> "signed",
        lines |-> <<<<"algorithm", "hmac">>>>
                  \o (IF key_id = None THEN <<>> ELSE <<<<"key-id", key_id>>>>)
                  \o <<<<"signature", <<key, data>>>>>>]

Signatures(doc) == SelectSeq(doc.lines, LAMBDA line : line[1] = "signature")

verify_bytes(data, key, doc) == Signatures(doc) # <<>> /\ Head(Signatures(doc))[2] = <<key, data>>

(* `devrepro verify-snapshot`; sidecar is None where no .sig lies beside.  *)
verify_snapshot_cmd(data, key, sidecar) ==
  IF key = None \/ sidecar = None THEN "USAGE_ERROR"
  ELSE IF verify_bytes(data, key, sidecar) THEN "READY" ELSE "BLOCKED"

(* A signature vouches for one text under one key, and for nothing else;   *)
(* what was not signed is not verified (signing.py:52, :64).               *)
SignatureHoldsAt(data, key, key_id, other, other_key) ==
  LET doc     == sign_bytes(data, key, key_id)
      sidecar == IF doc = Raised THEN None ELSE doc
  IN verify_snapshot_cmd(other, other_key, sidecar) = "READY"
       <=> key # None /\ other = data /\ other_key = key

-----------------------------------------------------------------------------
(* Advisory bundles.  A bundle's file is its payload (None: not JSON) and  *)
(* the signature document beside it (None: there is none).                 *)

BUNDLE_SCHEMA_VERSION == "1.0"

Bundle(source, signed, payload) ==
  [kind |-> "bundle", source |-> source, signed |-> signed, advisories |-> payload.advisories,
   covers |-> IF payload.covers # None THEN payload.covers
              ELSE {a.tool : a \in Range(payload.advisories)}]

bundled_bundle(BUNDLED_ADVISORIES) ==
  Bundle("bundled", TRUE, [advisories |-> BUNDLED_ADVISORIES, covers |-> None])

parse_bundle(payload, source, signed) ==
  IF \/ payload.schema_version # BUNDLE_SCHEMA_VERSION
     \/ payload.advisories = None
     \/ payload.advisories # None /\ \E a \in Range(payload.advisories) : ~a.complete
  THEN Raised
  ELSE Bundle(source, signed, payload)

load_bundle(file, key, trust_unsigned, BUNDLED_ADVISORIES) ==
  LET vouched == file.sig # None /\ key # None /\ verify_bytes(file.payload, key, file.sig)
  IN IF file = None THEN bundled_bundle(BUNDLED_ADVISORIES)
     ELSE IF \/ file.sig # None /\ ~vouched
             \/ file.sig = None /\ ~trust_unsigned
             \/ file.payload = None
     THEN Raised
     ELSE parse_bundle(file.payload, "file", vouched)

(* The pack: the first active installation of a tool whose version could   *)
(* be read.                                                                *)
Installed(tools) ==
  LET readable(t) == {i \in DOMAIN tools : tools[i].name = t /\ tools[i].is_active
                                             /\ tools[i].version # None}
  IN [t \in {tools[i].name : i \in {j \in DOMAIN tools : readable(tools[j].name) # {}}} |->
        tools[CHOOSE i \in readable(t) : \A j \in readable(t) : i <= j].version]

is_affected(version, advisory) ==
  /\ version # Garbled
  /\ Garbled \notin advisory.fixed
  /\ V!IsAffected(version, advisory.introduced, advisory.fixed)

affected_tools(installed, bundle) ==
  {hit \in (DOMAIN installed) \X Range(bundle.advisories) :
     hit[2].tool = hit[1] /\ is_affected(installed[hit[1]], hit[2])}

Advise(tools, bundle) ==
  {[rule |-> "coverage", state |-> "INFO", tells |-> <<bundle.source, bundle.covers>>]}
  \cup {[rule |-> "known-advisory", state |-> "WARN", tells |-> hit] :
          hit \in affected_tools(Installed(tools), bundle)}

(* What is said to be signed was signed for these very entries with the    *)
(* key that was given; --trust-unsigned admits a bundle without signature  *)
(* and never one whose signature is wrong (advisories.py:264-281).         *)
BundleIsVouchedForAt(file, key, trust, bundled) ==
  LET loaded == load_bundle(file, key, trust, bundled)
  IN loaded # Raised /\ file # None =>
       /\ loaded.signed => \E id \in {None, "id"} : file.sig = sign_bytes(file.payload, key, id)
       /\ ~loaded.signed => trust /\ file.sig = None
       /\ loaded = load_bundle(file, key, TRUE, bundled)
       /\ loaded.source # "bundled"

(* What is advised is about a version that runs, and installing a version  *)
(* the advisory calls fixed ends it; nothing readable is passed over       *)
(* because an unreadable installation came first (packs/advisories.py:48). *)
AdviceIsFairAt(tools, bundle) ==
  LET hits == {f.tells : f \in {g \in Advise(tools, bundle) : g.rule = "known-advisory"}}
  IN /\ Cardinality({f \in Advise(tools, bundle) : f.rule = "coverage"}) = 1
     /\ \A hit \in hits : \E i \in DOMAIN tools :
          /\ tools[i].is_active /\ tools[i].name = hit[1] /\ hit[2].tool = hit[1]
          /\ tools[i].version # None
          /\ is_affected(tools[i].version, hit[2])
          /\ \A f \in hit[2].fixed :
               (\A g \in hit[2].fixed : V!Branch(g) = V!Branch(f) => ~V!KeyLess(f, g))
               => LET upgraded == [j \in DOMAIN tools |->
                                     IF tools[j].name = hit[1] THEN [tools[j] EXCEPT !.version = f]
                                     ELSE tools[j]]
                  IN hit \notin affected_tools(Installed(upgraded), bundle)
     /\ \A i \in DOMAIN tools, a \in Range(bundle.advisories) :
          (/\ tools[i].is_active /\ tools[i].name = a.tool /\ tools[i].version # None
           /\ is_affected(tools[i].version, a)
           /\ \A j \in DOMAIN tools : tools[j].name = a.tool /\ j # i => tools[j].version = None)
          => <<a.tool, a>> \in hits

-----------------------------------------------------------------------------
(* Snapshots of the first protocol.  A payload is a function from fields   *)
(* to values; versions are their major number.                             *)

PROTOCOL_VERSION == 2

FIELD_CLASSES ==
  [schema_version |-> "public", protocol_version |-> "public", created_at |-> "public",
   devrepro_version |-> "public", platform |-> "machine-sensitive", tools |-> "machine-sensitive",
   requirements_fingerprint |-> "public", score |-> "public", env_values |-> "secret-forbidden",
   tokens |-> "secret-forbidden"]

classify_payload(payload) ==
  [f \in DOMAIN payload |-> IF f \in DOMAIN FIELD_CLASSES THEN FIELD_CLASSES[f] ELSE "unclassified"]

(* Sorted, so that the order in which requirements were read is forgotten. *)
project_fingerprint(reqs) ==
  Counted([i \in DOMAIN reqs |-> <<reqs[i].ecosystem, reqs[i].name, reqs[i].spec>>])

Get(payload, field, default) == IF field \in DOMAIN payload THEN payload[field] ELSE default

migrate_snapshot(payload) ==
  LET version == Get(payload, "schema_version", 1)
      reqs    == Get(payload, "requirements_fingerprint", <<>>)
      printed == IF reqs # <<>> THEN "project_fingerprint" :> project_fingerprint(reqs) ELSE <<>>
      added   == "protocol_version" :> PROTOCOL_VERSION
                 @@ "provenance" :> [producer_version |-> Get(payload, "devrepro_version", ""),
                                     redacted |-> TRUE]
                 @@ printed
  IN IF version = 2 THEN payload
     ELSE IF version # 1 THEN Raised
     ELSE "schema_version" :> PROTOCOL_VERSION @@ payload @@ added

(* Migrating keeps every field and every class, is done once, and gives    *)
(* the same project the same fingerprint (protocol.py:107).                *)
MigrationKeepsAt(payload) ==
  LET migrated == migrate_snapshot(payload)
  IN migrated # Raised =>
       /\ \A f \in DOMAIN payload \ {"schema_version"} :
            migrated[f] = payload[f] /\ classify_payload(migrated)[f] = classify_payload(payload)[f]
       /\ migrate_snapshot(migrated) = migrated
       /\ migrated["schema_version"] = PROTOCOL_VERSION
       /\ "requirements_fingerprint" \in DOMAIN payload =>
            migrate_snapshot([payload EXCEPT !["requirements_fingerprint"] = Backwards(@)])
              = [migrated EXCEPT !["requirements_fingerprint"] = Backwards(@)]

(* Disagreement: of the fields migration itself adds, provenance has no    *)
(* class in the registry of fields (protocol.py:42).                       *)
AdditionsAreClassifiedAt(payload) ==
  LET migrated == migrate_snapshot(payload)
  IN migrated # Raised => \A f \in DOMAIN migrated : classify_payload(migrated)[f] # "unclassified"

-----------------------------------------------------------------------------
(* Attestations: a statement binds what ran to a file.                     *)

subject_for_bytes(name, data) == [name |-> name, digest |-> data]

verify_subject(subject, data) == subject.digest # None /\ subject.digest = data

(* report.active_versions: a readable version wins over an unreadable one. *)
active_versions(tools) ==
  [t \in {u.name : u \in {w \in Range(tools) : w.is_active}} |->
     IF t \in DOMAIN Installed(tools) THEN Installed(tools)[t] ELSE None]

tool_entries(tools) ==
  {[name |-> t, version |-> active_versions(tools)[t]] : t \in DOMAIN active_versions(tools)}

verdict_counts(findings) == Counted(findings)

build_environment_statement(tools, findings, subject) ==
  [subject |-> subject, toolchain |-> tool_entries(tools), findings |-> verdict_counts(findings)]

(* `devrepro attest`: what is said of a reproduction.                      *)
attest(kind, environment_digest, tools, findings, subject) ==
  CASE kind = "environment" -> build_environment_statement(tools, findings, subject)
    [] kind = "reproduction" /\ environment_digest # None ->
         [subject |-> subject, environmentDigest |-> environment_digest, reproduced |-> TRUE]
    [] OTHER -> Raised

(* Disagreement: `reproduced` is written down by a command that reproduces *)
(* nothing (cli/commands/compliance.py:78).                                *)
ReproductionWasRunAt(was_run, environment_digest, subject) ==
  LET statement == attest("reproduction", environment_digest, <<>>, <<>>, subject)
  IN statement # Raised => statement.reproduced = was_run

(* "an attestation listing `python` twice, once as null, is a signed       *)
(* document that says something false" (attest.py:133): each tool once,    *)
(* with a version that runs, null only where none could be read; every     *)
(* finding counted; and the subject is that file and no other.             *)
StatementIsTrueAt(tools, findings, data, other) ==
  LET statement == build_environment_statement(tools, findings, subject_for_bytes("f", data))
      active    == {t \in Range(tools) : t.is_active}
  IN /\ \A e, f \in statement.toolchain : e.name = f.name => e = f
     /\ \A t \in active : \E e \in statement.toolchain :
          /\ e.name = t.name
          /\ t.version # None => e.version # None
     /\ \A e \in statement.toolchain : \E t \in active : e.name = t.name /\ e.version = t.version
     /\ \A v \in Range(findings) :
          statement.findings[v] = Cardinality({i \in DOMAIN findings : findings[i] = v})
     /\ verify_subject(statement.subject, other) <=> other = data

(* All of it, for the inputs of one kind.                                  *)
ArtifactIsKeptAt(input) ==
  CASE input[1] = "vault"    -> /\ VaultLosesNothingAt(input[2], input[3], input[4])
                                /\ \A keep \in BOOLEAN, key \in {input[4], None} :
                                     OpeningIsSafeAt(input[2], input[3], key, keep)
    [] input[1] = "bundle"   -> BundleIsVouchedForAt(input[2], input[3], input[4], input[5])
    [] input[1] = "advice"   -> AdviceIsFairAt(input[2], input[3])
    [] input[1] = "snapshot" -> MigrationKeepsAt(input[2])
    [] input[1] = "attest"   -> StatementIsTrueAt(input[2], input[3], input[4], input[5])
    [] input[1] = "sign"     -> SignatureHoldsAt(input[2], input[3], input[4], input[5], input[6])

=============================================================================
