----------------------------- MODULE SeedStorage -----------------------------
(***************************************************************************)
(* Long-term storage of a seed: roughenough_keys (roughenough-keys/bin/    *)
(* keys.rs), which seals seeds into envelopes or puts them into secret     *)
(* managers, and the loading of what an operator makes of its output       *)
(* (storage.rs, longterm/).                                                *)
(*                                                                         *)
(* Seeds and data encryption keys are numbers.  Texts are records that say *)
(* what they are a text of:                                                *)
(*   raw    the 32 bytes of a seed                                         *)
(*   hex    a seed in hex with a newline, as get and open write it (with   *)
(*          the text that they read, a history field)                      *)
(*   json   an envelope as JSON, with the fields that were written         *)
(*   plain  a seed in hex, with or without seed:// in front                *)
(*   value  prefix of a protection and encoded JSON, as --seed takes it    *)
(* `origin` is a history field: the seed the text was made from.           *)
(***************************************************************************)
EXTENDS Integers, Sequences, FiniteSets

CONSTANTS
  Procs,      \* bound: invocations of roughenough_keys, numbered as they start
  Paths,      \* output files
  Ids,        \* names of keys and of secrets
  Features    \* the protections that were compiled in

VARIABLES
  files,      \* content of each file
  secrets,    \* the values that each secret has had, the current one last
  values,     \* what operators have at hand for --seed and for get
  cli         \* the invocations

storageVars == <<files, secrets, values, cli>>

None == <<>>
Some(x) == <<x>>

Kms == {"AwsKms", "GcpKms"}
SecretManagers == {"AwsSecretManager", "GcpSecretManager"}

\* Protection; Bare is an id without a known prefix.
Bare == "none"
Protection == Kms \cup SecretManagers \cup {"Plain"}

ASSUME StorageAssumption == Procs \subseteq Nat /\ Features \subseteq Protection \ {"Plain"}

\* A resource: prefix and id, and the version that a GCP id may end in (0: none).
Resource(m, id, n) == [method |-> m, id |-> id, version |-> n]

\* A call to a service: answered, refused, or done with the answer lost.
Outcomes == {"ok", "refused", "lost"}

Ok(x) == [is |-> "ok", value |-> x]
Err   == [is |-> "error"]
Panic == [is |-> "panic"]

-----------------------------------------------------------------------------
AAD == "roughenough-seed"

\* seal_seed, open_seed: AES-GCM under a data encryption key, bound to the AAD.
seal_seed(dek, seed, aad) == [dek |-> dek, aad |-> aad, seed |-> seed]
Opens(dek, ct, aad) == ct.dek = dek /\ ct.aad = aad

\* seal_dek: the KMS encrypts the DEK under a key that it names.
seal_dek(dek, id) == [key |-> id, dek |-> dek]

\* AwsKms::encrypt_seed, GcpKms::encrypt_seed: every failure of the service panics.
encrypt_seed(m, id, seed, dek, outcome) ==
  IF outcome # "ok" THEN Panic
  ELSE Ok([key_id  |-> Resource(m, id, 0),
           seed_ct |-> Some(seal_seed(dek, seed, AAD)),
           dek_ct  |-> Some(seal_dek(dek, id)),
           origin  |-> seed])

\* open_dek: panics when the service fails, or has sealed it under another key.
OpensDek(dek_ct, id, outcome) == outcome = "ok" /\ dek_ct # None /\ dek_ct[1].key = id

\* AwsKms::decrypt_seed, GcpKms::decrypt_seed: a wrong prefix, a DEK that does not
\* open, another DEK and other AAD panic.
decrypt_seed(m, env, outcome) ==
  IF /\ env.key_id.method = m
     /\ OpensDek(env.dek_ct, env.key_id.id, outcome)
     /\ env.seed_ct # None /\ Opens(env.dek_ct[1].dek, env.seed_ct[1], AAD)
  THEN Ok(env.seed_ct[1].seed)
  ELSE Panic

\* GcpSecretManager::store_seed adds a version to the secret (extract_secret_parent
\* drops the one in the name), AwsSecretManager::store_seed replaces the current
\* value.  An answer that is lost is an error.
Stored(m, id, seed) == [secrets EXCEPT ![<<m, id>>] = Append(@, seed)]

\* Mutant: the envelope names the resource that was asked for.
StoredAs_Asked(res, n) == res

\* try_store_*_secret_manager: the name that goes into the envelope, n being the
\* number of the new version.
StoredAs(res, n) == IF res.method = "GcpSecretManager" THEN Resource(res.method, res.id, n) ELSE res

\* AwsSecretManager::get_seed, GcpSecretManager::get_seed: the current value, the
\* version named; everything that fails panics.
get_seed(res, outcome) ==
  LET s == secrets[<<res.method, res.id>>]
  IN  IF outcome # "ok" THEN Panic
      ELSE IF res.method = "AwsSecretManager" /\ s # <<>> THEN Ok(s[Len(s)])
      ELSE IF res.method = "GcpSecretManager" /\ res.version \in DOMAIN s THEN Ok(s[res.version])
      ELSE Panic

-----------------------------------------------------------------------------
\* SeedEnvelope as JSON: empty ciphertexts are skipped when it is written, and no
\* field may be missing when it is read.
AllFields == {"key_id", "seed_ct", "dek_ct"}
to_json(env) ==
  [kind |-> "json", env |-> env, origin |-> env.origin,
   fields |-> AllFields \ ((IF env.seed_ct = None THEN {"seed_ct"} ELSE {}) \cup
                           (IF env.dek_ct = None THEN {"dek_ct"} ELSE {}))]
from_json_ok(text) == text.kind = "json" /\ text.fields = AllFields

\* try_store_seed, Protection::try_store.
try_store_seed(seed, res, dek, outcome) ==
  IF res.method = Bare THEN Err
  ELSE IF res.method = "Plain" THEN Panic
  ELSE IF res.method \notin Features THEN Err
  ELSE IF res.method \in Kms THEN encrypt_seed(res.method, res.id, seed, dek, outcome)
  ELSE IF outcome # "ok" THEN Err
  ELSE Ok([key_id |-> StoredAs(res, Len(secrets[<<res.method, res.id>>]) + 1),
           seed_ct |-> None, dek_ct |-> None, origin |-> seed])

\* What try_store_seed leaves in the secret managers.
SecretsAfterStore(seed, res, outcome) ==
  IF res.method \in SecretManagers \cap Features /\ outcome # "refused"
  THEN Stored(res.method, res.id, seed) ELSE secrets

\* try_load_seed, Protection::try_load: a text without a prefix must decode to 32
\* bytes.
try_load_seed(text, outcome) ==
  IF text.kind = "plain" THEN Ok(text.seed)
  ELSE IF text.kind # "value" \/ text.method \notin Features THEN Err
  ELSE IF ~from_json_ok(text.json) THEN Err
  ELSE IF text.method \in Kms THEN decrypt_seed(text.method, text.json.env, outcome)
  ELSE IF text.json.env.key_id.method # text.method THEN Panic
  ELSE get_seed(text.json.env.key_id, outcome)

-----------------------------------------------------------------------------
(***************************************************************************)
(* The commands.  A process opens its input and creates its output, works, *)
(* and writes: pc is "idle", "work", "write" or "exited".                  *)
(***************************************************************************)
Empty == [kind |-> "empty"]

\* The random seeds that a process draws: of generate, and the first one of open.
\* A process also draws one DEK.
new_random(p) == 10 + p
placeholder(p) == 20 + p
Dek(p) == p

StorageInit ==
  /\ files = [f \in Paths |-> None]
  /\ secrets = [s \in SecretManagers \X Ids |-> <<>>]
  /\ values = {}
  /\ cli = [p \in Procs |-> [pc |-> "idle"]]

\* What a command reads: the seed of the operator, an output file, or a value.
Readable(input) == input.kind # "file" \/ files[input.path] # None
Content(input) == IF input.kind = "file" THEN files[input.path][1] ELSE input

\* main: infile_from_arg(..).unwrap(), then outfile_from_arg(..).unwrap(), which
\* creates the file and fails when there is one (generate has no input).
Invoke(p, cmd) ==
  /\ cli[p].pc = "idle" /\ \A q \in Procs : q < p => cli[q].pc # "idle"
  /\ IF (cmd.name = "generate" \/ Readable(cmd.input)) /\ files[cmd.output] = None
     THEN /\ files' = [files EXCEPT ![cmd.output] = Some(Empty)]
          /\ cli' = [cli EXCEPT ![p] = [pc |-> "work", cmd |-> cmd]]
     ELSE /\ cli' = [cli EXCEPT ![p] = [pc |-> "exited"]]
          /\ UNCHANGED files
  /\ UNCHANGED <<secrets, values>>

\* What is left to do: write the text, or nothing after an error or a panic.
Then(p, result, text) ==
  cli' = [cli EXCEPT ![p] = IF result.is = "ok"
                            THEN [pc |-> "write", cmd |-> @.cmd, text |-> text]
                            ELSE [pc |-> "exited"]]

\* handle_generate, and handle_seal and handle_store, which do the same ("store"): a
\* seed that is not 32 bytes long is an error.
StoreCommand(p, outcome) ==
  LET cmd  == cli[p].cmd
      raw  == cmd.name = "generate" \/ Content(cmd.input).kind = "raw"
      seed == IF cmd.name = "generate" THEN new_random(p) ELSE Content(cmd.input).seed
  IN  /\ cli[p].pc = "work" /\ cmd.name \in {"generate", "store"}
      /\ IF raw
         THEN LET result == try_store_seed(seed, cmd.resource, Dek(p), outcome)
              IN  /\ Then(p, result, IF result.is = "ok" THEN to_json(result.value) ELSE Empty)
                  /\ secrets' = SecretsAfterStore(seed, cmd.resource, outcome)
         ELSE Then(p, Err, Empty) /\ UNCHANGED secrets
      /\ UNCHANGED <<files, values>>

Hex(seed, text) == [kind |-> "hex", seed |-> seed, from |-> text]

\* handle_open: the key id may be overridden; the seed is a random one unless a KMS
\* that was compiled in recognises the id.
OpenCommand(p, outcome) ==
  LET cmd  == cli[p].cmd
      text == Content(cmd.input)
      env  == IF cmd.key = None THEN text.env ELSE [text.env EXCEPT !.key_id = cmd.key[1]]
      seed == IF env.key_id.method \in Kms \cap Features
              THEN decrypt_seed(env.key_id.method, env, outcome)
              ELSE Ok(placeholder(p))
  IN  /\ cli[p].pc = "work" /\ cmd.name = "open"
      /\ IF ~from_json_ok(text) THEN Then(p, Panic, Empty)
         ELSE IF Kms \cap Features = {} THEN Then(p, Err, Empty)
         ELSE Then(p, seed, IF seed.is = "ok" THEN Hex(seed.value, text) ELSE Empty)
      /\ UNCHANGED <<files, secrets, values>>

\* handle_get
GetCommand(p, outcome) ==
  LET text == Content(cli[p].cmd.input)
      seed == try_load_seed(text, outcome)
  IN  /\ cli[p].pc = "work" /\ cli[p].cmd.name = "get"
      /\ Then(p, seed, IF seed.is = "ok" THEN Hex(seed.value, text) ELSE Empty)
      /\ UNCHANGED <<files, secrets, values>>

\* output.write_all, and the process ends.
WriteOutput(p) ==
  /\ cli[p].pc = "write"
  /\ files' = [files EXCEPT ![cli[p].cmd.output] = Some(cli[p].text)]
  /\ cli' = [cli EXCEPT ![p] = [pc |-> "exited"]]
  /\ UNCHANGED <<secrets, values>>

\* The operator makes a value for --seed or get of an output: the encoded JSON with
\* a prefix in front, with the missing fields put in or not, or the seed itself.
MakeValue(path, m, complete) ==
  /\ files[path] # None
  /\ LET text == files[path][1]
     IN  \/ /\ text.kind = "json"
            /\ values' = values \cup
                 {[kind |-> "value", method |-> m, origin |-> text.origin,
                   json |-> IF complete THEN [text EXCEPT !.fields = AllFields] ELSE text]}
         \/ /\ text.kind = "hex"
            /\ values' = values \cup
                 {[kind |-> "plain", seed |-> text.seed, origin |-> text.seed]}
  /\ UNCHANGED <<files, secrets, cli>>
=============================================================================
