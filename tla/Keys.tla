-------------------------------- MODULE Keys --------------------------------
(***************************************************************************)
(* A seed from roughenough_keys to the signatures of a server: operators   *)
(* store seeds and make --seed values of the output (module SeedStorage),  *)
(* servers load them at start and sign delegations from a backend (module  *)
(* SeedBackend).                                                           *)
(***************************************************************************)
EXTENDS SeedStorage, SeedBackend

CONSTANTS
  Deployments,  \* what there is: [procs, servers, backends, values, resources, keys]
  MaxValues     \* bound: values that operators make

VARIABLES
  deployment,   \* one of them
  given         \* history: the --seed that each server was started with

vars == <<files, secrets, values, cli, srv, krs, agent, signed, deployment, given>>

ASSUME DeploymentAssumption ==
  /\ MaxValues \in Nat
  /\ \A d \in Deployments :
       /\ d.procs \subseteq Procs /\ d.servers \subseteq Servers
       /\ \A r \in d.resources : r.id \in Ids
       /\ \A v \in d.values : v.kind = "plain" /\ v.seed = v.origin

Init ==
  /\ deployment \in Deployments
  /\ StorageInit /\ BackendInit("ssh-agent" \in deployment.backends)
  /\ given = [s \in Servers |-> None]

\* What operators ask for: a seed is generated, or one they have is sealed or stored,
\* under some resource; a file is opened with its own key id or another; a value is
\* looked up.
OperatorSeed == [kind |-> "raw", seed |-> 1, origin |-> 1]
File(f) == [kind |-> "file", path |-> f]

Commands ==
  [name : {"generate"}, output : Paths, resource : deployment.resources] \cup
  [name : {"store"}, input : {OperatorSeed} \cup {File(f) : f \in Paths}, output : Paths,
   resource : deployment.resources] \cup
  [name : {"open"}, input : {File(f) : f \in Paths}, output : Paths, key : deployment.keys] \cup
  [name : {"get"}, input : values, output : Paths]

Command(p) ==
  \/ \E cmd \in Commands : Invoke(p, cmd)
  \/ \E outcome \in Outcomes :
       StoreCommand(p, outcome) \/ OpenCommand(p, outcome) \/ GetCommand(p, outcome)
  \/ WriteOutput(p)

\* An operator makes a value of a file.
Operate ==
  /\ Cardinality(values) < MaxValues
  /\ \E f \in Paths, m \in Protection \ {"Plain"}, complete \in BOOLEAN : MakeValue(f, m, complete)

\* load_seed: all zero without --seed, a panic when it cannot be loaded.
LoadSeed(s) ==
  \/ Loaded(s, Just(0)) /\ UNCHANGED given
  \/ \E v \in values \cup deployment.values, outcome \in Outcomes :
       LET seed == try_load_seed(v, outcome)
       IN  /\ Loaded(s, IF seed.is = "ok" THEN Just(seed.value) ELSE Nothing)
           /\ given' = [given EXCEPT ![s] = Some(v)]

Start(s) == \E kind \in deployment.backends : ChooseBackend(s, kind)

Next ==
  \/ /\ (\E p \in deployment.procs : Command(p)) \/ Operate
     /\ UNCHANGED <<backendVars, deployment, given>>
  \/ /\ \E s \in deployment.servers : LoadSeed(s)
     /\ UNCHANGED <<storageVars, deployment>>
  \/ /\ \/ \E s \in deployment.servers : Start(s) \/ ServerStep(s) \/ KrsStep(s) \/ ServerEvent(s)
        \/ AgentStops
     /\ UNCHANGED <<storageVars, deployment, given>>

\* The threads of a server are scheduled fairly; what operators and services do is
\* up to them.
Fairness == \A s \in Servers :
  /\ WF_vars(ServerStep(s) /\ UNCHANGED <<storageVars, deployment, given>>)
  /\ WF_vars(KrsStep(s) /\ UNCHANGED <<storageVars, deployment, given>>)

Spec == Init /\ [][Next]_vars /\ Fairness

-----------------------------------------------------------------------------
\* The seed is the one that the text was made for.  (A value that names an AWS secret
\* gives what has been stored there since, too.)
Meant(text, seed) ==
  IF text.kind = "value" /\ text.method = "AwsSecretManager"
  THEN seed \in {secrets[<<"AwsSecretManager", text.json.env.key_id.id>>][i] :
                   i \in DOMAIN secrets[<<"AwsSecretManager", text.json.env.key_id.id>>]}
  ELSE seed = text.origin

\* Whatever other commands have stored in the meantime, and whichever prefix an
\* operator puts in front of it: a value that get or a server loads at all gives the
\* seed that was stored when its envelope was made (storage.rs:294, gcpsecret.rs:58,
\* envelope.rs:40).
EnvelopeNamesItsSeed ==
  /\ \A f \in Paths :
       files[f] # None /\ files[f][1].kind = "hex" /\ files[f][1].from.kind # "json" =>
         Meant(files[f][1].from, files[f][1].seed)
  /\ \A s \in Servers :
       given[s] # None /\ srv[s].seed # Nothing => Meant(given[s][1], srv[s].seed[1])

\* keys.rs:68 "Decrypt an envelope encrypted long-term identity seed": what open
\* writes is the seed that was sealed in the envelope.
OpenGivesSealedSeed ==
  \A f \in Paths :
    files[f] # None /\ files[f][1].kind = "hex" /\ files[f][1].from.kind = "json" =>
      files[f][1].seed = files[f][1].from.origin

\* Every delegation is signed under the public key that the server has logged, which
\* is that of the seed it was configured with: whatever the backend, whoever else
\* uses the agent, and however the seed got from the command line to --seed.
SignsAsConfigured ==
  \A g \in signed :
    /\ srv[g.server].public_key = Just(g.key)
    /\ IF given[g.server] = None THEN g.key = 0 ELSE Meant(given[g.server][1], g.key)

\* From the end of store_seed to its drop a backend has the seed whose public key it
\* hands out: the thread of the key ring has not ended behind its back and nothing
\* has removed the key, unless the agent has stopped or another server that uses it
\* has ended (linuxkrs.rs:107, linuxkrs.rs:156, sshagent.rs:45).
SeedStaysAvailable ==
  \A s \in Servers :
    srv[s].pc \in {"identity", "serve", "wait_sign", "poisoned"} =>
      CASE srv[s].kind = "memory" -> srv[s].memory = srv[s].public_key
        [] srv[s].kind = "krs" -> krs[s].thread = "running" /\ krs[s].ring = srv[s].public_key
        [] srv[s].kind = "ssh-agent" ->
             \/ ~agent.up
             \/ \E t \in Servers \ {s} : srv[t].kind = "ssh-agent" /\ srv[t].pc = "gone"
             \/ srv[s].public_key[1] \in agent.keys

\* Calls to the key-ring backend return, and its drop does, whenever its thread ends:
\* before it has its ring, between a request and the answer, or by Shutdown
\* (linuxkrs.rs:107, linuxkrs.rs:236, linuxkrs.rs:292).
CallsReturn ==
  \A s \in Servers :
    /\ srv[s].pc = "wait_store" ~> srv[s].pc # "wait_store"
    /\ srv[s].pc = "wait_sign" ~> srv[s].pc # "wait_sign"
    /\ srv[s].pc = "drop" ~> srv[s].pc = "gone"
=============================================================================
