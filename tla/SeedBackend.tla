----------------------------- MODULE SeedBackend -----------------------------
(***************************************************************************)
(* The backends that keep a server's seed while it runs: in memory, in the *)
(* key ring of a thread of its own (linuxkrs.rs), or in an ssh-agent that  *)
(* servers may share (sshagent.rs); and what a server does with its        *)
(* backend, from load_seed to the drop (roughenough-server/src/main.rs,    *)
(* roughenough-keys/src/longterm/identity.rs).                             *)
(*                                                                         *)
(* A key is named by its seed.  Only one thread of a server calls its      *)
(* backend at a time: the identity is behind a mutex (module Server).      *)
(***************************************************************************)
EXTENDS Integers, Sequences

CONSTANTS
  Servers,
  Backends,    \* the backends that were compiled in
  MaxSigns     \* bound: delegations signed by a server

ASSUME BackendAssumption ==
  Backends \subseteq {"memory", "krs", "ssh-agent"} /\ MaxSigns \in Nat

VARIABLES
  srv,      \* the servers
  krs,      \* the worker thread of each KRS backend, and its channels
  agent,    \* the ssh-agent: [up, keys]
  signed    \* history: who had what signed, under which key

backendVars == <<srv, krs, agent, signed>>

Nothing == <<>>
Just(x) == <<x>>

NoServer == [pc |-> "off", kind |-> "", seed |-> Nothing, public_key |-> Nothing,
             seed_len |-> 0, memory |-> Nothing, signs |-> 0]

NoThread == [thread |-> "none", ring |-> Nothing, queue |-> <<>>, reply |-> "none",
             response |-> Nothing]

BackendInit(hasAgent) ==
  /\ srv = [s \in Servers |-> NoServer]
  /\ krs = [s \in Servers |-> NoThread]
  /\ agent = [up |-> hasAgent, keys |-> {}]
  /\ signed = {}

Go(s, place) == srv' = [srv EXCEPT ![s].pc = place]

\* A panic in main unwinds it, and drops the backend on the way.
Unwind(s) == Go(s, "drop")

\* load_seed: the seed is there, or the process panics with nothing made yet.
Loaded(s, seed) ==
  /\ srv[s].pc = "off"
  /\ srv' = [srv EXCEPT ![s] = IF seed = Nothing THEN [@ EXCEPT !.pc = "gone"]
                               ELSE [@ EXCEPT !.pc = "choose", !.seed = seed]]
  /\ UNCHANGED <<krs, agent, signed>>

\* try_choose_backend: LinuxKrsBackend::new starts the thread and knows nothing of
\* its fate; SshAgentBackend::new connects.
ChooseBackend(s, kind) ==
  /\ srv[s].pc = "choose"
  /\ IF kind \notin Backends \/ (kind = "ssh-agent" /\ ~agent.up)
     THEN Go(s, "gone") /\ UNCHANGED krs
     ELSE /\ srv' = [srv EXCEPT ![s].pc = "store", ![s].kind = kind]
          /\ krs' = IF kind = "krs" THEN [krs EXCEPT ![s].thread = "starting"] ELSE krs
  /\ UNCHANGED <<agent, signed>>

-----------------------------------------------------------------------------
(***************************************************************************)
(* The worker thread of the KRS backend.  A request carries the sender of  *)
(* the channel that is answered; when the thread is gone, the requests it  *)
(* has not taken are dropped, and the channels they are answered on with   *)
(* them.  reply is "none", "pending", "sent" or "closed".                  *)
(***************************************************************************)
\* request_tx.send, then recv on the response channel: at once WorkerDisconnect when
\* the thread is gone.
Request(s, req, waiting) ==
  IF krs[s].thread = "gone"
  THEN krs' = [krs EXCEPT ![s].reply = "closed"] /\ Go(s, waiting)
  ELSE /\ krs' = [krs EXCEPT ![s].queue = Append(@, req), ![s].reply = "pending"]
       /\ Go(s, waiting)

\* The thread ends, by return or by panic; its key ring ends with it.
ThreadEnds(k) ==
  [k EXCEPT !.thread = "gone", !.ring = Nothing, !.queue = <<>>,
            !.reply = IF @ = "pending" THEN "closed" ELSE @]

\* worker_thread up to its loop: the key ring is there and empty, or the thread ends.
KrsStart(s, ok) ==
  /\ krs[s].thread = "starting"
  /\ krs' = [krs EXCEPT ![s] = IF ok THEN [@ EXCEPT !.thread = "running"] ELSE ThreadEnds(@)]
  /\ UNCHANGED <<srv, agent, signed>>

Answer(k, response) == [k EXCEPT !.queue = Tail(@), !.reply = "sent", !.response = response]

\* Mutant: the error of add_key is not passed on.
handle_store_seed_Deaf(k, seed, outcome) ==
  Answer([k EXCEPT !.ring = IF outcome = "add_key fails" THEN @ ELSE Just(seed)], Just(seed))

\* handle_store_seed: panics when there is a key; a key whose permissions could not
\* be set stays in the ring.
handle_store_seed(k, seed, outcome) ==
  IF k.ring # Nothing THEN ThreadEnds(k)
  ELSE CASE outcome = "add_key fails"   -> Answer(k, Nothing)
         [] outcome = "set_perms fails" -> Answer([k EXCEPT !.ring = Just(seed)], Nothing)
         [] outcome = "ok"              -> Answer([k EXCEPT !.ring = Just(seed)], Just(seed))

\* handle_sign over handle_get_seed: an error when the key is not there or cannot be
\* read, and a signature under it else.
handle_sign(k, outcome) == Answer(k, IF outcome = "ok" THEN k.ring ELSE Nothing)

\* One turn of the loop of worker_thread; after Shutdown the ring is cleared.
KrsHandle(s) ==
  /\ krs[s].thread = "running" /\ krs[s].queue # <<>>
  /\ LET req == Head(krs[s].queue)
     IN  \/ /\ req.type = "StoreSeed"
            /\ \E outcome \in {"ok", "add_key fails", "set_perms fails"} :
                 krs' = [krs EXCEPT ![s] = handle_store_seed(@, req.seed, outcome)]
         \/ /\ req.type = "Sign"
            /\ \E outcome \in {"ok", "read fails"} : krs' = [krs EXCEPT ![s] = handle_sign(@, outcome)]
         \/ /\ req.type = "Shutdown"
            /\ krs' = [krs EXCEPT ![s] = ThreadEnds(@)]
  /\ UNCHANGED <<srv, agent, signed>>

\* recv on the response channel returns: Just(x) for Ok, Nothing for an error.
Returned(s) == krs[s].reply \in {"sent", "closed"}
Response(s) == IF krs[s].reply = "sent" THEN krs[s].response ELSE Nothing
Hang(s) == krs' = [krs EXCEPT ![s].reply = "none", ![s].response = Nothing]

-----------------------------------------------------------------------------
\* store_seed(..).unwrap(), the backend's state behind it.
StoredAndKnown(s, seed) ==
  [srv[s] EXCEPT !.pc = "identity", !.public_key = Just(seed), !.seed_len = 32, !.seed = Nothing]

\* MemoryBackend::store_seed
StoreMemory(s) ==
  /\ srv[s].pc = "store" /\ srv[s].kind = "memory"
  /\ srv' = [srv EXCEPT ![s] = [StoredAndKnown(s, @.seed[1]) EXCEPT !.memory = srv[s].seed]]
  /\ UNCHANGED <<krs, agent, signed>>

\* SshAgentBackend::store_seed
StoreAgent(s) ==
  /\ srv[s].pc = "store" /\ srv[s].kind = "ssh-agent"
  /\ IF agent.up
     THEN /\ srv' = [srv EXCEPT ![s] = StoredAndKnown(s, @.seed[1])]
          /\ agent' = [agent EXCEPT !.keys = @ \cup {srv[s].seed[1]}]
     ELSE Unwind(s) /\ UNCHANGED agent
  /\ UNCHANGED <<krs, signed>>

\* LinuxKrsBackend::store_seed
StoreKrs(s) ==
  /\ srv[s].pc = "store" /\ srv[s].kind = "krs"
  /\ Request(s, [type |-> "StoreSeed", seed |-> srv[s].seed[1]], "wait_store")
  /\ UNCHANGED <<agent, signed>>

StoreKrsReturns(s) ==
  /\ srv[s].pc = "wait_store" /\ Returned(s)
  /\ IF Response(s) = Nothing THEN Unwind(s)
     ELSE srv' = [srv EXCEPT ![s] = StoredAndKnown(s, Response(s)[1])]
  /\ Hang(s)
  /\ UNCHANGED <<agent, signed>>

\* KeySource::new over LongTermIdentity::new, which asserts the length of the seed,
\* and the public key in the log, which unwraps it.
MakeIdentity(s) ==
  /\ srv[s].pc = "identity"
  /\ IF srv[s].seed_len = 32 /\ srv[s].public_key # Nothing THEN Go(s, "serve") ELSE Unwind(s)
  /\ UNCHANGED <<krs, agent, signed>>

-----------------------------------------------------------------------------
\* make_online_key_*: a delegation is signed, or the `expect` poisons the identity,
\* after which nothing is signed any more.
Sign(s, key) ==
  IF key = Nothing THEN Go(s, "poisoned") /\ UNCHANGED signed
  ELSE /\ srv' = [srv EXCEPT ![s].pc = "serve", ![s].signs = @ + 1]
       /\ signed' = signed \cup {[server |-> s, key |-> key[1]]}

MaySign(s) == srv[s].pc = "serve" /\ srv[s].signs < MaxSigns

\* MemoryBackend::sign
SignMemory(s) ==
  /\ MaySign(s) /\ srv[s].kind = "memory"
  /\ Sign(s, srv[s].memory)
  /\ UNCHANGED <<krs, agent>>

\* Mutant: whatever identity the agent has.
AgentKey_Any(s) == IF agent.keys = {} THEN Nothing ELSE Just(CHOOSE k \in agent.keys : TRUE)

\* SshAgentBackend::sign: the agent is asked for a signature under public_key.  It signs
\* with an identity that it has; an agent that is up and refuses is not modelled.
AgentKey(s) == IF srv[s].public_key[1] \in agent.keys THEN srv[s].public_key ELSE Nothing

SignAgent(s) ==
  /\ MaySign(s) /\ srv[s].kind = "ssh-agent"
  /\ Sign(s, AgentKey(s))
  /\ UNCHANGED <<krs, agent>>

\* LinuxKrsBackend::sign
SignKrs(s) ==
  /\ MaySign(s) /\ srv[s].kind = "krs"
  /\ Request(s, [type |-> "Sign"], "wait_sign")
  /\ UNCHANGED <<agent, signed>>

SignKrsReturns(s) ==
  /\ srv[s].pc = "wait_sign" /\ Returned(s)
  /\ Sign(s, Response(s))
  /\ Hang(s)
  /\ UNCHANGED agent

-----------------------------------------------------------------------------
\* main has joined its threads and returns, or passes on the panic of one of them;
\* the last KeySource drops the backend.
Shutdown(s) ==
  /\ srv[s].pc \in {"serve", "poisoned"}
  /\ Go(s, "drop")
  /\ UNCHANGED <<krs, agent, signed>>

\* main passes on a panic while workers still hold KeySources: the process ends
\* without a drop.
Abandon(s) ==
  /\ srv[s].pc = "poisoned"
  /\ Go(s, "gone")
  /\ krs' = IF srv[s].kind = "krs" THEN [krs EXCEPT ![s] = ThreadEnds(@)] ELSE krs
  /\ UNCHANGED <<agent, signed>>

\* SshAgentBackend::drop removes every identity, not only its own.
DropBackend(s) ==
  /\ srv[s].pc = "drop" /\ srv[s].kind \in {"memory", "ssh-agent"}
  /\ Go(s, "gone")
  /\ agent' = IF srv[s].kind = "ssh-agent" THEN [agent EXCEPT !.keys = {}] ELSE agent
  /\ UNCHANGED <<krs, signed>>

\* Mutant: the thread is joined without being told to end.
LastRequest_None(k) == k

\* request_tx.send(Request::Shutdown), whose error is only logged.
LastRequest(k) ==
  IF k.thread = "gone" THEN k ELSE [k EXCEPT !.queue = Append(@, [type |-> "Shutdown"])]

\* LinuxKrsBackend::drop
DropKrs(s) ==
  /\ srv[s].pc = "drop" /\ srv[s].kind = "krs"
  /\ krs' = [krs EXCEPT ![s] = LastRequest(@)]
  /\ Go(s, "join")
  /\ UNCHANGED <<agent, signed>>

JoinKrs(s) ==
  /\ srv[s].pc = "join" /\ krs[s].thread = "gone"
  /\ Go(s, "gone")
  /\ UNCHANGED <<krs, agent, signed>>

\* The ssh-agent ends.
AgentStops ==
  /\ agent.up
  /\ agent' = [up |-> FALSE, keys |-> {}]
  /\ UNCHANGED <<srv, krs, signed>>

\* What the main thread does by itself, and what the worker thread does.
ServerStep(s) ==
  \/ StoreMemory(s) \/ StoreAgent(s) \/ StoreKrs(s) \/ StoreKrsReturns(s) \/ MakeIdentity(s)
  \/ SignKrsReturns(s) \/ DropBackend(s) \/ DropKrs(s) \/ JoinKrs(s)

KrsStep(s) == KrsHandle(s) \/ \E ok \in BOOLEAN : KrsStart(s, ok)

\* What makes it do more: time, and Ctrl-C.
ServerEvent(s) ==
  SignMemory(s) \/ SignAgent(s) \/ SignKrs(s) \/ Shutdown(s) \/ Abandon(s)
=============================================================================
