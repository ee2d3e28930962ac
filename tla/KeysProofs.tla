----------------------------- MODULE KeysProofs -----------------------------
(***************************************************************************)
(* Theorems about module Keys, for any number of servers, commands, files  *)
(* and services, and whatever fails.                                       *)
(***************************************************************************)
EXTENDS Keys, TLAPS

(***************************************************************************)
(* The backends.                                                           *)
(***************************************************************************)
Loading == {"choose", "store", "wait_store"}
Early == {"off", "choose", "store", "wait_store"}
Held == {"identity", "serve", "wait_sign", "poisoned"}

\* The fields that the steps of a server read and write.
ServerFields == {"pc", "kind", "seed", "public_key", "seed_len", "memory", "signs"}
ThreadFields == {"thread", "ring", "queue", "reply", "response"}

RecordsInv ==
  /\ DOMAIN srv = Servers /\ DOMAIN krs = Servers /\ DOMAIN agent = {"up", "keys"}
  /\ \A s \in Servers : DOMAIN srv[s] = ServerFields /\ DOMAIN krs[s] = ThreadFields

\* A seed waits to be stored, or its public key is known.
SeedInv(v) ==
  /\ v.pc = "off" => v.seed = Nothing /\ v.public_key = Nothing
  /\ v.pc \in Loading => v.seed = Just(v.seed[1]) /\ v.public_key = Nothing
  /\ v.pc \in {"store", "wait_store"} => v.kind \in {"memory", "krs", "ssh-agent"}
  /\ v.pc \in Held =>
       /\ v.public_key = Just(v.public_key[1]) /\ v.kind \in {"memory", "krs", "ssh-agent"}
       /\ v.kind = "memory" => v.memory = v.public_key

\* The requests that a server sends before it drops its backend.
StoreReq(seed) == [type |-> "StoreSeed", seed |-> seed]
SignReq == [type |-> "Sign"]

\* The key ring of a server, from the choice of the backend to its drop: it is empty
\* until the seed is stored, one request at most is under way, and once the seed is
\* stored the thread has not ended.
KrsInv(v, k) ==
  /\ v.pc \in {"off", "choose", "store"} => k.queue = <<>> /\ k.reply = "none" /\ k.ring = Nothing
  /\ v.pc = "store" /\ v.kind = "krs" => k.thread \in {"starting", "running", "gone"}
  /\ v.pc = "wait_store" =>
       /\ v.kind = "krs"
       /\ \/ /\ k.reply = "pending" /\ k.thread \in {"starting", "running"} /\ k.ring = Nothing
             /\ k.queue = <<StoreReq(v.seed[1])>>
          \/ /\ k.reply = "sent" /\ k.thread = "running" /\ k.queue = <<>>
             /\ k.response # Nothing => k.response = Just(v.seed[1]) /\ k.ring = k.response
          \/ k.reply = "closed" /\ k.thread = "gone"
  /\ v.pc \in Held /\ v.kind = "krs" =>
       /\ k.thread = "running" /\ k.ring = v.public_key
       /\ v.pc # "wait_sign" => k.queue = <<>> /\ k.reply = "none"
  /\ v.pc = "wait_sign" =>
       /\ v.kind = "krs"
       /\ \/ k.reply = "pending" /\ k.queue = <<SignReq>>
          \/ k.reply = "sent" /\ k.queue = <<>> /\ k.response \in {Nothing, k.ring}

\* The agent has the key, unless it has stopped or another server has ended.
AgentInv(s) ==
  srv[s].pc \in Held /\ srv[s].kind = "ssh-agent" =>
    \/ ~agent.up
    \/ \E t \in Servers \ {s} : srv[t].kind = "ssh-agent" /\ srv[t].pc = "gone"
    \/ srv[s].public_key[1] \in agent.keys

\* What is signed is signed under the public key, which is known by then.
SignedInv ==
  \A g \in signed :
    /\ g.server \in Servers
    /\ srv[g.server].pc \notin Early
    /\ srv[g.server].public_key = Just(g.key)

BackendInv ==
  /\ RecordsInv /\ SignedInv
  /\ \A s \in Servers : SeedInv(srv[s]) /\ KrsInv(srv[s], krs[s]) /\ AgentInv(s)

-----------------------------------------------------------------------------
LEMMA BackendInit_ == ASSUME NEW b, BackendInit(b) PROVE BackendInv
<1>1. ASSUME NEW s \in Servers PROVE srv[s] = NoServer /\ krs[s] = NoThread
  BY DEF BackendInit
<1>2. RecordsInv
  BY <1>1 DEF BackendInit, RecordsInv, NoServer, NoThread, ServerFields, ThreadFields
<1>3. SignedInv
  BY DEF BackendInit, SignedInv
<1>4. SeedInv(NoServer) /\ KrsInv(NoServer, NoThread)
  <2>1. NoServer.pc = "off" /\ NoServer.seed = Nothing /\ NoServer.public_key = Nothing
    BY DEF NoServer
  <2>2. NoThread.queue = <<>> /\ NoThread.reply = "none" /\ NoThread.ring = Nothing
    BY DEF NoThread
  <2> QED
    BY <2>1, <2>2 DEF SeedInv, KrsInv, Loading, Held
<1>5. ASSUME NEW s \in Servers PROVE AgentInv(s)
  <2>1. NoServer.pc = "off"
    BY DEF NoServer
  <2> QED
    BY <1>1, <2>1 DEF AgentInv, Held
<1> QED
  BY <1>1, <1>2, <1>3, <1>4, <1>5 DEF BackendInv

\* A step changes the record of one server, and that of its key ring.
SrvFrame(s) ==
  /\ DOMAIN srv' = Servers /\ DOMAIN srv'[s] = ServerFields
  /\ \A t \in Servers \ {s} : srv'[t] = srv[t]

KrsFrame(s) ==
  /\ DOMAIN krs' = Servers /\ DOMAIN krs'[s] = ThreadFields
  /\ \A t \in Servers \ {s} : krs'[t] = krs[t]

\* One server does something, and removes nothing from the agent.
LEMMA OneServer ==
  ASSUME BackendInv, NEW s \in Servers, SrvFrame(s), KrsFrame(s),
         DOMAIN agent' = DOMAIN agent, agent'.up = agent.up, agent.keys \subseteq agent'.keys,
         \/ srv[s].pc \in Early
         \/ srv'[s].pc \notin Early /\ srv'[s].public_key = srv[s].public_key,
         \A g \in signed' :
           \/ g \in signed
           \/ g.server = s /\ srv'[s].pc \notin Early /\ srv'[s].public_key = Just(g.key),
         srv[s].pc = "gone" => srv'[s] = srv[s],
         SeedInv(srv'[s]), KrsInv(srv'[s], krs'[s]),
         srv'[s].pc \in Held /\ srv'[s].kind = "ssh-agent" =>
           \/ srv'[s].public_key[1] \in agent'.keys
           \/ srv[s].pc \in Held /\ srv[s].kind = "ssh-agent" /\ srv'[s].public_key = srv[s].public_key
  PROVE  BackendInv'
<1>1. ASSUME NEW t \in Servers PROVE SeedInv(srv'[t]) /\ KrsInv(srv'[t], krs'[t])
  BY DEF BackendInv, SrvFrame, KrsFrame
<1>2. ASSUME NEW t \in Servers PROVE AgentInv(t)'
  <2>1. \A u \in Servers : srv[u].kind = "ssh-agent" /\ srv[u].pc = "gone" =>
                             srv'[u].kind = "ssh-agent" /\ srv'[u].pc = "gone"
    BY DEF SrvFrame
  <2>2. CASE t = s
    BY <2>1, <2>2 DEF BackendInv, AgentInv
  <2>3. CASE t # s
    BY <2>1, <2>3 DEF BackendInv, AgentInv, SrvFrame
  <2> QED
    BY <2>2, <2>3
<1>3. SignedInv'
  BY DEF BackendInv, SignedInv, SrvFrame
<1>4. RecordsInv'
  BY DEF BackendInv, RecordsInv, SrvFrame, KrsFrame
<1> QED
  BY <1>1, <1>2, <1>3, <1>4 DEF BackendInv

\* What Go changes, and what it keeps.
Kept(v, w) ==
  /\ v.kind = w.kind /\ v.seed = w.seed /\ v.public_key = w.public_key
  /\ v.memory = w.memory /\ v.seed_len = w.seed_len /\ v.signs = w.signs

LEMMA GoFacts ==
  ASSUME BackendInv, NEW s \in Servers, NEW place, Go(s, place)
  PROVE  SrvFrame(s) /\ srv'[s].pc = place /\ Kept(srv'[s], srv[s])
BY DEF Go, SrvFrame, Kept, BackendInv, RecordsInv, ServerFields

LEMMA KrsSame ==
  ASSUME BackendInv, NEW s \in Servers, krs' = krs PROVE KrsFrame(s) /\ krs'[s] = krs[s]
BY DEF KrsFrame, BackendInv, RecordsInv

LEMMA SrvSame ==
  ASSUME BackendInv, NEW s \in Servers, srv' = srv PROVE SrvFrame(s) /\ srv'[s] = srv[s]
BY DEF SrvFrame, BackendInv, RecordsInv

\* A seed goes from seed to public_key, or is forgotten; none comes from elsewhere.
CarriesTo(v, w) ==
  /\ w.seed # Nothing => w.seed = v.seed
  /\ w.public_key # Nothing => w.public_key = v.public_key \/ w.public_key = v.seed
  /\ w.pc # "off"

Carries == \A t \in Servers : srv'[t] = srv[t] \/ CarriesTo(srv[t], srv'[t])

LEMMA OneCarries ==
  ASSUME NEW s \in Servers, SrvFrame(s), CarriesTo(srv[s], srv'[s]) PROVE Carries
BY DEF SrvFrame, Carries

LEMMA GoCarries ==
  ASSUME NEW s \in Servers, SrvFrame(s), Kept(srv'[s], srv[s]), srv'[s].pc # "off" PROVE Carries
<1>1. CarriesTo(srv[s], srv'[s])
  BY DEF CarriesTo, Kept
<1> QED
  BY <1>1, OneCarries

\* What Request changes.
LEMMA RequestFacts ==
  ASSUME BackendInv, NEW s \in Servers, NEW req, NEW place, Request(s, req, place)
  PROVE  /\ SrvFrame(s) /\ srv'[s].pc = place /\ Kept(srv'[s], srv[s])
         /\ KrsFrame(s) /\ krs'[s].thread = krs[s].thread /\ krs'[s].ring = krs[s].ring
         /\ krs'[s].response = krs[s].response
         /\ IF krs[s].thread = "gone" THEN krs'[s].queue = krs[s].queue /\ krs'[s].reply = "closed"
            ELSE krs'[s].queue = Append(krs[s].queue, req) /\ krs'[s].reply = "pending"
<1>1. Go(s, place)
  BY DEF Request
<1>2. SrvFrame(s) /\ srv'[s].pc = place /\ Kept(srv'[s], srv[s])
  BY <1>1, GoFacts
<1>3. CASE krs[s].thread = "gone"
  BY <1>2, <1>3 DEF Request, KrsFrame, BackendInv, RecordsInv, ThreadFields
<1>4. CASE krs[s].thread # "gone"
  BY <1>2, <1>4 DEF Request, KrsFrame, BackendInv, RecordsInv, ThreadFields
<1> QED
  BY <1>3, <1>4

\* What Hang changes.
LEMMA HangFacts ==
  ASSUME BackendInv, NEW s \in Servers, Hang(s)
  PROVE  /\ KrsFrame(s) /\ krs'[s].thread = krs[s].thread /\ krs'[s].ring = krs[s].ring
         /\ krs'[s].queue = krs[s].queue /\ krs'[s].reply = "none"
BY DEF Hang, KrsFrame, BackendInv, RecordsInv, ThreadFields

\* What the end of the thread leaves.
LEMMA ThreadEndsFacts ==
  ASSUME NEW k, DOMAIN k = ThreadFields
  PROVE  /\ DOMAIN ThreadEnds(k) = ThreadFields /\ ThreadEnds(k).thread = "gone"
         /\ ThreadEnds(k).ring = Nothing /\ ThreadEnds(k).queue = <<>>
         /\ ThreadEnds(k).reply = IF k.reply = "pending" THEN "closed" ELSE k.reply
         /\ ThreadEnds(k).response = k.response
BY DEF ThreadEnds, ThreadFields

\* What store_seed leaves behind.
LEMMA StoredFacts ==
  ASSUME BackendInv, NEW s \in Servers, NEW seed
  PROVE  LET v == StoredAndKnown(s, seed)
         IN  /\ DOMAIN v = ServerFields /\ v.pc = "identity" /\ v.public_key = Just(seed)
             /\ v.kind = srv[s].kind /\ v.memory = srv[s].memory /\ v.seed = Nothing
BY DEF StoredAndKnown, BackendInv, RecordsInv, ServerFields

\* What Sign changes.
LEMMA SignFacts ==
  ASSUME BackendInv, NEW s \in Servers, NEW key, Sign(s, key)
  PROVE  /\ SrvFrame(s) /\ srv'[s].pc \in {"serve", "poisoned"}
         /\ srv'[s].kind = srv[s].kind /\ srv'[s].seed = srv[s].seed
         /\ srv'[s].public_key = srv[s].public_key /\ srv'[s].memory = srv[s].memory
         /\ \A g \in signed' : \/ g \in signed
                               \/ g.server = s /\ key # Nothing /\ g.key = key[1]
<1>1. CASE key = Nothing
  <2>1. Go(s, "poisoned") /\ signed' = signed
    BY <1>1 DEF Sign
  <2> QED
    BY <2>1, GoFacts DEF Kept
<1>2. CASE key # Nothing
  BY <1>2 DEF Sign, SrvFrame, BackendInv, RecordsInv, ServerFields
<1> QED
  BY <1>1, <1>2

-----------------------------------------------------------------------------
\* One lemma per step: each keeps the invariant.
LEMMA LoadedKeeps ==
  ASSUME BackendInv, NEW s \in Servers, NEW seed, seed # Nothing => seed = Just(seed[1]),
         Loaded(s, seed)
  PROVE  BackendInv' /\ (srv'[s].seed # Nothing => srv'[s].seed = seed)
<1>1. KrsFrame(s) /\ krs'[s] = krs[s]
  BY KrsSame DEF Loaded
<1>2. SeedInv(srv[s]) /\ KrsInv(srv[s], krs[s]) /\ srv[s].pc = "off"
  BY DEF BackendInv, Loaded
<1>3. /\ SrvFrame(s) /\ srv'[s].public_key = srv[s].public_key
      /\ \/ srv'[s].pc = "gone" /\ srv'[s].seed = srv[s].seed
         \/ srv'[s].pc = "choose" /\ srv'[s].seed = seed /\ seed # Nothing
  BY DEF Loaded, SrvFrame, BackendInv, RecordsInv, ServerFields
<1>4. SeedInv(srv'[s]) /\ KrsInv(srv'[s], krs'[s])
  BY <1>1, <1>2, <1>3 DEF SeedInv, KrsInv, Held, Loading
<1>5. BackendInv'
  BY <1>1, <1>2, <1>3, <1>4, OneServer DEF Loaded, Held, Early
<1> QED
  BY <1>2, <1>3, <1>5 DEF SeedInv

LEMMA ChooseKeeps ==
  ASSUME BackendInv, NEW s \in Servers, NEW kind, ChooseBackend(s, kind)
  PROVE  BackendInv' /\ Carries
<1>1. SeedInv(srv[s]) /\ KrsInv(srv[s], krs[s]) /\ srv[s].pc = "choose"
  BY DEF BackendInv, ChooseBackend
<1>2. CASE kind \notin Backends \/ (kind = "ssh-agent" /\ ~agent.up)
  <2>1. Go(s, "gone") /\ krs' = krs
    BY <1>2 DEF ChooseBackend
  <2>2. SrvFrame(s) /\ srv'[s].pc = "gone" /\ Kept(srv'[s], srv[s])
    BY <2>1, GoFacts
  <2>3. KrsFrame(s) /\ krs'[s] = krs[s]
    BY <2>1, KrsSame
  <2>4. SeedInv(srv'[s]) /\ KrsInv(srv'[s], krs'[s])
    BY <1>1, <2>2, <2>3 DEF SeedInv, KrsInv, Held, Loading, Kept
  <2> QED
    BY <1>1, <2>2, <2>3, <2>4, OneServer, GoCarries DEF ChooseBackend, Held, Early, Kept
<1>3. CASE ~(kind \notin Backends \/ (kind = "ssh-agent" /\ ~agent.up))
  <2>1. /\ SrvFrame(s) /\ srv'[s].pc = "store" /\ srv'[s].kind = kind
        /\ srv'[s].seed = srv[s].seed /\ srv'[s].public_key = srv[s].public_key
    BY <1>3 DEF ChooseBackend, SrvFrame, BackendInv, RecordsInv, ServerFields
  <2>2. /\ KrsFrame(s) /\ krs'[s].queue = krs[s].queue /\ krs'[s].reply = krs[s].reply
        /\ krs'[s].ring = krs[s].ring /\ (kind = "krs" => krs'[s].thread = "starting")
    BY <1>3 DEF ChooseBackend, KrsFrame, BackendInv, RecordsInv, ThreadFields
  <2>3. kind \in {"memory", "krs", "ssh-agent"}
    BY <1>3, BackendAssumption
  <2>4. SeedInv(srv'[s]) /\ KrsInv(srv'[s], krs'[s])
    BY <1>1, <2>1, <2>2, <2>3 DEF SeedInv, KrsInv, Held, Loading
  <2>5. Carries
    BY <2>1, OneCarries DEF CarriesTo
  <2> QED
    BY <1>1, <2>1, <2>2, <2>4, <2>5, OneServer DEF ChooseBackend, Held, Early
<1> QED
  BY <1>2, <1>3

LEMMA StoreMemoryKeeps ==
  ASSUME BackendInv, NEW s \in Servers, StoreMemory(s) PROVE BackendInv' /\ Carries
<1> DEFINE v == StoredAndKnown(s, srv[s].seed[1])
<1>1. KrsFrame(s) /\ krs'[s] = krs[s]
  BY KrsSame DEF StoreMemory
<1>2. SeedInv(srv[s]) /\ KrsInv(srv[s], krs[s]) /\ srv[s].pc = "store" /\ srv[s].kind = "memory"
  BY DEF BackendInv, StoreMemory
<1>3. /\ DOMAIN v = ServerFields /\ v.pc = "identity" /\ v.public_key = Just(srv[s].seed[1])
      /\ v.kind = "memory" /\ v.seed = Nothing
  BY <1>2, StoredFacts
<1>4. srv' = [srv EXCEPT ![s] = [v EXCEPT !.memory = srv[s].seed]]
  BY DEF StoreMemory, BackendInv, RecordsInv
<1> HIDE DEF v
<1>5. /\ SrvFrame(s) /\ srv'[s].pc = "identity" /\ srv'[s].public_key = Just(srv[s].seed[1])
      /\ srv'[s].kind = "memory" /\ srv'[s].memory = srv[s].seed /\ srv'[s].seed = Nothing
  BY <1>3, <1>4 DEF SrvFrame, BackendInv, RecordsInv, ServerFields
<1>6. SeedInv(srv'[s])
  BY <1>2, <1>5 DEF SeedInv, Held, Loading, Just
<1>7. KrsInv(srv'[s], krs'[s])
  BY <1>5 DEF KrsInv, Held
<1>8. Carries
  BY <1>2, <1>5, OneCarries DEF CarriesTo, SeedInv, Loading, Just
<1> QED
  BY <1>1, <1>2, <1>5, <1>6, <1>7, <1>8, OneServer DEF StoreMemory, Held, Early

\* StoredAndKnown, as the agent and the key ring use it.
LEMMA KnownKeeps ==
  ASSUME BackendInv, NEW s \in Servers,
         srv[s].pc \in {"store", "wait_store"}, srv[s].kind \in {"krs", "ssh-agent"},
         srv' = [srv EXCEPT ![s] = StoredAndKnown(s, srv[s].seed[1])],
         KrsFrame(s), UNCHANGED signed,
         DOMAIN agent' = DOMAIN agent, agent'.up = agent.up, agent.keys \subseteq agent'.keys,
         srv[s].kind = "ssh-agent" => srv[s].seed[1] \in agent'.keys,
         srv[s].kind = "krs" => /\ krs'[s].thread = "running" /\ krs'[s].ring = Just(srv[s].seed[1])
                                /\ krs'[s].queue = <<>> /\ krs'[s].reply = "none"
  PROVE  BackendInv' /\ Carries
<1>1. /\ SrvFrame(s) /\ srv'[s].pc = "identity" /\ srv'[s].public_key = Just(srv[s].seed[1])
      /\ srv'[s].kind = srv[s].kind /\ srv'[s].seed = Nothing
  BY StoredFacts DEF SrvFrame, BackendInv, RecordsInv
<1>2. Just(srv[s].seed[1])[1] = srv[s].seed[1]
  BY DEF Just
<1>3. SeedInv(srv'[s])
  BY <1>1, <1>2 DEF SeedInv, Held, Loading
<1>4. KrsInv(srv'[s], krs'[s])
  BY <1>1 DEF KrsInv, Held
<1>5. srv[s].seed = Just(srv[s].seed[1])
  BY DEF BackendInv, SeedInv, Loading
<1>6. Carries
  BY <1>1, <1>5, OneCarries DEF CarriesTo
<1> QED
  BY <1>1, <1>2, <1>3, <1>4, <1>6, OneServer DEF Held, Early

LEMMA StoreAgentKeeps ==
  ASSUME BackendInv, NEW s \in Servers, StoreAgent(s) PROVE BackendInv' /\ Carries
<1>1. KrsFrame(s) /\ krs'[s] = krs[s]
  BY KrsSame DEF StoreAgent
<1>2. SeedInv(srv[s]) /\ KrsInv(srv[s], krs[s]) /\ srv[s].pc = "store" /\ srv[s].kind = "ssh-agent"
  BY DEF BackendInv, StoreAgent
<1>3. CASE agent.up
  <2>1. /\ srv' = [srv EXCEPT ![s] = StoredAndKnown(s, srv[s].seed[1])]
        /\ agent' = [agent EXCEPT !.keys = @ \cup {srv[s].seed[1]}] /\ signed' = signed
    BY <1>3 DEF StoreAgent, BackendInv, RecordsInv
  <2>2. /\ DOMAIN agent' = DOMAIN agent /\ agent'.up = agent.up
        /\ agent'.keys = agent.keys \cup {srv[s].seed[1]}
    BY <2>1 DEF BackendInv, RecordsInv
  <2> QED
    BY <1>1, <1>2, <2>1, <2>2, KnownKeeps
<1>4. CASE ~agent.up
  <2>1. SrvFrame(s) /\ srv'[s].pc = "drop" /\ Kept(srv'[s], srv[s])
    BY <1>4, GoFacts DEF StoreAgent, Unwind
  <2>2. SeedInv(srv'[s]) /\ KrsInv(srv'[s], krs'[s])
    BY <2>1 DEF SeedInv, KrsInv, Held, Loading
  <2> QED
    BY <1>1, <1>2, <1>4, <2>1, <2>2, OneServer, GoCarries DEF StoreAgent, Held, Early
<1> QED
  BY <1>3, <1>4

LEMMA StoreKrsKeeps ==
  ASSUME BackendInv, NEW s \in Servers, StoreKrs(s) PROVE BackendInv' /\ Carries
<1> DEFINE req == StoreReq(srv[s].seed[1])
<1>1. SeedInv(srv[s]) /\ KrsInv(srv[s], krs[s]) /\ srv[s].pc = "store" /\ srv[s].kind = "krs"
  BY DEF BackendInv, StoreKrs
<1>2. Request(s, req, "wait_store") /\ agent' = agent /\ signed' = signed
  BY DEF StoreKrs, StoreReq
<1>3. /\ SrvFrame(s) /\ srv'[s].pc = "wait_store" /\ Kept(srv'[s], srv[s])
      /\ KrsFrame(s) /\ krs'[s].thread = krs[s].thread /\ krs'[s].ring = krs[s].ring
      /\ IF krs[s].thread = "gone" THEN krs'[s].queue = krs[s].queue /\ krs'[s].reply = "closed"
         ELSE krs'[s].queue = Append(krs[s].queue, req) /\ krs'[s].reply = "pending"
  BY <1>2, RequestFacts
<1>4. krs[s].queue = <<>> /\ krs[s].ring = Nothing /\ krs[s].thread \in {"starting", "running", "gone"}
  BY <1>1 DEF KrsInv
<1>5. Append(krs[s].queue, req) = <<req>>
  BY <1>4
<1>6. SeedInv(srv'[s])
  BY <1>1, <1>3 DEF SeedInv, Held, Loading, Kept
<1>7. KrsInv(srv'[s], krs'[s])
  BY <1>1, <1>3, <1>4, <1>5 DEF KrsInv, Held, Kept
<1> QED
  BY <1>1, <1>2, <1>3, <1>6, <1>7, OneServer, GoCarries DEF Held, Early

LEMMA StoreKrsReturnsKeeps ==
  ASSUME BackendInv, NEW s \in Servers, StoreKrsReturns(s) PROVE BackendInv' /\ Carries
<1>1. SeedInv(srv[s]) /\ KrsInv(srv[s], krs[s]) /\ srv[s].pc = "wait_store" /\ srv[s].kind = "krs"
  BY DEF BackendInv, StoreKrsReturns, KrsInv
<1>2. /\ KrsFrame(s) /\ krs'[s].thread = krs[s].thread /\ krs'[s].ring = krs[s].ring
      /\ krs'[s].queue = krs[s].queue /\ krs'[s].reply = "none"
  BY HangFacts DEF StoreKrsReturns
<1>3. CASE Response(s) = Nothing
  <2>1. SrvFrame(s) /\ srv'[s].pc = "drop" /\ Kept(srv'[s], srv[s])
    BY <1>3, GoFacts DEF StoreKrsReturns, Unwind
  <2>2. SeedInv(srv'[s]) /\ KrsInv(srv'[s], krs'[s])
    BY <2>1 DEF SeedInv, KrsInv, Held, Loading
  <2> QED
    BY <1>1, <1>2, <2>1, <2>2, OneServer, GoCarries DEF StoreKrsReturns, Held, Early
<1>4. CASE Response(s) # Nothing
  <2>1. krs[s].reply = "sent" /\ krs[s].response # Nothing /\ Response(s) = krs[s].response
    BY <1>4 DEF Response
  <2>2. /\ krs[s].response = Just(srv[s].seed[1]) /\ krs[s].ring = krs[s].response
        /\ krs[s].thread = "running" /\ krs[s].queue = <<>>
    BY <1>1, <2>1 DEF KrsInv
  <2>3. Response(s)[1] = srv[s].seed[1]
    BY <2>1, <2>2 DEF Just
  <2>4. srv' = [srv EXCEPT ![s] = StoredAndKnown(s, srv[s].seed[1])] /\ agent' = agent /\ signed' = signed
    BY <1>4, <2>3 DEF StoreKrsReturns
  <2> QED
    BY <1>1, <1>2, <2>2, <2>4, KnownKeeps
<1> QED
  BY <1>3, <1>4

LEMMA MakeIdentityKeeps ==
  ASSUME BackendInv, NEW s \in Servers, MakeIdentity(s) PROVE BackendInv' /\ Carries
<1>1. KrsFrame(s) /\ krs'[s] = krs[s]
  BY KrsSame DEF MakeIdentity
<1>2. SrvFrame(s) /\ Kept(srv'[s], srv[s]) /\ srv'[s].pc \in {"serve", "drop"}
  BY GoFacts DEF MakeIdentity, Unwind
<1>3. SeedInv(srv[s]) /\ KrsInv(srv[s], krs[s]) /\ srv[s].pc = "identity"
  BY DEF BackendInv, MakeIdentity
<1>4. SeedInv(srv'[s]) /\ KrsInv(srv'[s], krs'[s])
  BY <1>1, <1>2, <1>3 DEF SeedInv, KrsInv, Kept, Held, Loading
<1> QED
  BY <1>1, <1>2, <1>3, <1>4, OneServer, GoCarries DEF MakeIdentity, Held, Early, Kept

\* A signature, under the key that the backend has.
LEMMA SignKeeps ==
  ASSUME BackendInv, NEW s \in Servers, NEW key, srv[s].pc \in {"serve", "wait_sign"}, Sign(s, key),
         key # Nothing => key = srv[s].public_key, KrsFrame(s), UNCHANGED agent,
         srv[s].kind = "krs" => /\ krs'[s].thread = krs[s].thread /\ krs'[s].ring = krs[s].ring
                                /\ krs'[s].queue = <<>> /\ krs'[s].reply = "none"
  PROVE  BackendInv' /\ Carries
<1>1. SeedInv(srv[s]) /\ KrsInv(srv[s], krs[s])
  BY DEF BackendInv
<1>2. /\ SrvFrame(s) /\ srv'[s].pc \in {"serve", "poisoned"}
      /\ srv'[s].kind = srv[s].kind /\ srv'[s].seed = srv[s].seed
      /\ srv'[s].public_key = srv[s].public_key /\ srv'[s].memory = srv[s].memory
      /\ \A g \in signed' : \/ g \in signed
                            \/ g.server = s /\ key # Nothing /\ g.key = key[1]
  BY SignFacts
<1>3. srv[s].public_key = Just(srv[s].public_key[1])
  BY <1>1 DEF SeedInv, Held
<1>4. SeedInv(srv'[s])
  BY <1>1, <1>2 DEF SeedInv, Held, Loading
<1>5. KrsInv(srv'[s], krs'[s])
  BY <1>1, <1>2 DEF KrsInv, Held
<1>6. Carries
  BY <1>2, OneCarries DEF CarriesTo
<1>7. \A g \in signed' :
        \/ g \in signed
        \/ g.server = s /\ srv'[s].pc \notin Early /\ srv'[s].public_key = Just(g.key)
  BY <1>2, <1>3 DEF Early
<1> QED
  BY <1>1, <1>2, <1>4, <1>5, <1>6, <1>7, OneServer DEF Held, Early

LEMMA SignMemoryKeeps ==
  ASSUME BackendInv, NEW s \in Servers, SignMemory(s) PROVE BackendInv' /\ Carries
<1>1. KrsFrame(s) /\ krs'[s] = krs[s]
  BY KrsSame DEF SignMemory
<1>2. srv[s].memory = srv[s].public_key
  BY DEF BackendInv, SeedInv, SignMemory, MaySign, Held
<1> QED
  BY <1>1, <1>2, SignKeeps DEF SignMemory, MaySign

LEMMA SignAgentKeeps ==
  ASSUME BackendInv, NEW s \in Servers, SignAgent(s) PROVE BackendInv' /\ Carries
<1>1. KrsFrame(s) /\ krs'[s] = krs[s]
  BY KrsSame DEF SignAgent
<1>2. AgentKey(s) # Nothing => AgentKey(s) = srv[s].public_key
  BY DEF AgentKey
<1> QED
  BY <1>1, <1>2, SignKeeps DEF SignAgent, MaySign

LEMMA SignKrsKeeps ==
  ASSUME BackendInv, NEW s \in Servers, SignKrs(s) PROVE BackendInv' /\ Carries
<1> DEFINE req == SignReq
<1>1. SeedInv(srv[s]) /\ KrsInv(srv[s], krs[s]) /\ srv[s].pc = "serve" /\ srv[s].kind = "krs"
  BY DEF BackendInv, SignKrs, MaySign
<1>2. Request(s, req, "wait_sign") /\ agent' = agent /\ signed' = signed
  BY DEF SignKrs, SignReq
<1>3. /\ SrvFrame(s) /\ srv'[s].pc = "wait_sign" /\ Kept(srv'[s], srv[s])
      /\ KrsFrame(s) /\ krs'[s].thread = krs[s].thread /\ krs'[s].ring = krs[s].ring
      /\ IF krs[s].thread = "gone" THEN krs'[s].queue = krs[s].queue /\ krs'[s].reply = "closed"
         ELSE krs'[s].queue = Append(krs[s].queue, req) /\ krs'[s].reply = "pending"
  BY <1>2, RequestFacts
<1>4. krs[s].queue = <<>> /\ krs[s].ring = srv[s].public_key /\ krs[s].thread = "running"
  BY <1>1 DEF KrsInv, Held
<1>5. Append(krs[s].queue, req) = <<req>>
  BY <1>4
<1>6. SeedInv(srv'[s])
  BY <1>1, <1>3 DEF SeedInv, Held, Loading, Kept
<1>7. KrsInv(srv'[s], krs'[s])
  BY <1>1, <1>3, <1>4, <1>5 DEF KrsInv, Held, Kept
<1> QED
  BY <1>1, <1>2, <1>3, <1>6, <1>7, OneServer, GoCarries DEF Held, Early, Kept

LEMMA SignKrsReturnsKeeps ==
  ASSUME BackendInv, NEW s \in Servers, SignKrsReturns(s) PROVE BackendInv' /\ Carries
<1>1. KrsInv(srv[s], krs[s]) /\ srv[s].pc = "wait_sign"
  BY DEF BackendInv, SignKrsReturns
<1>2. /\ KrsFrame(s) /\ krs'[s].thread = krs[s].thread /\ krs'[s].ring = krs[s].ring
      /\ krs'[s].queue = krs[s].queue /\ krs'[s].reply = "none"
  BY HangFacts DEF SignKrsReturns
<1>3. krs[s].reply = "sent" /\ krs[s].queue = <<>> /\ krs[s].response \in {Nothing, krs[s].ring}
  BY <1>1 DEF KrsInv, SignKrsReturns, Returned
<1>4. krs[s].ring = srv[s].public_key
  BY <1>1 DEF KrsInv, Held
<1>5. Response(s) # Nothing => Response(s) = srv[s].public_key
  BY <1>3, <1>4 DEF Response
<1> QED
  BY <1>1, <1>2, <1>3, <1>5, SignKeeps DEF SignKrsReturns

\* A server that ends, with its key ring or without.
LEMMA EndKeeps ==
  ASSUME BackendInv, NEW s \in Servers, NEW place, place \in {"drop", "join", "gone"}, Go(s, place),
         srv[s].pc \notin Early, srv[s].pc # "gone", KrsFrame(s), UNCHANGED <<agent, signed>>
  PROVE  BackendInv' /\ Carries
<1>1. SrvFrame(s) /\ srv'[s].pc = place /\ Kept(srv'[s], srv[s])
  BY GoFacts
<1>2. SeedInv(srv'[s]) /\ KrsInv(srv'[s], krs'[s])
  BY <1>1 DEF SeedInv, KrsInv, Held, Loading
<1> QED
  BY <1>1, <1>2, OneServer, GoCarries DEF Held, Early, Kept

LEMMA ShutdownKeeps ==
  ASSUME BackendInv, NEW s \in Servers, Shutdown(s) PROVE BackendInv' /\ Carries
<1>1. KrsFrame(s)
  BY KrsSame DEF Shutdown
<1> QED
  BY <1>1, EndKeeps DEF Shutdown, Early

LEMMA AbandonKeeps ==
  ASSUME BackendInv, NEW s \in Servers, Abandon(s) PROVE BackendInv' /\ Carries
<1>1. DOMAIN krs[s] = ThreadFields
  BY DEF BackendInv, RecordsInv
<1>2. KrsFrame(s)
  BY <1>1, ThreadEndsFacts DEF Abandon, KrsFrame, BackendInv, RecordsInv
<1> QED
  BY <1>2, EndKeeps DEF Abandon, Early

LEMMA DropKrsKeeps ==
  ASSUME BackendInv, NEW s \in Servers, DropKrs(s) PROVE BackendInv' /\ Carries
<1>1. DOMAIN krs[s] = ThreadFields
  BY DEF BackendInv, RecordsInv
<1>2. DOMAIN LastRequest(krs[s]) = ThreadFields
  BY <1>1 DEF LastRequest, ThreadFields
<1>3. KrsFrame(s)
  BY <1>2 DEF DropKrs, KrsFrame, BackendInv, RecordsInv
<1> QED
  BY <1>3, EndKeeps DEF DropKrs, Early

LEMMA JoinKrsKeeps ==
  ASSUME BackendInv, NEW s \in Servers, JoinKrs(s) PROVE BackendInv' /\ Carries
<1>1. KrsFrame(s)
  BY KrsSame DEF JoinKrs
<1> QED
  BY <1>1, EndKeeps DEF JoinKrs, Early

\* The drop of an ssh-agent backend takes the keys of the others: that it has ended
\* is what the invariant asks for.
LEMMA DropBackendKeeps ==
  ASSUME BackendInv, NEW s \in Servers, DropBackend(s) PROVE BackendInv' /\ Carries
<1>1. KrsFrame(s) /\ krs'[s] = krs[s] /\ signed' = signed
  BY KrsSame DEF DropBackend
<1>2. CASE srv[s].kind # "ssh-agent"
  BY <1>1, <1>2, EndKeeps DEF DropBackend, Early
<1>3. CASE srv[s].kind = "ssh-agent"
  <2>1. SrvFrame(s) /\ srv'[s].pc = "gone" /\ Kept(srv'[s], srv[s])
    BY GoFacts DEF DropBackend
  <2>2. ASSUME NEW t \in Servers PROVE SeedInv(srv'[t]) /\ KrsInv(srv'[t], krs'[t])
    <3>1. CASE t = s
      BY <2>1, <3>1 DEF SeedInv, KrsInv, Held, Loading
    <3>2. CASE t # s
      BY <1>1, <2>1, <3>2 DEF BackendInv, SrvFrame, KrsFrame
    <3> QED
      BY <3>1, <3>2
  <2>3. ASSUME NEW t \in Servers PROVE AgentInv(t)'
    <3>1. CASE t = s
      BY <2>1, <3>1 DEF AgentInv, Held
    <3>2. CASE t # s
      BY <1>3, <2>1, <3>2 DEF AgentInv, Kept
    <3> QED
      BY <3>1, <3>2
  <2>4. SignedInv'
    BY <1>1, <2>1 DEF BackendInv, SignedInv, SrvFrame, Kept, Early
  <2>5. DOMAIN agent' = {"up", "keys"}
    BY DEF DropBackend, BackendInv, RecordsInv
  <2>6. RecordsInv'
    BY <1>1, <2>1, <2>5 DEF BackendInv, RecordsInv, SrvFrame, KrsFrame
  <2> QED
    BY <2>1, <2>2, <2>3, <2>4, <2>6, GoCarries DEF BackendInv
<1> QED
  BY <1>2, <1>3

\* The worker thread leaves the servers alone.
LEMMA ThreadKeeps ==
  ASSUME BackendInv, NEW s \in Servers, UNCHANGED <<srv, agent, signed>>, KrsFrame(s),
         KrsInv(srv[s], krs'[s])
  PROVE  BackendInv' /\ Carries
<1>1. SrvFrame(s) /\ srv'[s] = srv[s]
  BY SrvSame
<1>2. SeedInv(srv[s])
  BY DEF BackendInv
<1>3. Carries
  BY DEF Carries
<1>4. SignedInv /\ \A g \in signed : g.server = s => srv[s].pc \notin Early
  BY DEF BackendInv, SignedInv
<1> QED
  BY <1>1, <1>2, <1>3, <1>4, OneServer DEF Held, Early

LEMMA KrsStartKeeps ==
  ASSUME BackendInv, NEW s \in Servers, NEW ok \in BOOLEAN, KrsStart(s, ok) PROVE BackendInv' /\ Carries
<1>1. KrsInv(srv[s], krs[s]) /\ krs[s].thread = "starting" /\ DOMAIN krs[s] = ThreadFields
  BY DEF BackendInv, RecordsInv, KrsStart
<1>2. CASE ok
  <2>1. /\ KrsFrame(s) /\ krs'[s].thread = "running" /\ krs'[s].ring = krs[s].ring
        /\ krs'[s].queue = krs[s].queue /\ krs'[s].reply = krs[s].reply
        /\ krs'[s].response = krs[s].response
    BY <1>2 DEF KrsStart, KrsFrame, BackendInv, RecordsInv, ThreadFields
  <2>2. KrsInv(srv[s], krs'[s])
    BY <1>1, <2>1 DEF KrsInv
  <2> QED
    BY <2>1, <2>2, ThreadKeeps DEF KrsStart
<1>3. CASE ~ok
  <2>1. krs'[s] = ThreadEnds(krs[s]) /\ KrsFrame(s)
    BY <1>1, <1>3, ThreadEndsFacts DEF KrsStart, KrsFrame, BackendInv, RecordsInv
  <2>2. KrsInv(srv[s], ThreadEnds(krs[s]))
    <3> DEFINE k == ThreadEnds(krs[s])
    <3>1. /\ k.thread = "gone" /\ k.ring = Nothing /\ k.queue = <<>>
          /\ k.reply = IF krs[s].reply = "pending" THEN "closed" ELSE krs[s].reply
      BY <1>1, ThreadEndsFacts
    <3> HIDE DEF k
    <3>2. KrsInv(srv[s], k)
      BY <1>1, <3>1 DEF KrsInv, Held
    <3> QED
      BY <3>2 DEF k
  <2> QED
    BY <2>1, <2>2, ThreadKeeps DEF KrsStart
<1> QED
  BY <1>2, <1>3

LEMMA ReqFacts ==
  /\ SignReq.type = "Sign"
  /\ \A seed : StoreReq(seed).type = "StoreSeed" /\ StoreReq(seed).seed = seed
BY DEF SignReq, StoreReq

Rest(queue) == Tail(queue)

LEMMA OneRequest == ASSUME NEW q PROVE Head(<<q>>) = q /\ Rest(<<q>>) = <<>>
BY DEF Rest

LEMMA AnswerFacts ==
  ASSUME NEW k, DOMAIN k = ThreadFields, NEW response
  PROVE  /\ DOMAIN Answer(k, response) = ThreadFields /\ Answer(k, response).thread = k.thread
         /\ Answer(k, response).ring = k.ring /\ Answer(k, response).queue = Rest(k.queue)
         /\ Answer(k, response).reply = "sent" /\ Answer(k, response).response = response
BY DEF Answer, ThreadFields, Rest

\* What handle_store_seed may come to.
StoreResults(k, seed) ==
  LET stored == [k EXCEPT !.ring = Just(seed)]
  IN  IF k.ring # Nothing THEN {ThreadEnds(k)}
      ELSE {Answer(k, Nothing), Answer(stored, Nothing), Answer(stored, Just(seed))}

\* A request to store the seed: it is in the ring when the answer says so.
LEMMA HandleStoreFacts ==
  ASSUME NEW k, DOMAIN k = ThreadFields, NEW seed, NEW r \in StoreResults(k, seed)
  PROVE  /\ DOMAIN r = ThreadFields
         /\ k.ring = Nothing =>
              /\ r.thread = k.thread /\ r.queue = Rest(k.queue) /\ r.reply = "sent"
              /\ r.response # Nothing => r.response = Just(seed) /\ r.ring = r.response
<1> DEFINE k1 == [k EXCEPT !.ring = Just(seed)]
<1>1. /\ DOMAIN k1 = ThreadFields /\ k1.thread = k.thread /\ k1.queue = k.queue /\ k1.ring = Just(seed)
  BY DEF ThreadFields
<1>2. k.ring # Nothing => r = ThreadEnds(k)
  BY DEF StoreResults
<1>3. k.ring = Nothing => r \in {Answer(k, Nothing), Answer(k1, Nothing), Answer(k1, Just(seed))}
  BY DEF StoreResults
<1> HIDE DEF k1
<1>4. CASE k.ring # Nothing
  BY <1>2, <1>4, ThreadEndsFacts
<1>5. CASE r = Answer(k, Nothing)
  BY <1>5, AnswerFacts
<1>6. CASE r = Answer(k1, Nothing)
  BY <1>1, <1>6, AnswerFacts
<1>7. CASE r = Answer(k1, Just(seed))
  BY <1>1, <1>7, AnswerFacts
<1> QED
  BY <1>3, <1>4, <1>5, <1>6, <1>7

LEMMA HandleStoreResults ==
  ASSUME NEW k, NEW seed, NEW outcome \in {"ok", "add_key fails", "set_perms fails"}
  PROVE  handle_store_seed(k, seed, outcome) \in StoreResults(k, seed)
BY DEF handle_store_seed, StoreResults

LEMMA KrsHandleKeeps ==
  ASSUME BackendInv, NEW s \in Servers, KrsHandle(s) PROVE BackendInv' /\ Carries
<1> DEFINE k == krs[s]
           req == Head(krs[s].queue)
<1>1. /\ KrsInv(srv[s], k) /\ k.thread = "running" /\ k.queue # <<>> /\ DOMAIN k = ThreadFields
      /\ srv' = srv /\ agent' = agent /\ signed' = signed
  BY DEF BackendInv, RecordsInv, KrsHandle
<1>2. srv[s].pc \notin {"off", "choose", "store"}
  BY <1>1 DEF KrsInv
<1>3. CASE req.type = "StoreSeed"
  <2>0. \E outcome \in {"ok", "add_key fails", "set_perms fails"} :
          krs' = [krs EXCEPT ![s] = handle_store_seed(krs[s], req.seed, outcome)]
    BY <1>3 DEF KrsHandle
  <2>1. PICK r \in StoreResults(k, req.seed) : krs' = [krs EXCEPT ![s] = r]
    BY <2>0, HandleStoreResults
  <2>2. /\ DOMAIN r = ThreadFields
        /\ k.ring = Nothing =>
             /\ r.thread = k.thread /\ r.queue = Rest(k.queue) /\ r.reply = "sent"
             /\ r.response # Nothing => r.response = Just(req.seed) /\ r.ring = r.response
    BY <1>1, HandleStoreFacts
  <2>3. krs'[s] = r /\ KrsFrame(s)
    BY <2>1, <2>2 DEF KrsFrame, BackendInv, RecordsInv
  <2>4. CASE srv[s].pc = "wait_store"
    <3>1. k.ring = Nothing /\ k.queue = <<StoreReq(srv[s].seed[1])>>
      BY <1>1, <2>4 DEF KrsInv
    <3>2. req.seed = srv[s].seed[1] /\ Rest(k.queue) = <<>>
      BY <3>1, OneRequest, ReqFacts
    <3>3. KrsInv(srv[s], r)
      BY <1>1, <2>2, <2>4, <3>1, <3>2 DEF KrsInv, Held
    <3> QED
      BY <1>1, <2>3, <3>3, ThreadKeeps
  <2>5. CASE srv[s].pc # "wait_store"
    <3>1. srv[s].pc # "wait_sign"
      <4>1. ASSUME srv[s].pc = "wait_sign" PROVE FALSE
        <5>1. k.queue = <<SignReq>>
          BY <1>1, <4>1 DEF KrsInv
        <5> QED
          BY <1>3, <5>1, OneRequest, ReqFacts
      <4> QED
        BY <4>1
    <3>2. KrsInv(srv[s], r)
      BY <1>1, <1>2, <2>5, <3>1 DEF KrsInv
    <3> QED
      BY <1>1, <2>3, <3>2, ThreadKeeps
  <2> QED
    BY <2>4, <2>5
<1>4. CASE req.type = "Sign"
  <2>1. PICK outcome \in {"ok", "read fails"} : krs' = [krs EXCEPT ![s] = handle_sign(@, outcome)]
    BY <1>4 DEF KrsHandle
  <2> DEFINE r == handle_sign(k, outcome)
  <2>2. /\ DOMAIN r = ThreadFields /\ r.thread = k.thread /\ r.ring = k.ring
        /\ r.queue = Rest(k.queue) /\ r.reply = "sent" /\ r.response \in {Nothing, k.ring}
    BY <1>1, AnswerFacts, ZenonT(60) DEF handle_sign
  <2>3. krs'[s] = r /\ KrsFrame(s)
    BY <2>1, <2>2 DEF KrsFrame, BackendInv, RecordsInv
  <2>4. srv[s].pc # "wait_store"
    <3>1. ASSUME srv[s].pc = "wait_store" PROVE FALSE
      <4>1. k.queue = <<StoreReq(srv[s].seed[1])>>
        BY <1>1, <3>1 DEF KrsInv
      <4>2. req = StoreReq(srv[s].seed[1])
        BY <4>1, OneRequest
      <4> QED
        BY <1>4, <4>2, ReqFacts
    <3> QED
      BY <3>1
  <2> HIDE DEF r
  <2>5. CASE srv[s].pc = "wait_sign"
    <3>1. k.queue = <<SignReq>>
      BY <1>1, <2>5 DEF KrsInv
    <3>2. Rest(k.queue) = <<>>
      BY <3>1, OneRequest
    <3>3. KrsInv(srv[s], r)
      BY <1>1, <2>2, <2>5, <3>2 DEF KrsInv, Held
    <3> QED
      BY <1>1, <2>3, <3>3, ThreadKeeps
  <2>6. CASE srv[s].pc # "wait_sign"
    <3>1. KrsInv(srv[s], r)
      BY <1>1, <1>2, <2>4, <2>6 DEF KrsInv
    <3> QED
      BY <1>1, <2>3, <3>1, ThreadKeeps
  <2> QED
    BY <2>5, <2>6
<1>5. CASE req.type = "Shutdown"
  <2> DEFINE r == ThreadEnds(k)
  <2>0. krs' = [krs EXCEPT ![s] = ThreadEnds(@)]
    BY <1>5 DEF KrsHandle
  <2>1. krs'[s] = r /\ KrsFrame(s)
    BY <1>1, <2>0, ThreadEndsFacts DEF KrsFrame, BackendInv, RecordsInv
  <2>2. srv[s].pc # "wait_store" /\ srv[s].pc # "wait_sign"
    <3>1. ASSUME srv[s].pc = "wait_store" PROVE FALSE
      <4>1. k.queue = <<StoreReq(srv[s].seed[1])>>
        BY <1>1, <3>1 DEF KrsInv
      <4> QED
        BY <1>5, <4>1, OneRequest, ReqFacts
    <3>2. ASSUME srv[s].pc = "wait_sign" PROVE FALSE
      <4>1. k.queue = <<SignReq>>
        BY <1>1, <3>2 DEF KrsInv
      <4> QED
        BY <1>5, <4>1, OneRequest, ReqFacts
    <3> QED
      BY <3>1, <3>2
  <2> HIDE DEF r
  <2>3. KrsInv(srv[s], r)
    BY <1>1, <1>2, <2>2 DEF KrsInv
  <2> QED
    BY <1>1, <2>1, <2>3, ThreadKeeps
<1> QED
  BY <1>3, <1>4, <1>5 DEF KrsHandle

LEMMA AgentStopsKeeps == ASSUME BackendInv, AgentStops PROVE BackendInv' /\ Carries
<1>1. srv' = srv /\ krs' = krs /\ signed' = signed /\ agent' = [up |-> FALSE, keys |-> {}]
  BY DEF AgentStops
<1>2. ~agent'.up /\ DOMAIN agent' = {"up", "keys"}
  BY <1>1
<1>3. RecordsInv' /\ SignedInv'
  BY <1>1, <1>2 DEF BackendInv, RecordsInv, SignedInv
<1>4. ASSUME NEW s \in Servers PROVE (SeedInv(srv[s]) /\ KrsInv(srv[s], krs[s]) /\ AgentInv(s))'
  BY <1>1, <1>2 DEF BackendInv, AgentInv
<1> QED
  BY <1>1, <1>3, <1>4 DEF BackendInv, Carries

-----------------------------------------------------------------------------
\* All steps of the backends but the loading of a seed.
BackendSteps ==
  \/ \E s \in deployment.servers : Start(s) \/ ServerStep(s) \/ KrsStep(s) \/ ServerEvent(s)
  \/ AgentStops

LEMMA ServersDeployed == ASSUME deployment \in Deployments PROVE deployment.servers \subseteq Servers
BY DeploymentAssumption

LEMMA BackendStepsKeep ==
  ASSUME BackendInv, deployment \in Deployments, BackendSteps PROVE BackendInv' /\ Carries
<1>1. CASE AgentStops
  BY <1>1, AgentStopsKeeps
<1>2. ASSUME NEW s \in Servers, Start(s) PROVE BackendInv' /\ Carries
  BY <1>2, ChooseKeeps DEF Start
<1>3. ASSUME NEW s \in Servers, ServerStep(s) PROVE BackendInv' /\ Carries
  BY <1>3, StoreMemoryKeeps, StoreAgentKeeps, StoreKrsKeeps, StoreKrsReturnsKeeps, MakeIdentityKeeps,
     SignKrsReturnsKeeps, DropBackendKeeps, DropKrsKeeps, JoinKrsKeeps DEF ServerStep
<1>4. ASSUME NEW s \in Servers, KrsStep(s) PROVE BackendInv' /\ Carries
  BY <1>4, KrsHandleKeeps, KrsStartKeeps DEF KrsStep
<1>5. ASSUME NEW s \in Servers, ServerEvent(s) PROVE BackendInv' /\ Carries
  BY <1>5, SignMemoryKeeps, SignAgentKeeps, SignKrsKeeps, ShutdownKeeps, AbandonKeeps DEF ServerEvent
<1> QED
  BY <1>1, <1>2, <1>3, <1>4, <1>5, ServersDeployed DEF BackendSteps

LEMMA JustFacts == ASSUME NEW x PROVE Just(x) # Nothing /\ Just(x)[1] = x
BY DEF Just, Nothing

LEMMA LoadSeedLoads ==
  ASSUME NEW s, LoadSeed(s)
  PROVE  \E seed : Loaded(s, seed) /\ (seed # Nothing => seed = Just(seed[1]))
<1>1. CASE Loaded(s, Just(0))
  BY <1>1, JustFacts
<1>2. ASSUME NEW v, NEW outcome,
             LET seed == try_load_seed(v, outcome)
             IN  Loaded(s, IF seed.is = "ok" THEN Just(seed.value) ELSE Nothing)
      PROVE  \E seed : Loaded(s, seed) /\ (seed # Nothing => seed = Just(seed[1]))
  BY <1>2, JustFacts
<1> QED
  BY <1>1, <1>2 DEF LoadSeed

BackendsInv == BackendInv /\ deployment \in Deployments

LEMMA NextSteps ==
  ASSUME [Next]_vars
  PROVE  /\ UNCHANGED deployment
         /\ \/ UNCHANGED <<backendVars, given>>
            \/ (\E s \in deployment.servers : LoadSeed(s)) /\ UNCHANGED storageVars
            \/ BackendSteps /\ UNCHANGED <<storageVars, given>>
BY DEF Next, vars, BackendSteps, backendVars, storageVars

LEMMA BackendsStep == ASSUME BackendsInv, [Next]_vars PROVE BackendsInv'
<1>1. BackendInv /\ deployment \in Deployments /\ deployment' = deployment
  BY NextSteps DEF BackendsInv
<1>2. CASE UNCHANGED <<backendVars, given>>
  BY <1>1, <1>2 DEF BackendsInv, backendVars, BackendInv, RecordsInv, SignedInv, AgentInv
<1>3. CASE \E s \in deployment.servers : LoadSeed(s)
  <2>1. PICK s \in Servers : LoadSeed(s)
    BY <1>1, <1>3, ServersDeployed
  <2>2. PICK seed : Loaded(s, seed) /\ (seed # Nothing => seed = Just(seed[1]))
    BY <2>1, LoadSeedLoads
  <2>3. BackendInv'
    BY <1>1, <2>2, LoadedKeeps
  <2> QED
    BY <1>1, <2>3 DEF BackendsInv
<1>4. CASE BackendSteps
  BY <1>1, <1>4, BackendStepsKeep DEF BackendsInv
<1> QED
  BY <1>2, <1>3, <1>4, NextSteps

LEMMA BackendsSafe == Spec => []BackendsInv
<1>1. Init => BackendsInv
  BY BackendInit_ DEF Init, BackendsInv
<1> QED
  BY <1>1, BackendsStep, PTL DEF Spec

\* Theorem: whatever fails and in whichever order the threads and the servers run, a
\* backend has the seed whose public key it hands out, from the end of store_seed to
\* its drop; an agent that stops, or a server that drops the agent's keys, is the
\* only exception (linuxkrs.rs, sshagent.rs).
THEOREM SeedAvailable == Spec => []SeedStaysAvailable
<1>1. BackendsInv => SeedStaysAvailable
  <2> SUFFICES ASSUME BackendInv, NEW s \in Servers, srv[s].pc \in Held
               PROVE  /\ srv[s].kind = "memory" => srv[s].memory = srv[s].public_key
                      /\ srv[s].kind = "krs" =>
                           krs[s].thread = "running" /\ krs[s].ring = srv[s].public_key
                      /\ srv[s].kind = "ssh-agent" =>
                           \/ ~agent.up
                           \/ \E t \in Servers \ {s} : srv[t].kind = "ssh-agent" /\ srv[t].pc = "gone"
                           \/ srv[s].public_key[1] \in agent.keys
                      /\ srv[s].kind \in {"memory", "krs", "ssh-agent"}
    BY DEF BackendsInv, SeedStaysAvailable, Held
  <2> QED
    BY DEF BackendInv, SeedInv, KrsInv, AgentInv
<1> QED
  BY <1>1, BackendsSafe, PTL

-----------------------------------------------------------------------------
(***************************************************************************)
(* The storage.  The predicates have the content of the secret managers as *)
(* a parameter: what is stored later does not change what a text means.    *)
(***************************************************************************)
Slots == SecretManagers \X Ids

Grows(sec, later) ==
  \A x \in Slots : /\ DOMAIN sec[x] \subseteq DOMAIN later[x]
                   /\ \A i \in DOMAIN sec[x] : later[x][i] = sec[x][i]

\* An envelope that holds the seed it was made from, or names its version.
EnvOk(sec, e) ==
  /\ e.key_id.id \in Ids
  /\ e.seed_ct # None => e.seed_ct[1].seed = e.origin
  /\ e.key_id.method = "GcpSecretManager" =>
       /\ e.key_id.version \in DOMAIN sec[<<"GcpSecretManager", e.key_id.id>>]
       /\ sec[<<"GcpSecretManager", e.key_id.id>>][e.key_id.version] = e.origin

ValueOk(sec, v) ==
  /\ v.kind \in {"plain", "value"}
  /\ v.kind = "plain" => v.seed = v.origin
  /\ v.kind = "value" => EnvOk(sec, v.json.env) /\ v.origin = v.json.env.origin

MeantIn(sec, v, seed) ==
  IF v.kind = "value" /\ v.method = "AwsSecretManager"
  THEN \E i \in DOMAIN sec[<<"AwsSecretManager", v.json.env.key_id.id>>] :
         seed = sec[<<"AwsSecretManager", v.json.env.key_id.id>>][i]
  ELSE seed = v.origin

TextOk(sec, text) ==
  /\ text.kind # "raw"
  /\ text.kind = "json" =>
       /\ DOMAIN text = {"kind", "env", "origin", "fields"}
       /\ EnvOk(sec, text.env) /\ text.origin = text.env.origin
  /\ text.kind = "hex" /\ text.from.kind # "json" =>
       ValueOk(sec, text.from) /\ MeantIn(sec, text.from, text.seed)

LEMMA MeantSame == \A v, seed : Meant(v, seed) <=> MeantIn(secrets, v, seed)
BY DEF Meant, MeantIn

LEMMA EnvGrows ==
  ASSUME NEW sec, NEW later, Grows(sec, later), NEW e, EnvOk(sec, e) PROVE EnvOk(later, e)
<1>1. <<"GcpSecretManager", e.key_id.id>> \in Slots
  BY DEF EnvOk, Slots, SecretManagers
<1> QED
  BY <1>1 DEF EnvOk, Grows

LEMMA ValueGrows ==
  ASSUME NEW sec, NEW later, Grows(sec, later), NEW v, ValueOk(sec, v) PROVE ValueOk(later, v)
BY EnvGrows DEF ValueOk

LEMMA MeantGrows ==
  ASSUME NEW sec, NEW later, Grows(sec, later), NEW v, ValueOk(sec, v), NEW seed, MeantIn(sec, v, seed)
  PROVE  MeantIn(later, v, seed)
<1>1. v.kind = "value" => <<"AwsSecretManager", v.json.env.key_id.id>> \in Slots
  BY DEF ValueOk, EnvOk, Slots, SecretManagers
<1> QED
  BY <1>1 DEF MeantIn, Grows

LEMMA TextGrows ==
  ASSUME NEW sec, NEW later, Grows(sec, later), NEW text, TextOk(sec, text) PROVE TextOk(later, text)
BY EnvGrows, ValueGrows, MeantGrows DEF TextOk

-----------------------------------------------------------------------------
SecretsInv == secrets \in [Slots -> Seq(Int)]

\* What a value loads, at all, is what it was made for.
LEMMA LoadMeant ==
  ASSUME SecretsInv, NEW v, ValueOk(secrets, v), NEW outcome, try_load_seed(v, outcome).is = "ok"
  PROVE  MeantIn(secrets, v, try_load_seed(v, outcome).value)
<1>1. Err.is = "error" /\ Panic.is = "panic" /\ \A x : Ok(x).is = "ok" /\ Ok(x).value = x
  BY DEF Err, Panic, Ok
<1>2. CASE v.kind = "plain"
  <2>1. try_load_seed(v, outcome) = Ok(v.seed)
    BY <1>2 DEF try_load_seed
  <2> QED
    BY <1>1, <1>2, <2>1 DEF ValueOk, MeantIn
<1>3. CASE v.kind = "value"
  <2> DEFINE env == v.json.env
  <2>1. EnvOk(secrets, env) /\ v.origin = env.origin
    BY <1>3 DEF ValueOk
  <2>2. v.method \in Features
    BY <1>1, <1>3 DEF try_load_seed
  <2>3. v.method \in Kms \cup SecretManagers
    BY <2>2, StorageAssumption DEF Protection
  <2>4. CASE v.method \in Kms
    <3>1. try_load_seed(v, outcome) = decrypt_seed(v.method, env, outcome)
      BY <1>1, <1>3, <2>2, <2>4 DEF try_load_seed
    <3>2. env.seed_ct # None /\ try_load_seed(v, outcome) = Ok(env.seed_ct[1].seed)
      BY <1>1, <3>1 DEF decrypt_seed
    <3>3. v.method # "AwsSecretManager"
      BY <2>4 DEF Kms
    <3> QED
      BY <1>1, <2>1, <3>2, <3>3 DEF EnvOk, MeantIn
  <2>5. CASE v.method \in SecretManagers
    <3>1. v.method \notin Kms
      BY <2>5 DEF Kms, SecretManagers
    <3>2. env.key_id.method = v.method /\ try_load_seed(v, outcome) = get_seed(env.key_id, outcome)
      BY <1>1, <1>3, <2>2, <3>1 DEF try_load_seed
    <3> DEFINE s == secrets[<<v.method, env.key_id.id>>]
    <3>3. <<v.method, env.key_id.id>> \in Slots
      BY <2>1, <2>5 DEF EnvOk, Slots
    <3>4. s \in Seq(Int)
      BY <3>3, SMTT(30) DEF SecretsInv
    <3>5. \/ v.method = "AwsSecretManager" /\ s # <<>> /\ get_seed(env.key_id, outcome) = Ok(s[Len(s)])
          \/ /\ v.method = "GcpSecretManager" /\ env.key_id.version \in DOMAIN s
             /\ get_seed(env.key_id, outcome) = Ok(s[env.key_id.version])
      BY <1>1, <3>2, SMTT(30) DEF get_seed
    <3> HIDE DEF s
    <3>6. CASE v.method = "AwsSecretManager"
      <4>1. s # <<>> /\ get_seed(env.key_id, outcome) = Ok(s[Len(s)])
        BY <3>5, <3>6
      <4>2. Len(s) \in DOMAIN s
        BY <3>4, <4>1
      <4>3. try_load_seed(v, outcome).value = s[Len(s)]
        BY <1>1, <3>2, <4>1
      <4> QED
        BY <1>3, <3>6, <4>2, <4>3 DEF MeantIn, s
    <3>7. CASE v.method = "GcpSecretManager"
      <4>1. get_seed(env.key_id, outcome) = Ok(s[env.key_id.version])
        BY <3>5, <3>7
      <4>2. try_load_seed(v, outcome).value = s[env.key_id.version]
        BY <1>1, <3>2, <4>1
      <4>3. s[env.key_id.version] = v.origin
        BY <2>1, <3>2, <3>7 DEF EnvOk, s
      <4> QED
        BY <3>7, <4>2, <4>3 DEF MeantIn
    <3> QED
      BY <2>5, <3>6, <3>7 DEF SecretManagers
  <2> QED
    BY <2>3, <2>4, <2>5
<1> QED
  BY <1>2, <1>3 DEF ValueOk

\* What try_store_seed leaves in the secret managers, and the envelope it makes.
LEMMA StoredGrows ==
  ASSUME SecretsInv, NEW res, res.id \in Ids, NEW seed \in Int, NEW outcome
  PROVE  /\ SecretsAfterStore(seed, res, outcome) \in [Slots -> Seq(Int)]
         /\ Grows(secrets, SecretsAfterStore(seed, res, outcome))
<1> DEFINE later == SecretsAfterStore(seed, res, outcome)
           x == <<res.method, res.id>>
<1>1. CASE later = secrets
  BY <1>1 DEF SecretsInv, Grows
<1>2. CASE later # secrets
  <2>1. res.method \in SecretManagers /\ later = [secrets EXCEPT ![x] = Append(@, seed)]
    BY <1>2 DEF SecretsAfterStore, Stored
  <2>2. x \in Slots
    BY <2>1 DEF Slots
  <2>3. secrets[x] \in Seq(Int)
    BY <2>2 DEF SecretsInv
  <2>4. /\ Append(secrets[x], seed) \in Seq(Int)
        /\ DOMAIN secrets[x] \subseteq DOMAIN Append(secrets[x], seed)
        /\ \A i \in DOMAIN secrets[x] : Append(secrets[x], seed)[i] = secrets[x][i]
    BY <2>3, SMTT(30)
  <2> HIDE DEF later, x
  <2>5. later \in [Slots -> Seq(Int)]
    BY <2>1, <2>2, <2>4 DEF SecretsInv
  <2>6. Grows(secrets, later)
    BY <2>1, <2>2, <2>4 DEF SecretsInv, Grows
  <2> QED
    BY <2>5, <2>6 DEF later
<1> QED
  BY <1>1, <1>2

LEMMA EnvelopeOk ==
  ASSUME SecretsInv, NEW res, res.id \in Ids, NEW seed \in Int, NEW outcome, NEW dek,
         try_store_seed(seed, res, dek, outcome).is = "ok"
  PROVE  LET env == try_store_seed(seed, res, dek, outcome).value
         IN  EnvOk(SecretsAfterStore(seed, res, outcome), env)
<1> DEFINE later == SecretsAfterStore(seed, res, outcome)
           r == try_store_seed(seed, res, dek, outcome)
           x == <<res.method, res.id>>
<1>1. Err.is = "error" /\ Panic.is = "panic" /\ \A y : Ok(y).is = "ok" /\ Ok(y).value = y
  BY DEF Err, Panic, Ok
<1>2. res.method \in Features /\ res.method \in Kms \cup SecretManagers
  <2>1. res.method \in Features
    BY <1>1 DEF try_store_seed
  <2> QED
    BY <2>1, StorageAssumption DEF Protection
<1>3. CASE res.method \in Kms
  <2> DEFINE env == [key_id  |-> Resource(res.method, res.id, 0),
                     seed_ct |-> Some(seal_seed(dek, seed, AAD)),
                     dek_ct  |-> Some(seal_dek(dek, res.id)),
                     origin  |-> seed]
  <2>1. r = encrypt_seed(res.method, res.id, seed, dek, outcome)
    BY <1>1, <1>2, <1>3 DEF try_store_seed, Kms, Bare
  <2>2. r = Ok(env)
    BY <1>1, <2>1 DEF encrypt_seed
  <2>3. /\ env.key_id = Resource(res.method, res.id, 0) /\ env.origin = seed
        /\ env.seed_ct = Some(seal_seed(dek, seed, AAD))
    OBVIOUS
  <2>4. Resource(res.method, res.id, 0).id = res.id /\ Resource(res.method, res.id, 0).method = res.method
    BY DEF Resource
  <2>5. Some(seal_seed(dek, seed, AAD))[1] = seal_seed(dek, seed, AAD) /\ seal_seed(dek, seed, AAD).seed = seed
    BY DEF Some, seal_seed
  <2>6. res.method # "GcpSecretManager"
    BY <1>3 DEF Kms
  <2>7. r.value = env
    BY <1>1, <2>2
  <2> HIDE DEF env, r
  <2>8. EnvOk(later, env)
    BY <2>3, <2>4, <2>5, <2>6 DEF EnvOk
  <2> QED
    BY <2>7, <2>8 DEF r
<1>4. CASE res.method \in SecretManagers
  <2> DEFINE env == [key_id |-> StoredAs(res, Len(secrets[x]) + 1),
                     seed_ct |-> None, dek_ct |-> None, origin |-> seed]
  <2>1. outcome = "ok" /\ r = Ok(env)
    BY <1>1, <1>2, <1>4 DEF try_store_seed, Kms, SecretManagers, Bare
  <2>2. env.key_id = StoredAs(res, Len(secrets[x]) + 1) /\ env.origin = seed /\ env.seed_ct = None
    OBVIOUS
  <2>3. r.value = env
    BY <1>1, <2>1
  <2>4. x \in Slots
    BY <1>4 DEF Slots
  <2>5. secrets[x] \in Seq(Int)
    BY <2>4 DEF SecretsInv
  <2>6. later = [secrets EXCEPT ![x] = Append(@, seed)]
    BY <1>2, <1>4, <2>1 DEF SecretsAfterStore, Stored
  <2>7. later[x] = Append(secrets[x], seed)
    BY <2>4, <2>6 DEF SecretsInv
  <2>8. /\ Len(secrets[x]) + 1 \in DOMAIN Append(secrets[x], seed)
        /\ Append(secrets[x], seed)[Len(secrets[x]) + 1] = seed
    BY <2>5
  <2> DEFINE n == Len(secrets[x]) + 1
  <2> HIDE DEF env, r, later, n
  <2>9. CASE res.method = "GcpSecretManager"
    <3>1. env.key_id = Resource(res.method, res.id, n)
      BY <2>2, <2>9 DEF StoredAs, n
    <3>2. env.key_id.id = res.id /\ env.key_id.version = n /\ env.key_id.method = res.method
      BY <3>1 DEF Resource
    <3>3. n \in DOMAIN later[x] /\ later[x][n] = seed
      BY <2>7, <2>8 DEF n
    <3>4. EnvOk(later, env)
      BY <2>2, <2>9, <3>2, <3>3 DEF EnvOk
    <3> QED
      BY <2>3, <3>4 DEF r, later
  <2>10. CASE res.method # "GcpSecretManager"
    <3>1. env.key_id = res
      BY <2>2, <2>10 DEF StoredAs
    <3>2. EnvOk(later, env)
      BY <2>2, <2>10, <3>1 DEF EnvOk
    <3> QED
      BY <2>3, <3>2 DEF r, later
  <2> QED
    BY <2>9, <2>10
<1> QED
  BY <1>2, <1>3, <1>4

LEMMA JsonOk ==
  ASSUME NEW sec, NEW e, EnvOk(sec, e) PROVE TextOk(sec, to_json(e))
<1>1. /\ to_json(e).kind = "json" /\ to_json(e).env = e /\ to_json(e).origin = e.origin
      /\ DOMAIN to_json(e) = {"kind", "env", "origin", "fields"}
  BY DEF to_json
<1> QED
  BY <1>1 DEF TextOk

LEMMA HexOk ==
  ASSUME NEW sec, NEW text, NEW seed,
         text.kind # "json" => ValueOk(sec, text) /\ MeantIn(sec, text, seed)
  PROVE  TextOk(sec, Hex(seed, text))
<1>1. Hex(seed, text).kind = "hex" /\ Hex(seed, text).from = text /\ Hex(seed, text).seed = seed
  BY DEF Hex
<1> QED
  BY <1>1 DEF TextOk

-----------------------------------------------------------------------------
\* What is in files, at hand, and about to be written is all right; and what a
\* process works on is what it was asked for.
FilesInv ==
  /\ DOMAIN files = Paths
  /\ \A f \in Paths : files[f] # None => files[f] = Some(files[f][1]) /\ TextOk(secrets, files[f][1])

ValuesInv == \A v \in values : ValueOk(secrets, v)

CommandInv(cmd) ==
  /\ cmd.output \in Paths
  /\ cmd.name \in {"generate", "store"} => cmd.resource \in deployment.resources
  /\ cmd.name = "store" =>
       \/ cmd.input = OperatorSeed
       \/ cmd.input.kind = "file" /\ cmd.input.path \in Paths /\ files[cmd.input.path] # None
  /\ cmd.name = "get" => ValueOk(secrets, cmd.input)

CliInv ==
  /\ DOMAIN cli = Procs
  /\ \A p \in Procs :
       /\ cli[p].pc \in {"work", "write"} => CommandInv(cli[p].cmd)
       /\ cli[p].pc = "write" => TextOk(secrets, cli[p].text)

StorageInv == SecretsInv /\ FilesInv /\ ValuesInv /\ CliInv

LEMMA StorageInit_ == ASSUME StorageInit PROVE StorageInv
<1>1. \A p \in Procs : cli[p].pc = "idle"
  BY DEF StorageInit
<1>2. SecretsInv
  BY DEF StorageInit, SecretsInv, Slots
<1> QED
  BY <1>1, <1>2 DEF StorageInit, StorageInv, FilesInv, ValuesInv, CliInv

LEMMA SomeFacts == ASSUME NEW x PROVE Some(x) # None /\ Some(x)[1] = x
BY DEF Some, None

LEMMA SameGrows == SecretsInv => Grows(secrets, secrets)
BY DEF Grows

FilesStay == \A f \in Paths : files[f] # None => files'[f] # None

\* One process does something.
LEMMA OneProcess ==
  ASSUME StorageInv, NEW p \in Procs, UNCHANGED <<values, deployment>>,
         SecretsInv', Grows(secrets, secrets'), DOMAIN files' = Paths, FilesStay,
         \A f \in Paths : \/ files'[f] = files[f]
                          \/ \E text : files'[f] = Some(text) /\ TextOk(secrets', text),
         DOMAIN cli' = Procs, \A q \in Procs \ {p} : cli'[q] = cli[q],
         cli'[p].pc \in {"work", "write"} => CommandInv(cli[p].cmd)',
         cli'[p].pc = "write" => TextOk(secrets', cli'[p].text)
  PROVE  StorageInv'
<1>1. FilesInv'
  <2> SUFFICES ASSUME NEW f \in Paths, files'[f] # None
               PROVE  files'[f] = Some(files'[f][1]) /\ TextOk(secrets', files'[f][1])
    BY DEF FilesInv
  <2>1. CASE files'[f] = files[f]
    BY <2>1, TextGrows DEF StorageInv, FilesInv
  <2>2. CASE \E text : files'[f] = Some(text) /\ TextOk(secrets', text)
    BY <2>2, SomeFacts
  <2> QED
    BY <2>1, <2>2
<1>2. ValuesInv'
  BY ValueGrows DEF StorageInv, ValuesInv
<1>3. CliInv'
  <2>1. ASSUME NEW q \in Procs \ {p}
        PROVE  /\ cli'[q].pc \in {"work", "write"} => CommandInv(cli[q].cmd)'
               /\ cli'[q].pc = "write" => TextOk(secrets', cli'[q].text)
    <3>1. cli'[q] = cli[q]
      OBVIOUS
    <3>2. /\ cli[q].pc \in {"work", "write"} => CommandInv(cli[q].cmd)
          /\ cli[q].pc = "write" => TextOk(secrets, cli[q].text)
      BY DEF StorageInv, CliInv
    <3>3. CommandInv(cli[q].cmd) => CommandInv(cli[q].cmd)'
      <4> SUFFICES ASSUME CommandInv(cli[q].cmd) PROVE CommandInv(cli[q].cmd)'
        OBVIOUS
      <4> QED
        BY <3>1, ValueGrows DEF CommandInv, FilesStay
    <3> QED
      BY <3>1, <3>2, <3>3, TextGrows
  <2> QED
    BY <2>1 DEF CliInv
<1> QED
  BY <1>1, <1>2, <1>3 DEF StorageInv

LEMMA ThenFacts ==
  ASSUME CliInv, NEW p \in Procs, NEW result, NEW text, Then(p, result, text)
  PROVE  /\ DOMAIN cli' = Procs /\ \A q \in Procs \ {p} : cli'[q] = cli[q]
         /\ \/ result.is = "ok" /\ cli'[p].pc = "write" /\ cli'[p].cmd = cli[p].cmd /\ cli'[p].text = text
            \/ cli'[p].pc = "exited"
BY DEF Then, CliInv

\* After the work of a command the process writes a text that is all right, or exits.
LEMMA WorkKeeps ==
  ASSUME StorageInv, NEW p \in Procs, cli[p].pc = "work", NEW result, NEW text, Then(p, result, text),
         UNCHANGED <<files, values, deployment>>, SecretsInv', Grows(secrets, secrets'),
         result.is = "ok" => TextOk(secrets', text)
  PROVE  StorageInv'
<1>1. /\ DOMAIN cli' = Procs /\ \A q \in Procs \ {p} : cli'[q] = cli[q]
      /\ \/ result.is = "ok" /\ cli'[p].pc = "write" /\ cli'[p].cmd = cli[p].cmd /\ cli'[p].text = text
         \/ cli'[p].pc = "exited"
  BY ThenFacts DEF StorageInv
<1>2. FilesStay /\ DOMAIN files' = Paths
  BY DEF FilesStay, StorageInv, FilesInv
<1>3. CommandInv(cli[p].cmd)
  BY DEF StorageInv, CliInv
<1>4. cli'[p].cmd = cli[p].cmd => CommandInv(cli[p].cmd)'
  BY <1>2, <1>3, ValueGrows DEF CommandInv, FilesStay
<1> QED
  BY <1>1, <1>2, <1>4, OneProcess

LEMMA StoreCommandKeeps ==
  ASSUME StorageInv, deployment \in Deployments, UNCHANGED deployment, NEW p \in Procs, NEW outcome,
         StoreCommand(p, outcome)
  PROVE  StorageInv' /\ Grows(secrets, secrets')
<1> DEFINE cmd  == cli[p].cmd
           raw  == cmd.name = "generate" \/ Content(cmd.input).kind = "raw"
           seed == IF cmd.name = "generate" THEN new_random(p) ELSE Content(cmd.input).seed
           result == try_store_seed(seed, cmd.resource, Dek(p), outcome)
           text == IF result.is = "ok" THEN to_json(result.value) ELSE Empty
           later == SecretsAfterStore(seed, cmd.resource, outcome)
<1>1. /\ cli[p].pc = "work" /\ cmd.name \in {"generate", "store"} /\ files' = files /\ values' = values
      /\ \/ raw /\ Then(p, result, text) /\ secrets' = later
         \/ Then(p, Err, Empty) /\ secrets' = secrets
  BY DEF StoreCommand
<1>2. CommandInv(cmd) /\ SecretsInv
  BY <1>1 DEF StorageInv, CliInv
<1>3. cmd.resource.id \in Ids
  BY <1>1, <1>2, DeploymentAssumption DEF CommandInv
<1>4. CASE raw /\ Then(p, result, text) /\ secrets' = later
  <2>1. seed \in Int
    <3>1. CASE cmd.name = "generate"
      BY <3>1, StorageAssumption DEF new_random
    <3>2. CASE cmd.name # "generate" /\ cmd.input = OperatorSeed
      <4>1. OperatorSeed.kind = "raw" /\ OperatorSeed.seed = 1
        BY DEF OperatorSeed
      <4> QED
        BY <3>2, <4>1 DEF Content
    <3>3. CASE cmd.name # "generate" /\ cmd.input.kind = "file"
      <4>1. (cmd.input.path \in Paths /\ files[cmd.input.path] # None) \/ cmd.input = OperatorSeed
        BY <1>1, <1>2, <3>3 DEF CommandInv
      <4>2. cmd.input # OperatorSeed
        BY <3>3 DEF OperatorSeed
      <4>3. Content(cmd.input).kind # "raw"
        BY <3>3, <4>1, <4>2 DEF Content, StorageInv, FilesInv, TextOk
      <4> QED
        BY <1>4, <3>3, <4>3
    <3> QED
      BY <1>1, <1>2, <3>1, <3>2, <3>3 DEF CommandInv
  <2> HIDE DEF seed
  <2>2. later \in [Slots -> Seq(Int)] /\ Grows(secrets, later)
    BY <1>2, <1>3, <2>1, StoredGrows
  <2>3. result.is = "ok" => EnvOk(later, result.value)
    BY <1>2, <1>3, <2>1, EnvelopeOk
  <2> HIDE DEF result, later
  <2>4. result.is = "ok" => TextOk(later, text)
    BY <2>3, JsonOk
  <2> HIDE DEF text
  <2>5. SecretsInv' /\ Grows(secrets, secrets') /\ (result.is = "ok" => TextOk(secrets', text))
    BY <1>4, <2>2, <2>4 DEF SecretsInv
  <2> QED
    BY <1>1, <1>4, <2>5, WorkKeeps
<1>5. CASE Then(p, Err, Empty) /\ secrets' = secrets
  <2>1. Err.is # "ok"
    BY DEF Err
  <2>2. SecretsInv' /\ Grows(secrets, secrets')
    BY <1>2, <1>5, SameGrows DEF SecretsInv
  <2> QED
    BY <1>1, <1>5, <2>1, <2>2, WorkKeeps
<1> QED
  BY <1>1, <1>4, <1>5

LEMMA OpenCommandKeeps ==
  ASSUME StorageInv, UNCHANGED deployment, NEW p \in Procs, NEW outcome, OpenCommand(p, outcome)
  PROVE  StorageInv'
<1>1. SecretsInv' /\ Grows(secrets, secrets') /\ UNCHANGED <<files, values, secrets>> /\ cli[p].pc = "work"
  BY SameGrows DEF OpenCommand, StorageInv, SecretsInv
<1>2. Err.is # "ok" /\ Panic.is # "ok"
  BY DEF Err, Panic
<1>3. \E result, text : Then(p, result, text) /\ (result.is = "ok" => TextOk(secrets', text))
  <2> DEFINE cmd  == cli[p].cmd
             text == Content(cmd.input)
             env  == IF cmd.key = None THEN text.env ELSE [text.env EXCEPT !.key_id = cmd.key[1]]
             seed == IF env.key_id.method \in Kms \cap Features
                     THEN decrypt_seed(env.key_id.method, env, outcome)
                     ELSE Ok(placeholder(p))
  <2>1. \/ Then(p, Panic, Empty) \/ Then(p, Err, Empty)
        \/ from_json_ok(text) /\ Then(p, seed, IF seed.is = "ok" THEN Hex(seed.value, text) ELSE Empty)
    BY DEF OpenCommand
  <2> HIDE DEF seed, text
  <2>2. CASE from_json_ok(text) /\ Then(p, seed, IF seed.is = "ok" THEN Hex(seed.value, text) ELSE Empty)
    <3>1. text.kind = "json"
      BY <2>2 DEF from_json_ok
    <3>2. TextOk(secrets', Hex(seed.value, text))
      BY <3>1, HexOk
    <3> QED
      BY <2>2, <3>2, SMTT(30)
  <2> QED
    BY <1>2, <2>1, <2>2, SMTT(30)
<1> QED
  BY <1>1, <1>3, WorkKeeps, SMTT(30)

LEMMA GetCommandKeeps ==
  ASSUME StorageInv, UNCHANGED deployment, NEW p \in Procs, NEW outcome, GetCommand(p, outcome)
  PROVE  StorageInv'
<1> DEFINE text == Content(cli[p].cmd.input)
           seed == try_load_seed(text, outcome)
           written == IF seed.is = "ok" THEN Hex(seed.value, text) ELSE Empty
<1>1. /\ SecretsInv /\ SecretsInv' /\ Grows(secrets, secrets') /\ UNCHANGED <<files, values, secrets>>
      /\ cli[p].pc = "work" /\ cli[p].cmd.name = "get" /\ Then(p, seed, written)
  BY SameGrows DEF GetCommand, StorageInv, SecretsInv
<1>2. ValueOk(secrets, cli[p].cmd.input)
  BY <1>1 DEF StorageInv, CliInv, CommandInv
<1>3. text = cli[p].cmd.input
  BY <1>2 DEF Content, ValueOk
<1> HIDE DEF text
<1>4. seed.is = "ok" => MeantIn(secrets, text, seed.value)
  BY <1>1, <1>2, <1>3, LoadMeant
<1> HIDE DEF seed
<1>5. seed.is = "ok" => TextOk(secrets', written)
  BY <1>1, <1>2, <1>3, <1>4, HexOk
<1> HIDE DEF written
<1> QED
  BY <1>1, <1>5, WorkKeeps

LEMMA CommandsFacts ==
  ASSUME NEW cmd \in Commands
  PROVE  /\ cmd.output \in Paths
         /\ \/ cmd.name = "generate" /\ cmd.resource \in deployment.resources
            \/ /\ cmd.name = "store" /\ cmd.resource \in deployment.resources
               /\ cmd.input \in {OperatorSeed} \cup {File(f) : f \in Paths}
            \/ cmd.name = "open"
            \/ cmd.name = "get" /\ cmd.input \in values
BY DEF Commands

LEMMA InvokeKeeps ==
  ASSUME StorageInv, UNCHANGED deployment, NEW p \in Procs, NEW cmd \in Commands, Invoke(p, cmd)
  PROVE  StorageInv'
<1>1. SecretsInv' /\ Grows(secrets, secrets') /\ UNCHANGED <<values, secrets>>
  BY SameGrows DEF Invoke, StorageInv, SecretsInv
<1>2. CASE (cmd.name = "generate" \/ Readable(cmd.input)) /\ files[cmd.output] = None
  <2>1. /\ files' = [files EXCEPT ![cmd.output] = Some(Empty)]
        /\ cli' = [cli EXCEPT ![p] = [pc |-> "work", cmd |-> cmd]]
    BY <1>2 DEF Invoke
  <2>2. TextOk(secrets', Empty)
    <3>1. Empty.kind = "empty"
      BY DEF Empty
    <3> QED
      BY <3>1 DEF TextOk
  <2>3. DOMAIN files' = Paths /\ cmd.output \in Paths
    BY <2>1, CommandsFacts DEF StorageInv, FilesInv
  <2>4. \A f \in Paths : files'[f] = files[f] \/ files'[f] = Some(Empty)
    BY <2>1 DEF StorageInv, FilesInv
  <2>5. FilesStay
    BY <2>4, SomeFacts DEF FilesStay
  <2>6. /\ DOMAIN cli' = Procs /\ \A q \in Procs \ {p} : cli'[q] = cli[q]
        /\ cli'[p].pc = "work" /\ cli'[p].cmd = cmd
    BY <2>1 DEF StorageInv, CliInv
  <2>7. CommandInv(cmd)'
    <3>1. CASE cmd.name = "store"
      <4>1. cmd.input = OperatorSeed \/ \E f \in Paths : cmd.input = File(f)
        BY <3>1, CommandsFacts
      <4>2. \A f \in Paths : File(f).kind = "file" /\ File(f).path = f
        BY DEF File
      <4>3. \/ cmd.input = OperatorSeed
            \/ cmd.input.kind = "file" /\ cmd.input.path \in Paths /\ files'[cmd.input.path] # None
        BY <1>2, <2>5, <3>1, <4>1, <4>2 DEF Readable, FilesStay
      <4> QED
        BY <2>3, <3>1, <4>3, CommandsFacts DEF CommandInv
    <3>2. CASE cmd.name = "get"
      <4>1. ValueOk(secrets', cmd.input)
        BY <1>1, <3>2, CommandsFacts DEF StorageInv, ValuesInv
      <4> QED
        BY <2>3, <3>2, <4>1 DEF CommandInv
    <3>3. CASE cmd.name \notin {"store", "get"}
      BY <2>3, <3>3, CommandsFacts DEF CommandInv
    <3> QED
      BY <3>1, <3>2, <3>3
  <2>8. CommandInv(cli[p].cmd)'
    BY <2>6, <2>7
  <2> QED
    BY <1>1, <2>2, <2>3, <2>4, <2>5, <2>6, <2>8, OneProcess
<1>3. CASE ~((cmd.name = "generate" \/ Readable(cmd.input)) /\ files[cmd.output] = None)
  <2>1. cli' = [cli EXCEPT ![p] = [pc |-> "exited"]] /\ files' = files
    BY <1>3 DEF Invoke
  <2>2. DOMAIN cli' = Procs /\ (\A q \in Procs \ {p} : cli'[q] = cli[q]) /\ cli'[p].pc = "exited"
    BY <2>1 DEF StorageInv, CliInv
  <2>3. DOMAIN files' = Paths /\ FilesStay
    BY <2>1 DEF StorageInv, FilesInv, FilesStay
  <2> QED
    BY <1>1, <2>1, <2>2, <2>3, OneProcess
<1> QED
  BY <1>2, <1>3

LEMMA WriteOutputKeeps ==
  ASSUME StorageInv, UNCHANGED deployment, NEW p \in Procs, WriteOutput(p)
  PROVE  StorageInv'
<1>1. SecretsInv' /\ Grows(secrets, secrets') /\ UNCHANGED <<values, secrets>>
  BY SameGrows DEF WriteOutput, StorageInv, SecretsInv
<1>2. TextOk(secrets', cli[p].text)
  BY <1>1 DEF WriteOutput, StorageInv, CliInv
<1>3. DOMAIN files' = Paths /\ \A f \in Paths : files'[f] = files[f] \/ files'[f] = Some(cli[p].text)
  BY DEF WriteOutput, StorageInv, FilesInv
<1>4. FilesStay
  BY <1>3, SomeFacts DEF FilesStay
<1>5. DOMAIN cli' = Procs /\ (\A q \in Procs \ {p} : cli'[q] = cli[q]) /\ cli'[p].pc = "exited"
  BY DEF WriteOutput, StorageInv, CliInv
<1> QED
  BY <1>1, <1>2, <1>3, <1>4, <1>5, OneProcess

LEMMA MakeValueKeeps ==
  ASSUME StorageInv, UNCHANGED deployment, NEW f \in Paths, NEW m, NEW complete, MakeValue(f, m, complete)
  PROVE  StorageInv'
<1> DEFINE text == files[f][1]
           json == IF complete THEN [text EXCEPT !.fields = AllFields] ELSE text
           value == [kind |-> "value", method |-> m, origin |-> text.origin, json |-> json]
           plain == [kind |-> "plain", seed |-> text.seed, origin |-> text.seed]
<1>1. TextOk(secrets, text) /\ UNCHANGED <<files, secrets, cli>>
  BY DEF MakeValue, StorageInv, FilesInv
<1>2. \/ text.kind = "json" /\ values' = values \cup {value}
      \/ values' = values \cup {plain}
  BY DEF MakeValue
<1>3. ASSUME text.kind = "json" PROVE ValueOk(secrets, value)
  <2>1. json.env = text.env
    BY <1>1, <1>3 DEF TextOk
  <2>2. value.kind = "value" /\ value.json = json /\ value.origin = text.origin
    OBVIOUS
  <2> HIDE DEF value, json
  <2> QED
    BY <1>1, <1>3, <2>1, <2>2 DEF TextOk, ValueOk
<1>4. ValueOk(secrets, plain)
  <2>1. plain.kind = "plain" /\ plain.seed = plain.origin
    OBVIOUS
  <2> HIDE DEF plain
  <2> QED
    BY <2>1 DEF ValueOk
<1> HIDE DEF value, plain
<1>5. ValuesInv'
  BY <1>1, <1>2, <1>3, <1>4 DEF StorageInv, ValuesInv
<1> QED
  BY <1>1, <1>5 DEF StorageInv, SecretsInv, FilesInv, CliInv, CommandInv

-----------------------------------------------------------------------------
\* The seed that a server was configured with.
Configured(s, seed) == IF given[s] = None THEN seed = 0 ELSE MeantIn(secrets, given[s][1], seed)

ConfigInv ==
  /\ DOMAIN given = Servers
  /\ \A s \in Servers :
       /\ srv[s].pc = "off" => given[s] = None
       /\ given[s] # None => ValueOk(secrets, given[s][1])
       /\ srv[s].seed # Nothing => Configured(s, srv[s].seed[1])
       /\ srv[s].public_key # Nothing => Configured(s, srv[s].public_key[1])

KeysInv == BackendsInv /\ StorageInv /\ ConfigInv

\* The steps of commands and operators.
StorageSteps == (\E p \in deployment.procs : Command(p)) \/ Operate

LEMMA StorageStepsKeep ==
  ASSUME StorageInv, deployment \in Deployments, UNCHANGED deployment, StorageSteps
  PROVE  StorageInv' /\ Grows(secrets, secrets')
<1>1. Grows(secrets, secrets)
  BY SameGrows DEF StorageInv
<1>2. CASE Operate
  BY <1>1, <1>2, MakeValueKeeps, ZenonT(60) DEF Operate, MakeValue
<1>3. ASSUME NEW p \in Procs, Command(p) PROVE StorageInv' /\ Grows(secrets, secrets')
  <2>1. CASE \E cmd \in Commands : Invoke(p, cmd)
    BY <1>1, <2>1, InvokeKeeps, ZenonT(60) DEF Invoke
  <2>2. CASE \E outcome \in Outcomes : StoreCommand(p, outcome)
    BY <2>2, StoreCommandKeeps, Zenon
  <2>3. CASE \E outcome \in Outcomes : OpenCommand(p, outcome)
    BY <1>1, <2>3, OpenCommandKeeps, ZenonT(60) DEF OpenCommand
  <2>4. CASE \E outcome \in Outcomes : GetCommand(p, outcome)
    BY <1>1, <2>4, GetCommandKeeps DEF GetCommand
  <2>5. CASE WriteOutput(p)
    BY <1>1, <2>5, WriteOutputKeeps DEF WriteOutput
  <2> QED
    BY <1>3, <2>1, <2>2, <2>3, <2>4, <2>5 DEF Command
<1>4. deployment.procs \subseteq Procs
  BY DeploymentAssumption
<1> QED
  BY <1>2, <1>3, <1>4 DEF StorageSteps

LEMMA KeysSteps ==
  ASSUME [Next]_vars
  PROVE  /\ UNCHANGED deployment
         /\ \/ UNCHANGED vars
            \/ StorageSteps /\ UNCHANGED <<srv, given>>
            \/ \E s \in deployment.servers : LoadSeed(s) /\ UNCHANGED storageVars
            \/ BackendSteps /\ UNCHANGED <<storageVars, given>>
BY DEF Next, vars, BackendSteps, StorageSteps, backendVars, storageVars

LEMMA ConfigStays ==
  ASSUME StorageInv, ConfigInv, Grows(secrets, secrets'), UNCHANGED <<srv, given>> PROVE ConfigInv'
<1> SUFFICES ASSUME NEW s \in Servers
             PROVE  /\ srv[s].pc = "off" => given[s] = None
                    /\ given[s] # None => ValueOk(secrets', given[s][1])
                    /\ srv[s].seed # Nothing => Configured(s, srv[s].seed[1])'
                    /\ srv[s].public_key # Nothing => Configured(s, srv[s].public_key[1])'
  BY DEF ConfigInv
<1>1. ASSUME NEW seed, Configured(s, seed)
      PROVE  IF given[s] = None THEN seed = 0 ELSE MeantIn(secrets', given[s][1], seed)
  BY <1>1, MeantGrows DEF Configured, ConfigInv
<1> QED
  BY <1>1, ValueGrows DEF ConfigInv, Configured

\* A seed is loaded, and is the one that the server was given.
LEMMA LoadConfigures ==
  ASSUME BackendsInv, StorageInv, ConfigInv, NEW s \in Servers, LoadSeed(s),
         UNCHANGED <<storageVars, deployment>>
  PROVE  ConfigInv'
<1>1. secrets' = secrets /\ srv[s].pc = "off" /\ given[s] = None /\ SecretsInv
  BY DEF ConfigInv, StorageInv, storageVars, LoadSeed, Loaded
<1>2. srv[s].seed = Nothing /\ srv[s].public_key = Nothing
  BY <1>1 DEF BackendsInv, BackendInv, SeedInv
<1>3. PICK seed : /\ Loaded(s, seed) /\ (seed # Nothing => seed = Just(seed[1]))
                  /\ \/ seed = Just(0) /\ given' = given
                     \/ \E v : /\ ValueOk(secrets, v) /\ given' = [given EXCEPT ![s] = Some(v)]
                               /\ seed # Nothing => MeantIn(secrets, v, seed[1])
  <2>1. CASE Loaded(s, Just(0)) /\ UNCHANGED given
    BY <2>1, JustFacts
  <2>2. ASSUME NEW v \in values \cup deployment.values, NEW outcome,
               LET seed == try_load_seed(v, outcome)
               IN  /\ Loaded(s, IF seed.is = "ok" THEN Just(seed.value) ELSE Nothing)
                   /\ given' = [given EXCEPT ![s] = Some(v)]
        PROVE  \E seed : /\ Loaded(s, seed) /\ (seed # Nothing => seed = Just(seed[1]))
                         /\ \E w : /\ ValueOk(secrets, w) /\ given' = [given EXCEPT ![s] = Some(w)]
                                   /\ seed # Nothing => MeantIn(secrets, w, seed[1])
    <3> DEFINE r == try_load_seed(v, outcome)
               seed == IF r.is = "ok" THEN Just(r.value) ELSE Nothing
    <3>1. ValueOk(secrets, v)
      BY DeploymentAssumption DEF StorageInv, ValuesInv, ValueOk, BackendsInv
    <3>2. r.is = "ok" => MeantIn(secrets, v, r.value)
      BY <1>1, <3>1, LoadMeant
    <3>3. Loaded(s, seed) /\ given' = [given EXCEPT ![s] = Some(v)]
      BY <2>2
    <3> HIDE DEF r
    <3>4. seed # Nothing => seed = Just(seed[1]) /\ MeantIn(secrets, v, seed[1])
      BY <3>2, JustFacts
    <3> HIDE DEF seed
    <3> QED
      BY <3>1, <3>3, <3>4
  <2> QED
    BY <2>1, <2>2 DEF LoadSeed
<1>4. /\ SrvFrame(s) /\ srv'[s].public_key = srv[s].public_key /\ srv'[s].pc # "off"
      /\ srv'[s].seed = srv[s].seed \/ srv'[s].seed = seed
  BY <1>3 DEF Loaded, SrvFrame, BackendsInv, BackendInv, RecordsInv, ServerFields
<1>5. DOMAIN given' = Servers /\ \A t \in Servers \ {s} : given'[t] = given[t]
  BY <1>3 DEF ConfigInv
<1>6. /\ given'[s] # None => ValueOk(secrets', given'[s][1])
      /\ srv'[s].seed # Nothing => Configured(s, srv[s].seed[1])'
  <2>1. CASE seed = Just(0) /\ given' = given
    BY <1>1, <1>2, <1>4, <2>1, JustFacts DEF Configured
  <2>2. CASE \E v : /\ ValueOk(secrets, v) /\ given' = [given EXCEPT ![s] = Some(v)]
                    /\ seed # Nothing => MeantIn(secrets, v, seed[1])
    <3>1. PICK v : /\ ValueOk(secrets, v) /\ given' = [given EXCEPT ![s] = Some(v)]
                   /\ seed # Nothing => MeantIn(secrets, v, seed[1])
      BY <2>2
    <3>2. given'[s] = Some(v) /\ given'[s] # None /\ given'[s][1] = v
      BY <3>1, SomeFacts DEF ConfigInv
    <3> QED
      BY <1>1, <1>2, <1>4, <3>1, <3>2 DEF Configured
  <2> QED
    BY <1>3, <2>1, <2>2
<1>7. ASSUME NEW t \in Servers \ {s}
      PROVE  /\ srv'[t].pc = "off" => given'[t] = None
             /\ given'[t] # None => ValueOk(secrets', given'[t][1])
             /\ srv'[t].seed # Nothing => Configured(t, srv[t].seed[1])'
             /\ srv'[t].public_key # Nothing => Configured(t, srv[t].public_key[1])'
  BY <1>1, <1>4, <1>5 DEF ConfigInv, Configured, SrvFrame
<1> QED
  BY <1>2, <1>4, <1>5, <1>6, <1>7 DEF ConfigInv

LEMMA CarriesConfig ==
  ASSUME ConfigInv, Carries, UNCHANGED <<secrets, given>> PROVE ConfigInv'
<1> SUFFICES ASSUME NEW s \in Servers
             PROVE  /\ srv'[s].pc = "off" => given[s] = None
                    /\ given[s] # None => ValueOk(secrets, given[s][1])
                    /\ srv'[s].seed # Nothing => Configured(s, srv'[s].seed[1])
                    /\ srv'[s].public_key # Nothing => Configured(s, srv'[s].public_key[1])
  BY DEF ConfigInv, Configured
<1>1. srv'[s] = srv[s] \/ CarriesTo(srv[s], srv'[s])
  BY DEF Carries
<1> QED
  BY <1>1 DEF CarriesTo, ConfigInv

LEMMA KeysStep == ASSUME KeysInv, [Next]_vars PROVE KeysInv'
<1>1. BackendsInv'
  BY BackendsStep DEF KeysInv
<1>2. /\ BackendInv /\ StorageInv /\ ConfigInv /\ deployment \in Deployments
      /\ deployment' = deployment /\ BackendsInv
  BY KeysSteps DEF KeysInv, BackendsInv
<1>3. Grows(secrets, secrets)
  BY <1>2, SameGrows DEF StorageInv
<1>4. UNCHANGED storageVars => StorageInv'
  BY <1>2 DEF storageVars, StorageInv, SecretsInv, FilesInv, ValuesInv, CliInv, CommandInv
<1>5. CASE UNCHANGED vars
  BY <1>1, <1>2, <1>3, <1>4, <1>5, ConfigStays DEF vars, storageVars, KeysInv
<1>6. CASE StorageSteps /\ UNCHANGED <<srv, given>>
  BY <1>1, <1>2, <1>6, StorageStepsKeep, ConfigStays DEF KeysInv
<1>7. CASE \E s \in deployment.servers : LoadSeed(s) /\ UNCHANGED storageVars
  BY <1>1, <1>2, <1>4, <1>7, ServersDeployed, LoadConfigures DEF KeysInv
<1>8. CASE BackendSteps /\ UNCHANGED <<storageVars, given>>
  BY <1>1, <1>2, <1>4, <1>8, BackendStepsKeep, CarriesConfig DEF KeysInv, storageVars
<1> QED
  BY <1>5, <1>6, <1>7, <1>8, KeysSteps

LEMMA KeysSafe == Spec => []KeysInv
<1>1. Init => KeysInv
  <2> SUFFICES ASSUME Init PROVE KeysInv
    OBVIOUS
  <2>1. BackendsInv /\ StorageInv
    BY BackendInit_, StorageInit_ DEF Init, BackendsInv
  <2>2. \A s \in Servers : srv[s] = NoServer /\ given[s] = None
    BY DEF Init, BackendInit
  <2>3. NoServer.seed = Nothing /\ NoServer.public_key = Nothing
    BY DEF NoServer
  <2> QED
    BY <2>1, <2>2, <2>3 DEF KeysInv, ConfigInv, Init
<1> QED
  BY <1>1, KeysStep, PTL DEF Spec

\* Theorem: whatever other commands store in between, whichever call of a service
\* fails, is refused or loses its answer, and whichever prefix an operator writes: a
\* value that is loaded at all gives the seed that its envelope was made for
\* (storage.rs, gcpsecret.rs, envelope.rs).
THEOREM EnvelopesName == Spec => []EnvelopeNamesItsSeed
<1>1. KeysInv => EnvelopeNamesItsSeed
  <2> SUFFICES ASSUME KeysInv PROVE EnvelopeNamesItsSeed
    OBVIOUS
  <2>1. ASSUME NEW f \in Paths, files[f] # None, files[f][1].kind = "hex", files[f][1].from.kind # "json"
        PROVE  Meant(files[f][1].from, files[f][1].seed)
    BY <2>1, MeantSame DEF KeysInv, StorageInv, FilesInv, TextOk
  <2>2. ASSUME NEW s \in Servers, given[s] # None, srv[s].seed # Nothing
        PROVE  Meant(given[s][1], srv[s].seed[1])
    BY <2>2, MeantSame DEF KeysInv, ConfigInv, Configured
  <2> QED
    BY <2>1, <2>2 DEF EnvelopeNamesItsSeed
<1> QED
  BY <1>1, KeysSafe, PTL

\* Theorem: every delegation is signed under the public key that its server has
\* logged, which is that of the seed it was configured with, for every backend and
\* whoever else uses the agent (main.rs, linuxkrs.rs, sshagent.rs, identity.rs).
THEOREM ConfiguredSigns == Spec => []SignsAsConfigured
<1>1. KeysInv => SignsAsConfigured
  <2> SUFFICES ASSUME KeysInv, NEW g \in signed
               PROVE  /\ srv[g.server].public_key = Just(g.key)
                      /\ IF given[g.server] = None THEN g.key = 0 ELSE Meant(given[g.server][1], g.key)
    BY DEF SignsAsConfigured
  <2>1. g.server \in Servers /\ srv[g.server].public_key = Just(g.key)
    BY DEF KeysInv, BackendsInv, BackendInv, SignedInv
  <2>2. Configured(g.server, g.key)
    BY <2>1, JustFacts DEF KeysInv, ConfigInv
  <2> QED
    BY <2>1, <2>2, MeantSame DEF Configured
<1> QED
  BY <1>1, KeysSafe, PTL
=============================================================================
