# A TLA+ verification project for roughenough

roughenough is a Roughtime server, client and reporting service in Rust. This
directory models the parts that decide whether a client gets a valid, provable
answer and can show when a server lies: the Merkle tree, the server's worker
pipeline and key rotation, the threads of the server process, its metrics and the
files it writes, the wire format from one end to the other, the client program
with its validation, measurement sequence and causality check, malfeasance
reports, and the way of a long-term seed from the command line through envelopes
and secret managers into the backend that signs with it. TLC checks
the models on small instances; TLAPS proves the main results for every value of
the constants. `PROJECT.json` lists, for every definition that models code, the
lines it stands for.

    tlc -workers 2 -config WorkerPipeline.cfg MCWorker     # a run
    tlapm WorkerProofs.tla                                 # the proofs of a module

Paths below are relative to `src/crates/`, without the prefix `roughenough-`.

## 1. The system

| Component | State | Operations | Talks to |
|---|---|---|---|
| Merkle tree (`merkle`) | vector of levels, kept allocated between batches | `push_leaf`, `reserve`, `compute_root`, `get_paths_to`, `clear`, `root_from_paths` | worker (server side), validator (client side) |
| Worker (`server/src/worker.rs`, `network.rs`, `requests.rs`, `responses.rs`) | schedules, pending batch, tree, online key, counters | `run`: publish, rotate, poll, collect, respond, send | UDP socket, key source, metrics channel, the Ctrl-C flag |
| Online key, identity (`keys/src/online/onlinekey.rs`, `keys/src/longterm/identity.rs`, `server/src/keysource.rs`) | delegation interval; one identity behind a mutex for all workers | `make_online_key_*`, `make_srep` | workers, seed backend |
| Process (`server/src/main.rs`) | thread list, flag | spawn, join, Ctrl-C handler | all threads |
| Metrics (`server/src/metrics/`) | per-worker counters, bounded channel, accumulators, report files | `publish_metrics`, drain, `report_metrics`, `write_to_file` | workers, file system |
| Clock (`protocol/src/util/clocksource.rs`) | system time, whole seconds | `epoch_seconds` | everybody |
| Wire format (`protocol`) | none | frames, header offsets, tags | both ends |
| Client (`client/src/client.rs`, `transport.rs`, `validation.rs`) | request, nonce, socket | query, validation of a response | server |
| Measurement sequence (`client/src/sequence.rs`, `measurement.rs`) | list of measurements, chained nonces | `run`, causality check | several servers |
| Malfeasance reporting (`client/src/reporting.rs`, `reporting-server`) | report, report store | `submit`, `handle_report`, `validate_report` | each other |
| Client program (`client/src/main.rs`) | midpoint, attempts | query one server or several, set the clock | client, sequence, reporting |
| Seed backends (`keys/src/seed.rs`, `keys/src/online/`) | a key in memory, in the key ring of a thread, or in an ssh-agent | `store_seed`, `sign`, drop | identity, external services |
| Key storage (`keys/src/storage.rs`, `keys/src/longterm/`, `keys/bin/keys.rs`) | files, secrets, envelopes | generate, seal, open, store, get; load at the start of a server | operators, key and secret services, server |

What is hard here, and would hardly be reached by a unit test:

* readiness is edge-triggered, and datagrams arrive while a batch is being
  collected, signed and sent;
* one tree and one vector of requests serve all batches, so that anything left
  over by one leaks into the next;
* the key is checked against a clock value read at the top of an iteration, and
  used with later ones; its schedule has a rhythm of its own;
* poll, receive and send fail one at a time in the middle of a batch;
* a panic of one thread poisons the mutex all of them share, while main waits
  for another thread;
* snapshots of counters are taken, reset, dropped and added up by two threads
  connected by a bounded channel;
* power fails between the operations that write a file;
* the client takes a datagram from any address for the answer it waits for, the
  nonces of a sequence depend on all earlier answers, and what they prove is
  checked much later by another program;
* all responses of a batch come from one template and one buffer, and the client
  finds the signed bytes by offsets that nothing else reads;
* the key-ring backend is a thread that can end at any point, the ssh-agent is
  shared with others that remove all of its keys, and a seed passes through
  commands, files and services that fail one at a time.

`PROJECT.json` gives these as hazards at their lines.

## 2. Modules

| Module | Stands for | Extends |
|---|---|---|
| `Merkle` | the tree as operators on the vector of levels | |
| `MerkleTree` | one tree object under any sequence of calls | `Merkle` |
| `Worker` | one worker thread, its socket, clock and flag | `Merkle`; refines `TimeService` |
| `TimeService` | what a worker promises: accept, answer the oldest validly | |
| `MCWorker` | datagrams of every class for TLC | `Worker` |
| `Server` | main, metrics thread, workers, mutex | |
| `Metrics` | counters, channel, aggregator, reports | |
| `SnapshotFile` | when a report is due, how it is named, and `write_to_file`, against failures, restarts and power loss | |
| `MalfeasanceReport` | validation of a response, making and checking a report, as operators | |
| `Client` | a measurement sequence against servers and network, its reports and the reporting server | `MalfeasanceReport` |
| `ClientMain` | the program around it: a sequence, or queries of one server; the clock | `Client` |
| `MCClient` | negative constants for TLC | `ClientMain` |
| `Wire` | the wire format as operators on sequences of words | |
| `Exchange` | clients and a server that exchange these words in batches | `Wire` |
| `MCExchange` | senders of every kind | `Exchange` |
| `SeedStorage` | `roughenough_keys`, envelopes, secret managers, `try_load_seed` | |
| `SeedBackend` | the backends, and a server from `load_seed` to their drop | |
| `Keys` | operators, services and servers together | `SeedStorage`, `SeedBackend` |
| `MCKeys` | deployments | `Keys` |
| `MerkleTreeProofs` | what the operators of `Merkle` compute, for trees of every size, and the theorems of the tree | `MerkleTree` |
| `WorkerProofs` | the theorems of the worker; shows that its tree is a `MerkleTree` | `Worker`; instance `BatchTree` of `MerkleTreeProofs` |
| `ExchangeProofs` | the codec round trips and the theorems of the exchange | `Exchange` |
| `ServerProofs`, `MetricsProofs`, `SnapshotFileProofs`, `ClientProofs`, `KeysProofs` | the theorems | their component (`ClientProofs`: `ClientMain`) |

### Merkle, MerkleTree

`levels` is the struct's field of that name; `levels[1]` is the code's
`levels[0]`, and leaf indices start at 0 as in the code. SHA-512 is symbolic: a
hash is the term that was hashed, so that hashes are equal exactly when their
inputs are. What the code does to memory it keeps is part of the model:
`reserve` leaves empty levels, an odd level is padded in place, the level above
is cleared before it is refilled, `clear` empties all levels and removes none.
`compute_root` is a recursive function, one turn of the code's loop per application.
`get_paths_to` is given by where its loop ends, at the first level that is empty or
has no sibling for the index (`Ends`), and by the sibling it takes at each level
below; `Shift` halves the index once per level, for it and for `root_from_paths`.

`MerkleTree` pushes, computes and clears in any order. The reference it is
compared with (`RefRoot`) knows no vector of levels that is padded and reused: its
rows are infinite, a node is the padding node exactly when the first leaf under it
(`FirstLeaf`) does not exist, and the tree has the least height with room for all
leaves (`Height`).

### Worker

`pc` names the place in `Worker::run`; an action is what the thread does between
two points where it looks at something others change: the flag, the clock, the
socket.

| Action | Code |
|---|---|
| `New` | `Worker::new`: two clock reads for the schedules |
| `LoopTop` | the `while` test and the clock read of an iteration |
| `PublishMetrics`, `SkipPublish` | `publish_metrics`, all three handlers' counters taken and reset |
| `ReplaceOnlineKey(jitter)`, `SkipReplacement` | `replace_online_key`: fresh clock for the delegation, schedule advanced from its own value |
| `PollReadable`, `PollTimeout`, `PollError` | `poll` and its three outcomes |
| `Receive` | one turn of `collect_requests` with the whole of `collect_request` and `add_request` |
| `ReceiveWouldBlock`, `ReceiveError` | the two ways out of that loop besides a full batch |
| `SignBatch` | `process_responses` up to the signed root |
| `SendResponse(ok)` | one turn of the response loop with `send_response` |
| `FinishBatch` | `clear`, and the decision to go on draining |
| `Arrive`, `Tick`, `CtrlC` | the world |

A datagram is a record of its bytes (a name), nonce, length, whether it parses,
and sender; the length decides the class as in `collect_request`, after the cut
to the receive buffer. Signatures are symbolic: a signed response carries its
root, its midpoint and the delegation of the key. `accepted` and `sent` are
history variables; `sent` also has responses whose `send_to` failed, because the
loop treats them alike.

### Server

Thread 0 is the metrics thread and comes first in main's vector, as in the code.
A worker is reduced to the points at which it touches what is shared: binding,
locking the identity, signing, its loop, its end. A failed bind or signature
panics; a panic while signing releases and poisons the mutex; a poisoned
`lock().unwrap()` panics. Failure to create the worker's poll object panics in
the same place as a failed bind and is part of `Bind`. Any loop, that of the
metrics thread too, may panic in any turn (`LoopPanics`): a debug build checks the
`u8` counters for overflow, and a report unwraps its timestamp and its file name.
main panics when the seed, its backend or a thread is not to be had (`SpawnFails`)
and exits with status 1 when the metrics directory is not valid
(`InvalidMetricsPath`). When main returns, panics or exits, the process and every
thread in it are gone (`Alive`). Whether a panic ends its thread or the process is
a matter of the profile of the build (`release-min-size` in `Cargo.toml` has
`panic = "abort"`); `aborts` is chosen at the start, so that the run and the proofs
are about both. The number of workers may be any, 0 too.

### Metrics, SnapshotFile

`ResponseMetrics` stands for the three groups of counters, since it is the one
with the `u8` histogram; `% 256` is the release build (a debug build panics
instead). The histograms agree with the number of responses while a worker has had
fewer than 256 batches, the condition in `Conservation`; the number itself agrees
always. `PublishMetrics` has both outcomes of `try_send`. The aggregator
leaves its loop without a last drain, as in the code: what is published around
Ctrl-C is lost, which `ChannelEmptied` leaves out.

`SnapshotFile` has the two reads of the clock that a report makes as two actions:
`Due` finds it due (`now`, from which the next one is scheduled when the file is
written or given up), `Name` reads the time for its name; the clock may move
between them. Then there is one action per file operation, each of which can fail
and end the attempt without cleaning up. The process may end at any point and be
started again, with another interval, of 0 seconds too (`Restart`). At a power
failure, content that was not synced is torn under whichever name it has by then,
and, since the code does not sync the directory, any name may stand again for
anything that it stood for since the start (`older`).

### MalfeasanceReport, Client

`Client` is `query_multiple_servers` with everything it calls, from the choice of
servers to the return of a time or the exit.

| Action | Code |
|---|---|
| `Choose(order)` | `clients_from_list`, `MeasurementSequence::new`: different servers in random order, new sockets |
| `Query` | first half of `MeasurementSequence::query`: nonce, request, send |
| `Receive(r)` | second half: `recv`, validation, `Measurement` |
| `Fail` | lookup, send, receive or parsing fails, or the read timeout: the program exits |
| `Check` | `validate_causality`, and the return, the panic of `display_violation` or the way on |
| `Post(p, reached, answered)` | one POST of `submit` with `handle_report`, lost in either direction, rejected or stored |
| `Reported`, `Retry` | the end of the reports; the next attempt, untrusted time or exit |
| `Answer(s, q)`, `Tick` | servers, network, true time |
| `ReportFromElsewhere(i, j)` | `handle_report` for somebody else's report from the same measurements |

A nonce is the pair it hashes, the prior response and a random value; random
values are numbers that are never drawn twice. An `Option` is a sequence of at
most one element. A response names the key that signed it, the leaf it proves,
midpoint and radius; the fields `at` of requests, responses and measurements are
history and read by properties only. (Two responses with the same bytes signed
at different moments are told apart by it, which the code cannot do.) Responses
stay in `answers` until the next attempt and any of them may be read in any
turn: this covers loss, delay, duplication and reordering, and it allows a
datagram to reach a socket of the client other than the one that sent the
request, which is more than a network would do by itself.

An honest server answers requests to it within its radius of true time. Any
other server answers any request it sees with any midpoint and radius, but signs
with its own key only. `u64` bounds wrap at `U64`, as in a release build. Answers
are generated only while the client waits, and foreign reports only at the end:
neither is looked at before.

### ClientMain

`main`: a choice between `query_multiple_servers` (module `Client`, unchanged) and
`query_single_server`, then `--set-clock`.

| Action | Code |
|---|---|
| `SingleQuery` | `query_raw`, first half: a fresh nonce, with the commitment to the key if there is one |
| `SingleReceive(r)` | second half, validation, `display_measurement`, `midpoint` |
| `SingleFails` | everything that ends in `exit(-1)`, the read timeout included |
| `SingleAnswer(s, q)` | servers, to the one socket that all queries share |
| `Finish(set_clock)` | the return of a midpoint, or the end of the program |
| `SetSystemClock(permitted)` | the assertion and `clock_settime` |

Without a public key nothing says who has signed: `validate_single` then takes any
key, as `ResponseValidator::new` does, and requests of draft 14 have no SRV.

### Wire, Exchange

A message is a sequence of 32-bit words, since every field is a multiple of four
bytes; a nonce, hash, key or signature fills its words with one number. Tags are
the numbers that the code orders them by, versions lack their top bit. Sizes,
offsets, paddings and the order of fields are the code's. A `from_wire` is a
predicate (`...Ok`) and the value where it holds (`...From`); it reads where the
code reads, which is one value behind the other, except for the lengths of VER,
VERS and PATH, which come from offsets.

| Action of `Exchange` | Code |
|---|---|
| `SendRequest(s)` | `create_request`, `send_request`; or a request of another implementation, longer, shorter or with two versions |
| `Collect` | `recv_from` into the buffer of 1024 bytes, `collect_request`, `add_request` |
| `CollectOthers(n)` | the same for n requests at once whose answers nobody looks at: they make batches, and so paths, long |
| `ProcessResponses` | the template of the batch with certificate, SREP and signature, set by the setters in the code's order |
| `SendResponse` | one turn of the loop: path, nonce and index into the template, the frame into the buffer, the part written to the sender |
| `FinishBatch` | `clear` |
| `Decode(s)` | `query_raw` and the parts of `validate_response` that read bytes |

What the tree, the key and the clock put into a response is opaque here and
numbered by batch, so that whatever is left over from another one shows.

### SeedStorage, SeedBackend, Keys

An invocation of `roughenough_keys` is a process with three steps: it opens its
input and creates its output, calls a service, writes (`Invoke`; `StoreCommand`,
`OpenCommand`, `GetCommand`; `WriteOutput`). Two of them run side by side. A call
to a service is answered, refused, or done with the answer lost (`Outcomes`). A
file has what was written to it, as the kind of text it is; between commands and
servers stands an operator who puts a prefix, right or wrong, in front of an
encoded envelope and may or may not put in the fields that are missing in it
(`MakeValue`). AES-GCM and key services are symbolic. `origin` and `from` are
history: the seed that a text was made of and the text that `open` or `get` read.

`SeedBackend` follows a server's main thread from `load_seed` to the drop of the
backend, and the key-ring thread beside it. A request to that thread carries the
sender of the channel it is answered on; when the thread ends, whether before it
has its ring, by a panic or by `Shutdown`, the requests it has not taken are
dropped with their channels, and their callers get `WorkerDisconnect`. A failed
signature poisons the identity (module `Server`), after which only the end of the
process is left; if main passes on the panic while workers still hold the
identity, it ends without a drop (`Abandon`).

## 3. Runs

| Run | Shows | Bounds |
|---|---|---|
| `MerkleTree` | root equals the reference, every path verifies its own leaf and binds it | 7 nodes at level 0, 2 values, every `reserve` argument |
| `WorkerPipeline` | batches within the limit and never split, one response per request to its sender with its nonce and a proof that verifies, counters that balance in every snapshot | 3 datagrams of 5 kinds, batches of 2, one error, one clock step |
| `WorkerService` | nothing signed outside its delegation, next replacement before expiry, refinement of `TimeService`; no readiness edge lost, accepted requests answered, thread ends after Ctrl-C, due keys replaced | 2 datagrams, batches of 2, one error, 3 s, interval 2 s, jitter 0 or 1, iterations up to 1 s, draft 8 |
| `Server` | main returns only after clean exits; if the process ends before Ctrl-C, main was still spawning, the metrics thread has panicked, or panics abort: panics of workers alone show nowhere; the process ends after Ctrl-C; poison spreads to every worker that rotates, unless the process ends | 3 workers, both panic strategies |
| `Metrics` | every response in exactly one place and in the histograms, loss only after a stall, channel emptied | 2 workers, 1 batch each of 1 or 2, 3 s, stalls up to 3 s |
| `SnapshotFile` | files whole and under their own name; a report is replaced only after a power failure or by one of the same second, and the latter only if it got its name an interval or more after it was due | 3 s (`MaxClock`), intervals of 0, 1 and 2 s, 1 power failure, any restarts |
| `Client` | accepted responses are fresh and the right server's, in a sequence and in queries of one server on one socket; the chain is unbroken, honest servers are never accused, answers between honest ones are bounded when no violation is found, stored reports prove their order, the clock is set to a time that somebody vouches for, the program ends | 3 servers, one dishonest, one of draft 8, 1 round, 2 attempts, 3 answers per attempt, 2 tries per report, `U64` = 16; up to 2 queries of one server (`MaxRequests`) |
| `Exchange` | an answer decodes, for clients of the server's version only, to what the server meant; signatures are checked over the bytes that were signed; what is accepted has its whole message in the bytes that the buffer kept, though what is behind the frame may be cut, and is read as it was meant; responses fit their buffer and are shorter than requests | 3 of 8 senders (`MaxSends`), 1 or 60 requests of others, once (`OtherCounts`, `MaxOthers`), 2 batches (`MaxBatches`), both versions |
| `Keys` | a value that loads gives the seed it was made for; every delegation is signed under the configured seed; a backend keeps its seed from store to drop; calls to the key-ring thread and its drop return | 2 commands, 2 files, 2 names, 1 value (`MaxValues`), one server in memory; or 2 servers with key rings or one ssh-agent, 2 signatures each (`MaxSigns`) |

Why the bounds are enough. Seven nodes give trees of one to four levels, odd
counts at every inner level, and a small batch after a larger one. In the worker
three datagrams with batches of two make a full batch, a second one that starts
while the drain goes on, and one that ends in `WouldBlock`; every class meets
every other within a batch. The two good requests share a nonce but not their
bytes, so that confusing the leaf conventions of the two drafts shows. Three
seconds see the first key out and replaced, with jitter more than once; the proofs
cover any length. Three workers are the least number where one fails, one waits for the mutex and one is in its
loop. In `Metrics` a stall of three intervals fills a channel of four.
`SnapshotFile` has several reports in a second with the interval 0, one each with 1,
a second that passes between the two reads, and a start before and after a power
failure. In
`Client` three turns are the least a sequence can have; the dishonest server is
in each of them in turn, so that it is asked before, between and after the honest
ones. Its midpoints are far in the past and in the future: close to 0 the
subtraction wraps, and one of the bounds is outside the range that can be
displayed. Two attempts are needed for state that is left over from the first,
and two queries of one server for an answer that comes too late. In `Exchange` a
batch is of one, two or three, or of sixty and up to three more, so that paths
have no element, one, two or six; two senders put bytes behind their frame, one in a
datagram that the buffer cuts and one that just fills it; the second batch meets the buffer of the first,
and may be smaller or larger. In `Keys` two commands are the least number in which
one stores into the secret another one is storing into, or opens what the other
has sealed; with two servers one ends while the other signs, whether they share
an agent or not. The storage and the backends are separate deployments of one
run: they share no state but the seed that is loaded, which a server in the first
deployment takes through storage and memory to its signatures.
Several rounds, `allow_untrusted_time` and any mixture of servers are covered by
the proofs.

Fairness. `Worker`: weak fairness of the thread's own steps; it is an OS thread
that blocks only in `poll`, which times out. Nothing is assumed of arrivals, the
clock or Ctrl-C. `Server`: weak fairness of main, the metrics thread and each
worker, and strong fairness of `Lock(w)`: the mutex is held for one signature at
a time, with hours between rotations, so that a waiter finds it free again and
again. `Metrics`: weak fairness of the aggregator. `Client`: weak fairness of the
program's own steps, which include the timeouts of `recv` and POST; nothing is
assumed of servers, network or time. `Keys`: weak fairness of each server's main
thread and of each key-ring thread, which are OS threads; nothing is assumed of
operators, services, the agent, or when delegations are signed. `Exchange` has
safety properties only.

### Where the code and its documents disagree

| Run | Document | Code |
|---|---|---|
| `WorkerStarved` | draft 14: MIDP must be at most MAXT | rotation interval and validity are equal and jitter may be 0, so an iteration of two seconds can sign after MAXT |
| `ClientReports` | `client/src/reporting.rs`: "Extracts the chain of measurements that demonstrates the violation" | the report has the two measurements of the pair only; the reporting server wants an unbroken chain from an entry without rand value, which only the first two measurements are |
| `KeysOpen` | `keys/bin/keys.rs`: "Decrypt an envelope encrypted long-term identity seed" | with a key id that no compiled-in KMS recognises `open` writes a random seed and exits with status 0 |

Met while modelling, and not made into runs of their own:

* `root_from_paths` (`merkle/src/lib.rs`) ignores the bits of INDX beyond the path;
  draft 14, 5.3.1, says that all remaining bits must be zero.
* `server/src/main.rs` promises "Zero shared state"; the identity is shared, and a
  signing failure in one worker panics the others through its mutex
  (`PoisonSpreads`); with `panic = "abort"` it ends the process.
* main joins the metrics thread first: that workers have died shows only after
  Ctrl-C, in `join().unwrap()` (`WorkerPanicsUnnoticed`), while a panic of the
  metrics thread ends the server at once.
* A report gets its name from a second read of the clock (`aggregator.rs:106`), and
  the next one is scheduled from the first (`:97`). With an interval of 1 and a
  second that passes in between, the next report has the same name and replaces it;
  with the interval 0, which `args.rs` allows, reports of the same second replace
  each other always. `ReportsAreKept` says exactly when this can happen.
* A metrics report divides totals since the start by the time since the last
  report, although its duration is "Duration in seconds this metrics report
  covers".
* The envelope of a secret manager is written without its empty ciphertexts and
  is not read without them: what `store` writes cannot be loaded before somebody
  puts `seed_ct` and `dek_ct` in. It names the secret's version for GCP; for AWS
  the secret only, so that a later `store` changes what it stands for.
* `open` and `get` write a seed in hex with a newline, `seal` and `store` read 32
  raw bytes: the one is not an input of the other.
* Every command creates its output file first and fails when there is one; a
  command that fails leaves an empty file, which the same command then trips over.
* The ssh-agent backend removes all identities of the agent when it is dropped,
  those of other servers and of the user included; their next signature fails and
  poisons their identity. If main panics while workers hold the identity, nothing
  is dropped and the agent keeps the key.
* VER with more than 32 versions is read up to the 32nd, and what follows is read
  from there and not from where VER ends.
* `recv_from` cuts a longer datagram to the 1024 bytes of the buffer
  (`network.rs:24`), so that the "jumbo" branch of `collect_request` is never taken.
  A frame that is itself longer is refused, as it says a length that has not come;
  but `from_frame` accepts bytes behind the frame (`wire.rs:79-88`), so that a longer
  datagram whose frame ends within the first 1024 bytes is answered, against "Reject
  requests != 1024 bytes" (`requests.rs:25`) and the test that "All oversized
  requests should be counted as jumbo" (`requests.rs:142-162`, which calls
  `collect_request` itself). In draft 14 the leaf is then made of the cut bytes, and
  a client that hashes all it has sent does not find it in the tree. The run
  `Exchange` has such a sender, and `MessageTakenWhole` says what is still true: only
  what is behind the frame is lost. (`Worker!nbytes` cuts too.)
* Section 5.3.1 of the draft 14 text gives the two sides of a node the other way
  round than `root_from_paths`. Server and client of this repository agree with
  each other (`PathsVerify`).
* `root` and paths depend on `compute_root` having run last; a `push_leaf` after
  it makes `get_paths_to` answer from a mixture of two trees. The server never
  does this, and `MerkleTree` asks for paths only right after `compute_root`.
* The batch size histogram has `u8` counters: the 256th batch of one size in a
  publication interval wraps to 0 (a debug build panics), in the worker
  (`add_batch_size`) and again in the totals (`add_assign`). The models wrap too,
  the runs stay below.
* The last answer of a sequence is the time that is returned, and no later answer
  of an honest server bounds it from above: with a dishonest server in the last
  turn and no violation found, it may be any later time. `SandwichedTimeIsBounded`
  is therefore about answers between two honest ones.
* `validate_causality` and `CausalityViolation::new` wrap for midpoints below the
  radius (a debug build panics). A wrapped lower bound is huge, so that such an
  answer is in violation with everything after it; the bounds are still sound.
* `display_violation` unwraps `Timestamp::from_second`; a violation with a bound
  outside its range ends the program before reports are sent and before the next
  attempt.
* The reporting server, which is excluded from the workspace, does not compile at
  this commit: `validation.rs:97` calls `ResponseValidator::validate`, and there are
  only `validate_draft14` and `validate_draft08`, which also take the bytes of the
  response. `validate_entry` takes the call for `validate_draft14`, because the entry
  is parsed as that `Response`; this is an interpretation. Under it reports with a
  draft 8 server are rejected. `StoredReportsProveOrder` and `ClientReports` rest on
  the chaining and not on this. The reporting server checks chaining but not that the entries violate
  causality. `submit` retries after a rejection as after a lost connection, and a
  report whose answer was lost is stored again under another id.

## 4. Proofs

Everything in this section holds for every value of the constants allowed by the
`ASSUME` of the component's module.

**WorkerProofs.** `Spec => []P` for each P below; each layer uses the ones above.

1. `TypeCorrect`, `BatchDisciplined`. The limit on a batch is kept by counting
   receives, so it is not inductive alone: `BatchInv` adds that the batch is no
   longer than the number of receives while collecting, and that it is empty in
   every place outside the drain.
2. `EveryRequestAnswered`. `QueueInv` says that the accepted requests are the
   answered ones followed by the pending batch, less what `index` has sent of it:
   this links the three sequences at each place of the loop.
   `WorkerImplementsTree` and `EveryProofVerifies` add the tree (`ProofInv`). The
   worker's `levels` are those of a `MerkleTree` object (`BatchTree`) whose leaves
   are the pending batch, padded once an odd batch is signed, and whose root is the
   one in SREP: `Receive` of a good request is `PushLeaf`, `SignBatch` is
   `ComputeRoot`, `FinishBatch` is `Clear`, and all other steps leave the tree alone
   (`ReceiveIsPush`, `SignIsCompute`, `FinishIsClear`, `StepOfTree`). That the
   abstract guards hold, room below the reserved size and a tree that is not empty,
   comes from `BatchInv` and from the tree's own invariant. So the results about
   `MerkleTree` are results about the worker: a response verifies when it is sent
   (`SendProves`) and, as what was sent and accepted does not change, ever after;
   the leaf that the client recomputes is the one that the server hashed (`SameLeaf`);
   and `BatchRootsAreReference` says that the root signed for a batch is that of the
   reference tree over exactly its requests, and that its paths prove nothing else.
3. `SnapshotsBalance`. Live counters do not balance inside the drain.
   `BalanceInv` says by how much they differ there: by the pending batch before
   it is signed, by the part that is not sent yet after. Publication is outside
   the drain, where `BatchInv` makes the difference zero.
4. `ReplacedBeforeExpiry`. `KeyInv` bounds the schedule by the delegation at each
   place: before the rotation check only the previous bound is known, after it
   either the schedule is ahead of `now` or the key was made in this iteration.
5. `SignedWithinDelegation`, under `MaxLag <= 1`. `SrepInv` carries the interval
   from the moment of signing to every response of the batch.
6. `WorkerImplementsService`, under `MaxLag <= 1`. `accepted` and `sent` are the
   abstract variables themselves; `Receive` maps to `Accept` or a stutter,
   `SendResponse` to `Answer` by 2 and 5, the rest to stutters.

The condition of 5 and 6 is the weakest: `WorkerStarved` is the counterexample
for two seconds.

**MerkleTreeProofs.** `Tree(R, T)` says that the lowest T + 1 levels of
R are a tree: every level below the top has an even number of nodes whose pairs are
hashed into the one above, with at most one padding node after them; whatever is
above level T + 1 is left over and does not matter. `HashLoop` is the invariant of
compute_root's loop, kept by each round (`RoundIs`, `RoundKeepsLoop`), and
`ComputesTree` its result. In a tree, `get_paths_to` stops at the root and nowhere
before (`PathIs`, which needs that an index halved at each level stays in it,
`WayUp`), so that it never runs out of levels; folding the path passes the nodes
above the leaf (`PathVerifies`), and since hashes determine what was hashed, a path
that leads to the root from a leaf leads there from that leaf only (`PathBinds`).
The state machine needs two invariants more: level 0 is what was pushed, padding
included (`LeavesInv`), and a root that was computed is the top of a tree (`RootInv`).
With them `EveryPathVerifies` and `EveryPathBinds` follow from the lemmas, and
`RootsAreReference` from a comparison level by level (`RowsAreLevels`): the nodes
with leaves under them are counted by `Widths`, and the height by `HeightIs`.

Induction over data is possible here although no induction theorem with an operator
parameter can be used: a property is turned into the set of the numbers that have
it, and `SetInduction` (from the well-founded order of the numbers) is about sets. A
recursive function is the one that satisfies its equation if there is any, so that
each lemma about one first constructs it for longer and longer domains.

**MetricsProofs.** `MetricsConservation`, `ChannelIsPlenty`, for any number of workers,
batch sizes and intervals. The module begins with what is needed of sums: that the
function behind `SumFunction` exists and does not depend on the order, and what
changing, adding or taking away a summand does to it. `BalanceInv` is the balance for
the responses and for each entry of the histograms (there as an upper bound, since a
`u8` that wraps becomes smaller), so that below 256 batches nothing has wrapped
(`HistogramInv`). `PaceInv` says that the channel holds the workers' snapshots and
nothing else, and that a worker, which waits for an interval after each, cannot have
its second there before one interval has passed since the last complete drain, nor its
third before two: a channel of two places per worker is full only if every worker has
two there or one has three, and the snapshot that finds it full is the third of its
worker in the one case and comes after the third in the other.

**ServerProofs.** For any number of workers and both panic strategies: `ServerTypes`,
`NoDeadHolder` (`HolderIsSigning`: the identity is locked exactly by a worker that is
signing), `FinishedCleanly` (`FinishedMeansAllExited`) and `WorkerPanicsNotSeen`
(`WorkerPanicsUnnoticed`). The last two need two facts besides: what main has spawned
and joined at each place, so that all threads before `next` have exited once it joins
(`MainInv`), and that the metrics thread leaves its loop by itself only when the flag
is down (`MetricsThreadInv`); main joins it first.

**SnapshotFileProofs.** For any intervals, any number of power failures and any length
of time: `FileTypes`, `FilesAlwaysWhole`, `ReplacedOnlyIfLate` (`ReportsAreKept`). What
makes them inductive: whatever is or was under a name is whole, synced and of that
second (`DirInv`), a temporary file is what the place in `write_to_file` says
(`TempInv`), the report in hand was named after it was found due (`ReportInv`), and
every file that got its name within an interval of its being due has the name of a
second before the next report can be due, or before the one in hand was (`OrderInv`,
which a restart keeps by `StartedInOrder`).

**ClientProofs.** Each theorem is for any number of servers, rounds, attempts,
answers and reports, and for any midpoints and radii of dishonest servers.
`ClientTypes` needs that there is room for one more measurement while one is
waited for (`LengthInv`). `ClientFreshness`, `ClientFair` and `ClientBounds` (for
`AcceptedIsFresh`, `HonestNeverAccused` and `SandwichedTimeIsBounded`) rest on
three invariants proved together (`FreshInv`): requests are determined by their random value and later
than the response they are chained to (`RequestsInv`), every response proves a
request sent before it was signed (`AnswersInv`), and each measurement ends before
the next request is sent (`MeasurementsInv`). Since a leaf determines its nonce in
both drafts (`LeafBinds`), an accepted response was signed between request and
receipt; so the true times of signing are in the order of the measurements, which
gives `HonestNeverAccused`, and with the meaning of wrapped bounds
(`WrappedBounds`) `SandwichedTimeIsBounded`. `ClientChain` needs `ChainInv` (the
request in hand is chained too), `ReportsProveOrder` that violations are pairs of
measurements at hand (`ReportsInv`), `ClientTrust` that a time is returned at the
end only (`MidpointInv`).

About the program around it (`ClientMain`): every step of it is a step of `Client` or
leaves it alone (`MainStepsAreSteps`), so that the theorems above hold of it too.
`SingleFreshness` (`SingleIsFresh`) is the same argument for queries on one socket,
where the nonces are not chained: requests are numbered by their nonces (`SentInv`),
a response proves one that was sent before it was signed (`GotInv`), and measurements
are in the order of their requests, of which the one waited for is the last
(`LoopInv`, `AcceptedInv`); an answer that comes late proves another number.
`ClockTrust` (`ClockIsTrusted`) adds that the clock is set at the end only, to what
was returned (`ClockInv`), and joins both modes (`ArgsInv`). The assumption behind the bounds is that true time is at
least two radii from 0 and from 2^64.

**KeysProofs.** For any number of servers, commands, files, secrets and values, and
whatever the services, the kernel and the threads do. `SeedAvailable`
(`SeedStaysAvailable`) has one lemma per step of a backend. What makes it inductive
is `KrsInv`: a server and the thread of its key ring have at most one request
between them, the ring is empty until the seed is stored, an answer that is not an
error means that the seed is in the ring, and a channel that is closed means that
the thread has ended; so nothing can end the thread while the server holds its
public key. `AgentInv` says when an agent may have lost a key. `EnvelopesName`
(`EnvelopeNamesItsSeed`) rests on predicates over the texts that take the content of
the secret managers as a parameter (`EnvOk`, `ValueOk`, `TextOk`): an envelope holds
its seed or names a version that does, and since secrets only get new versions
(`Grows`) this stays true whatever is stored later. `ConfiguredSigns`
(`SignsAsConfigured`) adds that a seed reaches the public key from `load_seed` only
(`Carries`, `ConfigInv`). The assumptions are that processes are numbered, that the
ids of resources are among `Ids`, and that a value an operator has from elsewhere is
a seed in hex.

**ExchangeProofs.** For any number of senders, of both versions and of any
implementation that keeps to VER, any batches, and any number of them. The first half is
the codec: `At(w, p, m)` says that the words of `m` stand in `w` from `p` on. Encoders
put parts one after the other, so each part stands where the lengths before it say
(`AtLeft` and the lemmas after it); the header written has these lengths as offsets, and
a decoder that goes by them finds the part again (`Found`). This gives, part by part,
`ResponseRoundTrip` and `ResponseDraft08RoundTrip`: `from_wire` accepts every response
that `to_wire` can write, with a path of any length and any versions, and gives it back;
and the same for the three variants of requests (`RequestReads`), whatever their
padding and whatever follows them in the buffer.

The second half is the exchange. None of its four properties is inductive, since each
compares two ends of the way of a message. `IInv` says what is at each place between:
what is on its way or in the batch is what its sender built (`RequestsInv`, `BatchInv`;
if the buffer has cut into the frame, the frame says a length that has not come and is
refused, so that what is accepted has lost bytes behind the frame at most,
`MessageNotCut`); while a
batch is answered, the template has this batch's certificate, signed part and signature,
and in the fields that change from answer to answer anything (`ServerInv`, `Template`);
a sender is answered once (`OnceInv`); what it was sent is the frame of what was meant
(`AnswerInv`); what it decoded is what the validator makes of that (`DecodedInv`).
`Template` is the important part: `FromTemplate` shows that `copy_path`, `set_nonc`
and `set_indx` overwrite all that the answer before has left, the offsets included, and
the buffer is read up to the frame's own length only, so that what an earlier, longer
answer left in it does not matter. From `IInv` follow `TakesWholeMessage` (`MessageTakenWhole`),
`AlwaysFits` (`ResponsesFit`: a batch of 64 has paths of six hashes, `DepthIs`, and the
longest answer is shorter than the buffer), `DecodesMeant` (`AnswerDecodes`) and
`ChecksWhatWasSigned` (`SignedBytesAgree`). The assumptions are that a sender lists at
most 32 versions, as VER demands (`protocol/src/tags/ver.rs`), and draft 8 by its
number: the server reads a longer list in part, and 0 as 8, so that it would not have
what the sender wrote.

Only model-checked:

* the liveness properties of `Worker` (`SocketDrained`, `AcceptedIsAnswered`,
  `ShutdownCompletes`, `KeyReplaced`), `Server`, `Metrics`, `Client` and `Keys`, since
  fairness and ENABLED are out of the prover's reach. Every invariant and action
  property that a passing run checks is stated by a theorem.

Two inductive steps were checked by TLC beforehand and are not runs of their own: the
refinement of `MerkleTree` by `Worker` (batches of 2 and of 3, four arrivals) and `IInv`
of `Exchange` (two senders).

## 5. Abstractions and assumptions

* Hashes, signatures and encryption are symbolic and perfect. Random values and
  keys are never drawn twice.
* The clock moves forward in whole seconds, at any point of any thread, by at
  most `MaxLag` within an iteration of a worker, or `MaxDrainGap` between drains.
* Errors (`MaxErrors`), arrivals (`MaxArrivals`), crashes (`MaxCrashes`) and
  batches (`MaxBatches`) are bounded; each bound is a constant. `ShutdownCompletes`
  and `KeyReplaced` rest on the bound on arrivals and errors: the drain loop looks
  neither at the flag nor at the schedules while receives keep succeeding.
* Log lines, base64 and hex, JSON beyond which fields there are, and command line
  parsing are left out.

Not modelled, and why: looking up stored reports (it changes no state); argument
parsing, the parsing and validation of the server list, dumps of frames and all
display but its panics (text in, text out); `get_seed` of the backends (no program
calls it) and the PKCS#11 backend (`try_choose_backend` does not offer it); input
and output of `roughenough_keys` by stdin and stdout; a system clock that is set
back under a running server; how `validate_metrics_directory` comes to its verdict; an
ssh-agent that is up but refuses to add, sign or remove a key; a drain that datagrams
keep going for ever (`MaxArrivals` ends it); the integration
harness, load generator, fuzzing, tests and build files (not part of the
programs).

## 6. Plan

Order of work; the first ten are done.

1. `Merkle`, `MerkleTree`, `Worker` with `TimeService`, and their proofs.
2. `Server` and its proofs.
3. `Metrics`, `SnapshotFile`, and the proofs of the latter.
4. `MalfeasanceReport`, `Client` and their proofs.
5. `ClientMain`: queries of one server and the system clock.
6. `Wire` and `Exchange`.
7. `SeedStorage`, `SeedBackend` and `Keys`.
8. The proofs of `Keys`.
9. The proofs of `Metrics`, `ClientMain`, `MerkleTree`, and of the Merkle proofs in the
   worker's responses.
10. The proofs of `Exchange`, and that the worker's tree is a `MerkleTree`.
11. Open: a client composed with a `TimeService`, so that its honest servers are the
    ones of `Worker`; a clock that is set back, in `Worker`.
