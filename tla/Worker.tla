------------------------------- MODULE Worker -------------------------------
(***************************************************************************)
(* One worker thread of the server: the event loop of                      *)
(* roughenough-server/src/worker.rs and the handlers it drives             *)
(* (network.rs, requests.rs, responses.rs, keysource.rs and the online     *)
(* key), against a kernel socket with edge-triggered readiness (mio), a    *)
(* clock that advances while the thread runs, and the Ctrl-C flag.         *)
(*                                                                         *)
(* An action is what the thread does between two points where it looks at  *)
(* something others change: the flag, the clock, the socket.               *)
(***************************************************************************)
EXTENDS Integers, Merkle

CONSTANTS
  Datagrams,         \* what clients may send: records [bytes, nonc, len, parses, src]
  BatchSize,         \* Args::batch_size
  Version,           \* "draft08" or "draft14", Args::protocol
  RotationInterval,  \* Args::rotation_interval(), seconds: rotation period AND validity
  MaxJitter,         \* largest jitter of replace_online_key (254 in the code)
  MetricsInterval,   \* Args::metrics_interval, seconds
  MaxLag,            \* bound: seconds the clock may advance within one loop iteration
  MaxClock,          \* bound: last value of the clock
  MaxArrivals,       \* bound: datagrams that arrive
  MaxErrors          \* bound: failed polls, receives and sends together

ASSUME WorkerAssumption ==
  /\ \A d \in Datagrams : d.len \in Nat /\ d.parses \in BOOLEAN
  /\ BatchSize \in 1..64
  /\ Version \in {"draft08", "draft14"}
  /\ RotationInterval \in Nat /\ MaxJitter \in Nat /\ MaxJitter < RotationInterval
  /\ MetricsInterval \in Nat
  /\ MaxLag \in Nat /\ MaxClock \in Nat /\ MaxArrivals \in Nat /\ MaxErrors \in Nat

VARIABLES
  clock, sock, ready, keep_running,                   \* the world of the thread
  arrivals, errors,                                   \* how much of the bounds is used up
  pc, now, next_key_replacement, next_metrics_publication,
  recvs, collect_result,                              \* collect_requests: loop count, result
  requests, levels, online_key,                       \* ResponseHandler
  srep, index,                                        \* process_responses: signed part, loop index
  net, req, resp,                                     \* NetworkMetrics, RequestMetrics, ResponseMetrics
  snapshot,                                           \* last WorkerMetrics taken by publish_metrics
  accepted, sent                                      \* history: requests added, responses sent

env     == <<clock, sock, ready, keep_running, arrivals>>
sched   == <<now, next_key_replacement, next_metrics_publication>>
batch   == <<requests, levels>>
signing == <<srep, index>>
metrics == <<net, req, resp, snapshot>>
history == <<accepted, sent>>
vars == <<env, errors, pc, sched, recvs, collect_result, batch, online_key, signing,
          metrics, history>>

-----------------------------------------------------------------------------
REQUEST_SIZE == 1024
RECV_BUFFER_SIZE == 1024

NetworkMetrics == [num_recv_wouldblock |-> 0, num_successful_sends |-> 0,
                   num_failed_sends |-> 0, num_failed_polls |-> 0, num_failed_recvs |-> 0]

RequestMetrics == [num_ok_requests |-> 0, num_bad_requests |-> 0,
                   num_runt_requests |-> 0, num_jumbo_requests |-> 0]

ResponseMetrics == [num_responses |-> 0, batch_sizes |-> [n \in 1..BatchSize |-> 0]]

\* ResponseMetrics::add_batch_size; the per-size counters are u8 and wrap.
add_batch_size(m, n) ==
  [num_responses |-> m.num_responses + n,
   batch_sizes |-> [m.batch_sizes EXCEPT ![n] = (@ + 1) % 256]]

\* LongTermIdentity::make_online_key_*: the delegation starts at the clock read
\* and lasts for the validity length, which main passes as the rotation interval.
make_online_key(t) == [mint |-> t, maxt |-> t + RotationInterval]

\* What recv_from reports: a datagram longer than the buffer is cut to it.
nbytes(d) == IF d.len > RECV_BUFFER_SIZE THEN RECV_BUFFER_SIZE ELSE d.len

\* The branch that RequestHandler::collect_request takes.
Classify(d) ==
  CASE nbytes(d) < REQUEST_SIZE -> "runt"
    [] nbytes(d) > REQUEST_SIZE -> "jumbo"
    [] nbytes(d) = REQUEST_SIZE /\ d.parses -> "ok"
    [] nbytes(d) = REQUEST_SIZE /\ ~d.parses -> "bad"

\* Mutant: a request that does not parse is counted as good.
CountRequest_Lax(m, class) ==
  IF class \in {"ok", "bad"} THEN [m EXCEPT !.num_ok_requests = @ + 1] ELSE m

\* The request metric it counts.
CountRequest(m, class) ==
  CASE class = "runt"  -> [m EXCEPT !.num_runt_requests = @ + 1]
    [] class = "jumbo" -> [m EXCEPT !.num_jumbo_requests = @ + 1]
    [] class = "ok"    -> [m EXCEPT !.num_ok_requests = @ + 1]
    [] class = "bad"   -> [m EXCEPT !.num_bad_requests = @ + 1]

\* Mutant: the draft 8 convention for both versions.
LeafData_Nonce(d) == d.nonc

\* ResponseHandler::add_request: what is hashed into the tree.
LeafData(d) == IF Version = "draft08" THEN d.nonc ELSE d.bytes

NoSrep == [root |-> Zero, midp |-> 0, cert |-> [mint |-> 0, maxt |-> 0]]

\* make_srep with the certificate that goes out with it.
make_srep(root, t, key) == [root |-> root, midp |-> t, cert |-> key]

\* Mutant: everybody gets the first requester's response.
Requester_First(i) == requests[1]

\* The request that the i-th turn of the response loop answers.
Requester(i) == requests[i + 1]

\* Its response (process_responses_draft08/14).
ResponseFor(i) ==
  [dst |-> Requester(i).src, nonc |-> Requester(i).nonc, indx |-> i,
   path |-> get_paths_to(levels, i), srep |-> srep]

-----------------------------------------------------------------------------
\* worker_task: ResponseHandler::new made a key at clock 0; Worker::new follows.
Init ==
  /\ clock = 0 /\ sock = <<>> /\ ready = FALSE /\ keep_running = TRUE
  /\ arrivals = 0 /\ errors = 0
  /\ pc = "new" /\ now = 0 /\ next_key_replacement = 0 /\ next_metrics_publication = 0
  /\ recvs = 0 /\ collect_result = "Empty"
  /\ requests = <<>> /\ levels = reserve(new, BatchSize)
  /\ online_key = make_online_key(0)
  /\ srep = NoSrep /\ index = 0
  /\ net = NetworkMetrics /\ req = RequestMetrics /\ resp = ResponseMetrics
  /\ snapshot = [network |-> NetworkMetrics, request |-> RequestMetrics,
                 response |-> ResponseMetrics]
  /\ accepted = <<>> /\ sent = <<>>

\* Worker::new reads the clock for both schedules.
New ==
  /\ pc = "new"
  /\ next_key_replacement' = clock
  /\ next_metrics_publication' = clock + MetricsInterval
  /\ pc' = "top"
  /\ UNCHANGED <<env, errors, now, recvs, collect_result, batch, online_key, signing,
                 metrics, history>>

\* Mutant: the flag is not looked at.
LoopTop_Deaf ==
  /\ pc = "top" /\ pc' = "publish" /\ now' = clock
  /\ UNCHANGED <<env, errors, next_key_replacement, next_metrics_publication, recvs,
                 collect_result, batch, online_key, signing, metrics, history>>

\* while keep_running.load(): the only place the flag is looked at.
LoopTop ==
  /\ pc = "top"
  /\ IF keep_running THEN now' = clock /\ pc' = "publish"
                     ELSE UNCHANGED now /\ pc' = "done"
  /\ UNCHANGED <<env, errors, next_key_replacement, next_metrics_publication, recvs,
                 collect_result, batch, online_key, signing, metrics, history>>

\* publish_metrics: the counters are reset whether or not try_send had room.
PublishMetrics ==
  /\ pc = "publish"
  /\ now >= next_metrics_publication
  /\ snapshot' = [network |-> net, request |-> req, response |-> resp]
  /\ net' = NetworkMetrics /\ req' = RequestMetrics /\ resp' = ResponseMetrics
  /\ next_metrics_publication' = clock + MetricsInterval
  /\ pc' = "rotate"
  /\ UNCHANGED <<env, errors, now, next_key_replacement, recvs, collect_result, batch,
                 online_key, signing, history>>

SkipPublish ==
  /\ pc = "publish"
  /\ now < next_metrics_publication
  /\ pc' = "rotate"
  /\ UNCHANGED <<env, errors, sched, recvs, collect_result, batch, online_key, signing,
                 metrics, history>>

\* Mutant: a second late.
KeyReplacementDue_Late == now > next_key_replacement

\* if now >= self.next_key_replacement
KeyReplacementDue == now >= next_key_replacement

\* Mutants: the jitter lengthens the interval; the schedule stands still.
NextReplacement_Plus(jitter) == next_key_replacement + RotationInterval + jitter
NextReplacement_Stuck(jitter) == next_key_replacement

\* The schedule advances from its own previous value, not from the clock.
NextReplacement(jitter) == next_key_replacement + RotationInterval - jitter

\* replace_online_key: the delegation starts at a fresh clock read.
ReplaceOnlineKey(jitter) ==
  /\ pc = "rotate"
  /\ KeyReplacementDue
  /\ online_key' = make_online_key(clock)
  /\ next_key_replacement' = NextReplacement(jitter)
  /\ pc' = "poll"
  /\ UNCHANGED <<env, errors, now, next_metrics_publication, recvs, collect_result, batch,
                 signing, metrics, history>>

SkipReplacement ==
  /\ pc = "rotate"
  /\ ~KeyReplacementDue
  /\ pc' = "poll"
  /\ UNCHANGED <<env, errors, sched, recvs, collect_result, batch, online_key, signing,
                 metrics, history>>

\* poll returns the readable event: readiness is edge-triggered, so taking the
\* event clears it until another datagram arrives.
PollReadable ==
  /\ pc = "poll"
  /\ ready
  /\ ready' = FALSE
  /\ recvs' = 0
  /\ pc' = "collect"
  /\ UNCHANGED <<clock, sock, keep_running, arrivals, errors, sched, collect_result, batch,
                 online_key, signing, metrics, history>>

\* poll gives up after 350 ms without an event.
PollTimeout ==
  /\ pc = "poll"
  /\ ~ready
  /\ pc' = "top"
  /\ UNCHANGED <<env, errors, sched, recvs, collect_result, batch, online_key, signing,
                 metrics, history>>

\* poll fails (a signal): no events, the error is counted, readiness stays.
PollError ==
  /\ pc = "poll"
  /\ errors < MaxErrors
  /\ errors' = errors + 1
  /\ net' = [net EXCEPT !.num_failed_polls = @ + 1]
  /\ pc' = "top"
  /\ UNCHANGED <<env, sched, recvs, collect_result, batch, online_key, signing, req, resp,
                 snapshot, history>>

\* Mutant: one receive too many.
BatchFull_Late(n) == n = BatchSize + 1

\* for _ in 0..batch_size
BatchFull(n) == n = BatchSize

\* One turn of collect_requests' loop that reads a datagram, with the whole of
\* collect_request and add_request; the loop ends after batch_size receives.
Receive ==
  /\ pc = "collect"
  /\ sock # <<>>
  /\ LET d == Head(sock)
     IN  /\ sock' = Tail(sock)
         /\ req' = CountRequest(req, Classify(d))
         /\ IF Classify(d) = "ok"
            THEN /\ levels' = push_leaf(levels, LeafData(d))
                 /\ requests' = Append(requests, d)
                 /\ accepted' = Append(accepted, d)
            ELSE UNCHANGED <<levels, requests, accepted>>
  /\ recvs' = recvs + 1
  /\ IF BatchFull(recvs + 1) THEN pc' = "respond" /\ collect_result' = "MoreData"
                             ELSE UNCHANGED <<pc, collect_result>>
  /\ UNCHANGED <<clock, ready, keep_running, arrivals, errors, sched, online_key, signing,
                 net, resp, snapshot, sent>>

ReceiveWouldBlock ==
  /\ pc = "collect"
  /\ sock = <<>>
  /\ net' = [net EXCEPT !.num_recv_wouldblock = @ + 1]
  /\ collect_result' = "Empty"
  /\ pc' = "respond"
  /\ UNCHANGED <<env, errors, sched, recvs, batch, online_key, signing, req, resp, snapshot,
                 history>>

\* Any other receive error ends the collection but not the drain: MoreData.
ReceiveError ==
  /\ pc = "collect"
  /\ errors < MaxErrors
  /\ errors' = errors + 1
  /\ net' = [net EXCEPT !.num_failed_recvs = @ + 1]
  /\ collect_result' = "MoreData"
  /\ pc' = "respond"
  /\ UNCHANGED <<env, sched, recvs, batch, online_key, signing, req, resp, snapshot, history>>

\* process_responses: count the batch, close the tree and sign it once with the
\* clock as midpoint.  An empty batch returns at once.
SignBatch ==
  /\ pc = "respond"
  /\ IF requests = <<>> THEN UNCHANGED <<resp, levels, srep>>
     ELSE /\ resp' = add_batch_size(resp, Len(requests))
          /\ LET r == compute_root(levels)
             IN  levels' = r.levels /\ srep' = make_srep(r.root, clock, online_key)
  /\ index' = 0
  /\ pc' = "send"
  /\ UNCHANGED <<env, errors, sched, recvs, collect_result, requests, online_key, net, req,
                 snapshot, history>>

\* One turn of the response loop with send_response, whose failure only counts.
SendResponse(ok) ==
  /\ pc = "send"
  /\ index < Len(requests)
  /\ IF ok THEN /\ net' = [net EXCEPT !.num_successful_sends = @ + 1]
                /\ UNCHANGED errors
           ELSE /\ errors < MaxErrors
                /\ errors' = errors + 1
                /\ net' = [net EXCEPT !.num_failed_sends = @ + 1]
  /\ sent' = Append(sent, ResponseFor(index))
  /\ index' = index + 1
  /\ UNCHANGED <<env, pc, sched, recvs, collect_result, batch, online_key, srep, req, resp,
                 snapshot, accepted>>

\* Mutant: the last response is left out.
AllSent_Early == index + 1 >= Len(requests)

AllSent == index = Len(requests)

\* Mutant: one batch per readiness event.
AfterBatch_Once == "top"

\* The drain loop goes on unless the last collection found the socket empty.
AfterBatch == IF collect_result = "Empty" THEN "top" ELSE "collect"

\* generate_responses clears tree and batch (srep and index are locals of the
\* loop that has ended).
FinishBatch ==
  /\ pc = "send"
  /\ AllSent
  /\ levels' = clear(levels)
  /\ requests' = <<>>
  /\ recvs' = 0 /\ index' = 0 /\ srep' = NoSrep
  /\ pc' = AfterBatch
  /\ UNCHANGED <<env, errors, sched, collect_result, online_key, metrics, history>>

-----------------------------------------------------------------------------
\* A datagram reaches the socket and raises the readiness edge.
Arrive(d) ==
  /\ arrivals < MaxArrivals
  /\ arrivals' = arrivals + 1
  /\ sock' = Append(sock, d)
  /\ ready' = TRUE
  /\ UNCHANGED <<clock, keep_running, errors, pc, sched, recvs, collect_result, batch,
                 online_key, signing, metrics, history>>

\* Time passes; one loop iteration lasts at most MaxLag seconds on this clock.
Tick ==
  /\ clock < MaxClock
  /\ pc \in {"new", "top", "done"} \/ clock - now < MaxLag
  /\ clock' = clock + 1
  /\ UNCHANGED <<sock, ready, keep_running, arrivals, errors, pc, sched, recvs,
                 collect_result, batch, online_key, signing, metrics, history>>

CtrlC ==
  /\ keep_running
  /\ keep_running' = FALSE
  /\ UNCHANGED <<clock, sock, ready, arrivals, errors, pc, sched, recvs, collect_result,
                 batch, online_key, signing, metrics, history>>

Loop ==
  \/ New \/ LoopTop \/ PublishMetrics \/ SkipPublish
  \/ (\E j \in 0..MaxJitter : ReplaceOnlineKey(j)) \/ SkipReplacement
  \/ PollReadable \/ PollTimeout \/ PollError
  \/ Receive \/ ReceiveWouldBlock \/ ReceiveError
  \/ SignBatch \/ (\E ok \in BOOLEAN : SendResponse(ok)) \/ FinishBatch

Environment == (\E d \in Datagrams : Arrive(d)) \/ Tick \/ CtrlC

\* The thread has returned; nothing is left to do.
Terminated == pc = "done" /\ UNCHANGED vars

Next == Loop \/ Environment \/ Terminated

\* The thread is scheduled by the OS and never blocks except in poll, which
\* times out: its loop is weakly fair.  Nothing is assumed of the environment.
Spec == Init /\ [][Next]_vars /\ WF_vars(Loop)
-----------------------------------------------------------------------------
Idle == {"new", "top", "publish", "rotate", "poll", "done"}

NetworkCounters == [num_recv_wouldblock : Nat, num_successful_sends : Nat, num_failed_sends : Nat,
                    num_failed_polls : Nat, num_failed_recvs : Nat]
RequestCounters == [num_ok_requests : Nat, num_bad_requests : Nat, num_runt_requests : Nat,
                    num_jumbo_requests : Nat]
ResponseCounters == [num_responses : Nat, batch_sizes : [1..BatchSize -> 0..255]]
Validity == [mint : Nat, maxt : Nat]

WorldOK ==
  /\ clock \in 0..MaxClock /\ now \in 0..clock
  /\ sock \in Seq(Datagrams) /\ ready \in BOOLEAN /\ keep_running \in BOOLEAN
  /\ arrivals \in 0..MaxArrivals /\ errors \in 0..MaxErrors

LoopOK ==
  /\ pc \in Idle \cup {"collect", "respond", "send"}
  /\ next_key_replacement \in Nat /\ next_metrics_publication \in Nat
  /\ recvs \in 0..BatchSize /\ collect_result \in {"Empty", "MoreData"}

BatchOK ==
  /\ requests \in Seq(Datagrams) /\ accepted \in Seq(Datagrams) /\ index \in 0..Len(requests)
  /\ online_key \in Validity /\ srep.midp \in Nat /\ srep.cert \in Validity

MetricsOK == net \in NetworkCounters /\ req \in RequestCounters /\ resp \in ResponseCounters

\* Type invariant: every field of the worker and its handlers keeps its type;
\* in particular the loop's clock value never runs ahead of the clock, the
\* response index stays within the batch, and the u8 counters within a byte.
TypeOK == WorldOK /\ LoopOK /\ BatchOK /\ MetricsOK

\* The debug_assert of add_request: a batch never exceeds batch_size, and is empty
\* whenever the loop is outside the drain, so that neither a key rotation nor a
\* metrics reset ever splits one.
BatchDiscipline == Len(requests) <= BatchSize /\ (pc \in Idle => requests = <<>>)

\* Every request that was added gets exactly one response, addressed to its
\* sender and carrying its nonce, in order of arrival; when the loop is outside
\* the drain nothing is owed.
OneResponsePerRequest ==
  /\ Len(sent) <= Len(accepted)
  /\ \A i \in 1..Len(sent) : sent[i].dst = accepted[i].src /\ sent[i].nonc = accepted[i].nonc
  /\ pc \in Idle => Len(sent) = Len(accepted)

\* check_merkle_proof_draft08/14 of the client: the leaf it folds the path over.
ClientLeaf(d) == IF Version = "draft14" THEN d.bytes ELSE d.nonc

\* Every response proves its own request to the client: INDX and PATH fold the
\* leaf of that request, as the client computes it, to the signed root.
ProofsVerify ==
  \A i \in 1..Len(sent) :
    root_from_paths(sent[i].indx, ClientLeaf(accepted[i]), sent[i].path) = sent[i].srep.root

\* Every response can pass the client's midpoint check (check_midpoint_inner; RFC
\* 5.2.6 "MIDP MUST be less than or equal to MAXT"): it is signed within the
\* delegation of the key that is sent with it.  It holds when one loop iteration
\* takes at most one second, and not beyond: the margin of the schedule is the
\* jitter, which may be 0, plus that second.
MidpointInDelegation ==
  \A i \in 1..Len(sent) :
    sent[i].srep.cert.mint <= sent[i].srep.midp /\ sent[i].srep.midp <= sent[i].srep.cert.maxt

\* The schedule never runs past the key it guards: once the loop has passed the
\* rotation check, the next replacement falls due before the delegation ends, and
\* is either still ahead of the clock value that was checked or belongs to a key
\* made in this very iteration.
ReplacementBeforeExpiry ==
  pc \in {"poll", "collect", "respond", "send"} =>
    /\ next_key_replacement <= online_key.maxt
    /\ now < next_key_replacement \/ online_key.mint >= now

\* The counters of the three handlers agree in every snapshot handed to the
\* metrics thread: each good request was counted in one batch and in one send,
\* because snapshots and resets happen only between batches.
SnapshotBalanced ==
  /\ snapshot.request.num_ok_requests = snapshot.response.num_responses
  /\ snapshot.response.num_responses =
       snapshot.network.num_successful_sends + snapshot.network.num_failed_sends

\* No readiness edge is lost: whatever sits in the socket is read eventually,
\* unless the thread has been told to stop.
SocketDrained == sock # <<>> ~> (sock = <<>> \/ ~keep_running)

\* A request that was added is answered even when Ctrl-C comes in between.
AcceptedIsAnswered == \A k \in 1..MaxArrivals : Len(accepted) >= k ~> Len(sent) >= k

\* The thread exits after Ctrl-C (for finitely many arrivals and errors: the
\* drain loop does not look at the flag).
ShutdownCompletes == ~keep_running ~> pc = "done"

\* A key that is due is replaced eventually, also after a stall of several
\* intervals, when the schedule catches up one interval per iteration.
KeyReplaced == clock >= next_key_replacement ~> (clock < next_key_replacement \/ ~keep_running)

\* What a client relies on in the response to its request d: it comes to its
\* address with its nonce, signed within the delegation sent along.  (That the
\* Merkle proof verifies too is ProofsVerify.)
ValidResponse(d, r) ==
  /\ r.dst = d.src /\ r.nonc = d.nonc
  /\ r.srep.cert.mint <= r.srep.midp /\ r.srep.midp <= r.srep.cert.maxt

Service == INSTANCE TimeService WITH Requests <- Datagrams, ValidFor <- ValidResponse

\* The worker implements the abstract service: batching, rotation, metrics and
\* errors are invisible, every step accepts one request, answers the oldest one
\* validly, or changes nothing a client can see.
ImplementsService == Service!Spec
=============================================================================
