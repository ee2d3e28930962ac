------------------------------ MODULE Exchange ------------------------------
(***************************************************************************)
(* Messages from end to end: clients of both drafts encode requests        *)
(* (roughenough-client/src/client.rs), a server reads them into a buffer   *)
(* of fixed size, parses them and answers a whole batch from one template  *)
(* (roughenough-server/src/network.rs, requests.rs, responses.rs), and the *)
(* clients decode what comes back and cut out the bytes whose signatures   *)
(* they check (validation.rs).                                             *)
(*                                                                         *)
(* Module Worker has the event loop, the Merkle tree and the clock of the  *)
(* server; here they are reduced to what a response carries.               *)
(***************************************************************************)
EXTENDS Wire, FiniteSets

CONSTANTS
  Senders,      \* who may send: sequence of [kind, version, srv, ver, words,
                \* trail]
  MaxSends,     \* bound: how many of them do
  OtherCounts,  \* how many requests of yet others may come in between
  MaxOthers,    \* bound: how often they do
  MaxBatches    \* bound: batches answered

BatchSize == 64   \* the largest Args::batch_size

\* A sender may be any implementation that keeps to VER: at most 32 versions (a server
\* reads no more), and draft 8 by its number (0, its old name, is read as 8).  Its
\* message may be of any length, and anything may come behind it in the datagram.
ASSUME ExchangeAssumption ==
  /\ MaxSends \in Nat /\ OtherCounts \subseteq 1..BatchSize /\ MaxBatches \in Nat /\ MaxOthers \in Nat
  /\ Senders \in Seq([kind : {"roughenough", "foreign"}, version : {RfcDraft08, RfcDraft14},
                      srv : BOOLEAN, ver : Seq(Nat \ {0}), words : Int, trail : Nat])
  /\ \A i \in DOMAIN Senders : Len(Senders[i].ver) <= MAX_VERSIONS

VARIABLES
  version,        \* protocol_version of the server
  requests,       \* the Request of each sender, once it is sent
  sock,           \* datagrams on their way to the server
  batch,          \* ResponseHandler::requests, each with the bytes it was parsed from
  others,         \* how often others have joined
  batches,        \* number of the batch
  pc,             \* the server: "collect", "respond", or "panic"
  response_common,\* the template of the batch
  signed,         \* what the online key signed for the batch
  index,          \* loop index of process_responses
  response_buf,   \* the buffer that all responses are encoded into
  frames,         \* what each sender is sent back
  meant,          \* history: the response each sender should get
  decoded         \* what each sender makes of it

server == <<version, batch, others, batches, pc, response_common, signed, index, response_buf>>
vars == <<version, requests, sock, batch, others, batches, pc, response_common, signed, index,
          response_buf, frames, meant, decoded>>

None == <<>>
Some(x) == <<x>>

Nonce(s) == FixedTag(100 + s, 8)
SrvCommitment(s) == FixedTag(200 + s, 8)
Other == 0   \* the source of a request that is none of the senders'

-----------------------------------------------------------------------------
\* Client::create_request
create_request(s) ==
  IF Senders[s].version = RfcDraft08 THEN new_draft08(Nonce(s))
  ELSE IF Senders[s].srv THEN new_draft14_with_server_commitment(Nonce(s), SrvCommitment(s))
  ELSE new_draft14(Nonce(s))

\* A request of another implementation: the same tags, a list of versions and a
\* length of its own, with the offsets and the frame length that go with them.
\* VER grows or shrinks the message; the padding fills it up to `words`.
ForeignRequest(s) ==
  LET r     == create_request(s)
      grown == Len(Senders[s].ver) - Len(r.ver)
  IN  [r EXCEPT !.ver = Senders[s].ver,
                !.offsets = [i \in DOMAIN @ |-> @[i] + 4 * grown],
                !.pad = @ + (Senders[s].words - 256) - grown]

RequestOfSender(s) ==
  IF Senders[s].kind = "roughenough" THEN create_request(s) ELSE ForeignRequest(s)

\* The datagram: the frame, and what others put behind it, which its length leaves out.
Datagram(s) ==
  ToFrame(RequestToWire(RequestOfSender(s)))
    \o FixedTag(7, IF Senders[s].kind = "roughenough" THEN 0 ELSE Senders[s].trail)

Init ==
  /\ version \in {RfcDraft08, RfcDraft14}
  /\ requests = [s \in DOMAIN Senders |-> None] /\ sock = <<>>
  /\ batch = <<>> /\ others = 0 /\ batches = 0 /\ pc = "collect"
  /\ response_common = None /\ signed = <<>> /\ index = 0
  /\ response_buf = FixedTag(0, 256)
  /\ frames = [s \in DOMAIN Senders |-> None] /\ meant = [s \in DOMAIN Senders |-> None]
  /\ decoded = [s \in DOMAIN Senders |-> None]

\* send_request.  (One datagram at a time is on its way: which comes next is open
\* anyway.)
SendRequest(s) ==
  /\ requests[s] = None /\ sock = <<>>
  /\ Cardinality({t \in DOMAIN Senders : requests[t] # None}) < MaxSends
  /\ requests' = [requests EXCEPT ![s] = Some(RequestOfSender(s))]
  /\ sock' = Append(sock, [src |-> s, bytes |-> Datagram(s)])
  /\ UNCHANGED <<server, frames, meant, decoded>>

RECV_BUFFER_WORDS == 256

\* recv_from cuts a datagram to the buffer.
Received(b) == SubSeq(b, 1, IF Len(b) < RECV_BUFFER_WORDS THEN Len(b) ELSE RECV_BUFFER_WORDS)

\* RequestHandler::collect_request: exactly 1024 bytes that parse, or nothing.
collect_request(b) == Len(b) = 256 /\ FrameOk(b) /\ RequestOk(Unframed(b))

Collect ==
  /\ pc = "collect" /\ sock # <<>> /\ Len(batch) < BatchSize
  /\ LET b == Received(Head(sock).bytes)
     IN  batch' = IF collect_request(b)
                  THEN Append(batch, [src |-> Head(sock).src, bytes |-> b,
                                      request |-> RequestFrom(Unframed(b))])
                  ELSE batch
  /\ sock' = Tail(sock)
  /\ UNCHANGED <<version, requests, others, batches, pc, response_common, signed, index,
                 response_buf, frames, meant, decoded>>

\* The same for n requests of others at once.
CollectOthers(n) ==
  /\ pc = "collect" /\ others < MaxOthers /\ Len(batch) + n <= BatchSize
  /\ batch' = batch \o [i \in 1..n |-> [src |-> Other, bytes |-> <<>>,
                                        request |-> new_draft14(Nonce(Other))]]
  /\ others' = others + 1
  /\ UNCHANGED <<version, requests, sock, batches, pc, response_common, signed, index,
                 response_buf, frames, meant, decoded>>

-----------------------------------------------------------------------------
\* 2^0 to 2^6.
Pow2 == <<1, 2, 4, 8, 16, 32, 64>>

\* MerkleTree::get_paths_to for a batch of n: an opaque hash for the sibling on each
\* level, from the leaf up.
Depth(n) == CHOOSE d \in 0..6 : Pow2[d + 1] >= n /\ (d > 0 => Pow2[d] < n)
SiblingHash(i, level) ==
  LET k == i \div Pow2[level + 1]
  IN  10000 + 100 * level + (IF k % 2 = 0 THEN k + 1 ELSE k - 1)
PathTo(i, n) == [w \in 1..(8 * Depth(n)) |-> SiblingHash(i, (w - 1) \div 8)]

Midpoint == FixedTag(1000 + batches, 2)
Root == FixedTag(2000 + batches, 8)
Sig == FixedTag(3000 + batches, 16)
OnlinePublicKey == FixedTag(500, 8)
Cert == [sig |-> FixedTag(400, 16),
         dele |-> [pubk |-> OnlinePublicKey, mint |-> FixedTag(600, 2), maxt |-> FixedTag(700, 2)]]

\* OnlineKeyDraft14::new and make_srep; OnlineKeyDraft08::new and make_srep.
make_srep ==
  [set_vers(DefaultSrep, <<RfcDraft14>>) EXCEPT !.radi = 5, !.ver = RfcDraft14, !.root = Root,
                                                !.midp = Midpoint]
make_srep_draft08 == [DefaultSrepDraft08 EXCEPT !.radi = 5, !.root = Root, !.midp = Midpoint]

\* process_responses up to its loop: the template of the batch, and its signature.
ProcessResponses ==
  /\ pc = "collect" /\ batch # <<>> /\ batches < MaxBatches
  /\ response_common' = Some(
       IF version = RfcDraft08
       THEN set_sig(set_srep_draft08(set_cert_draft08(DefaultResponseDraft08, Cert),
                                     make_srep_draft08), Sig)
       ELSE set_sig(set_srep(set_cert(DefaultResponse, Cert), make_srep), Sig))
  /\ signed' = IF version = RfcDraft08 THEN SrepDraft08ToWire(make_srep_draft08)
                                       ELSE SrepToWire(make_srep)
  /\ index' = 0
  /\ pc' = "respond"
  /\ UNCHANGED <<version, requests, sock, batch, others, batches, response_buf, frames, meant,
                 decoded>>

\* The i-th response, from the template.
ResponseWords(i) ==
  LET path == PathTo(i, Len(batch))
      r    == response_common[1]
  IN  IF version = RfcDraft08
      THEN ResponseDraft08ToWire(set_indx(copy_path_draft08(r, path), i))
      ELSE ResponseToWire(set_indx(set_nonc(copy_path(r, path), batch[i + 1].request.nonc), i))

\* Mutant: a buffer of half the size.
RESPONSE_BUF_WORDS_Half == 128

RESPONSE_BUF_WORDS == 256

\* What is cut out of the buffer and sent: frame_size bytes of it.
Cut(buf, w) == SubSeq(buf, 1, Len(w))

\* The next turn of the loop that is looked at: what is sent to others in a row is
\* left out but for the end of the batch.
Turn == CHOOSE i \in index..(Len(batch) - 1) :
          /\ batch[i + 1].src # Other \/ i = Len(batch) - 1
          /\ \A j \in index..(i - 1) : batch[j + 1].src = Other

\* One turn: encode into the buffer, which panics when the frame does not fit
\* ("should be infallible"), and send the part that was written.
SendResponse ==
  /\ pc = "respond" /\ index < Len(batch)
  /\ LET w   == ToFrame(ResponseWords(Turn))
         src == batch[Turn + 1].src
         buf == Put(response_buf, 1, w)
     IN  IF Len(w) > RESPONSE_BUF_WORDS
         THEN pc' = "panic" /\ UNCHANGED <<index, response_buf, frames, meant>>
         ELSE /\ response_buf' = buf
              /\ index' = Turn + 1
              /\ UNCHANGED pc
              /\ IF src = Other THEN UNCHANGED <<frames, meant>>
                 ELSE /\ frames' = [frames EXCEPT ![src] = Some(Cut(buf, w))]
                      /\ meant' = [meant EXCEPT ![src] = Some(
                           [path |-> PathTo(Turn, Len(batch)), indx |-> Turn, midp |-> Midpoint,
                            root |-> Root, sig |-> Sig, signed |-> signed])]
  /\ UNCHANGED <<version, requests, sock, batch, others, batches, response_common, signed,
                 decoded>>

\* The loop has ended: clear.
FinishBatch ==
  /\ pc = "respond" /\ index = Len(batch)
  /\ batch' = <<>> /\ batches' = batches + 1 /\ pc' = "collect"
  /\ response_common' = None /\ signed' = <<>> /\ index' = 0
  /\ UNCHANGED <<version, requests, sock, others, response_buf, frames, meant, decoded>>

-----------------------------------------------------------------------------
\* What is cut out between two offsets, h being the length of frame and message
\* headers: nothing (BadSignature) when it extends beyond the response.
Between(b, h, from, to) ==
  IF h + to \div 4 > Len(b) THEN <<>> ELSE SubSeq(b, h + 1 + from \div 4, h + to \div 4)

\* check_srep_signature_draft14: the bytes between the offsets of SREP and of CERT.
srep_bytes(b, r) == Between(b, 17, r.offsets[4], r.offsets[5])

\* Mutant: the offsets of the draft 14 header.
srep_bytes_draft08_Off(b, r) == Between(b, 17, r.offsets[3], r.offsets[4])

\* check_srep_signature_draft08
srep_bytes_draft08(b, r) == Between(b, 15, r.offsets[3], r.offsets[4])

\* validate_response: parse by the client's own version, which decides what is
\* expected; a draft 8 response goes on in the form of draft 14.  srep_bytes is what
\* the signature is checked over, dele_bytes what the delegation's is.
validate_response(v, b) ==
  IF v = RfcDraft08
  THEN IF FrameOk(b) /\ ResponseDraft08Ok(Unframed(b))
       THEN LET r == ResponseDraft08From(Unframed(b))
            IN  [ok |-> TRUE, response |-> ResponseOfDraft08(r),
                 srep_bytes |-> srep_bytes_draft08(b, r), dele_bytes |-> DeleToWire(r.cert.dele)]
       ELSE [ok |-> FALSE]
  ELSE IF FrameOk(b) /\ ResponseOk(Unframed(b))
       THEN LET r == ResponseFrom(Unframed(b))
            IN  [ok |-> TRUE, response |-> r,
                 srep_bytes |-> srep_bytes(b, r), dele_bytes |-> DeleToWire(r.cert.dele)]
       ELSE [ok |-> FALSE]

\* query_raw: the response is read into a buffer of 1024 bytes.
Decode(s) ==
  /\ frames[s] # None /\ decoded[s] = None
  /\ decoded' = [decoded EXCEPT ![s] = Some(validate_response(Senders[s].version,
                                                              Received(frames[s][1])))]
  /\ UNCHANGED <<server, requests, sock, frames, meant>>

Next ==
  \/ \E s \in DOMAIN Senders : SendRequest(s) \/ Decode(s)
  \/ Collect \/ (\E n \in OtherCounts : CollectOthers(n))
  \/ ProcessResponses \/ SendResponse \/ FinishBatch

Spec == Init /\ [][Next]_vars

-----------------------------------------------------------------------------
\* Whatever the batch, and whatever the template and the buffer held before: a client
\* of the server's version decodes its answer, and decodes from it the path, index,
\* time, root and signature that the server meant for it, with its own nonce; a
\* client of the other version decodes nothing (responses.rs:124, response.rs:109).
AnswerDecodes ==
  \A s \in DOMAIN Senders :
    decoded[s] # None =>
      LET d == decoded[s][1]
          m == meant[s][1]
      IN  /\ d.ok <=> Senders[s].version = version
          /\ d.ok => /\ d.response.path = m.path /\ d.response.indx = m.indx
                     /\ d.response.srep.midp = m.midp /\ d.response.srep.root = m.root
                     /\ d.response.srep.radi = 5 /\ d.response.srep.ver = version
                     /\ d.response.sig = m.sig /\ d.response.cert = Cert
                     /\ version = RfcDraft14 => d.response.nonc = requests[s][1].nonc

\* The bytes over which a client checks the signatures, which it finds by the offsets
\* in the response for SREP and by encoding what it decoded for DELE, are the bytes
\* that the server signed, which it encoded before there was a response.
SignedBytesAgree ==
  \A s \in DOMAIN Senders :
    decoded[s] # None /\ decoded[s][1].ok =>
      /\ decoded[s][1].srep_bytes = meant[s][1].signed
      /\ decoded[s][1].dele_bytes = DeleToWire(Cert.dele)

\* The receive buffer cuts a longer datagram to the very length that is asked for
\* (network.rs:24).  What is answered all the same has its whole message in what was
\* kept, so that nothing but bytes behind the frame is lost, and is read as its sender
\* meant it.  A request framed to 1024 bytes is kept as it was sent: its leaf in draft
\* 14 (all bytes) and in draft 8 (the nonce) is the one the answer is checked against.
MessageTakenWhole ==
  \A i \in DOMAIN batch :
    LET p == batch[i]
    IN  p.src # Other =>
          LET r == requests[p.src][1]
              f == ToFrame(RequestToWire(r))
          IN  /\ Len(p.bytes) = 256 /\ Len(f) <= 256 /\ SubSeq(p.bytes, 1, Len(f)) = f
              /\ p.request.nonc = r.nonc /\ p.request.ver = r.ver
              /\ p.request.srv = r.srv /\ p.request.variant = r.variant

\* No response is too long for the buffer it is encoded into, whatever the batch
\* ("to_frame(ParseCursor) should be infallible", responses.rs:142), nor longer than
\* the request that it answers.
ResponsesFit ==
  /\ pc # "panic"
  /\ \A s \in DOMAIN Senders : frames[s] # None => Len(frames[s][1]) < 256
=============================================================================
