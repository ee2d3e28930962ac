---------------------------- MODULE WorkerProofs ----------------------------
(***************************************************************************)
(* Proofs about module Worker, for every batch size, interval, jitter,     *)
(* set of datagrams and bound.  The argument has layers, each an inductive *)
(* invariant that uses the ones before: types and the shape of the batch,  *)
(* its place between what was accepted and what was sent, the Merkle tree  *)
(* over it, the counters, and the key schedule.                            *)
(***************************************************************************)
EXTENDS Worker, SequenceTheorems, TLAPS

-----------------------------------------------------------------------------
\* Shape of the pending batch: how its length, the receive count and the response
\* index are tied to the place in the loop.
BatchInv ==
  /\ pc \in Idle => requests = <<>>
  /\ pc # "send" => index = 0
  /\ pc = "collect" => Len(requests) <= recvs /\ recvs < BatchSize
  /\ Len(requests) <= BatchSize

\* The pending batch is the end of the accepted sequence, and what has been sent
\* is everything before it plus the part already answered.
QueueInv ==
  /\ Len(accepted) = Len(sent) + (Len(requests) - index)
  /\ \A i \in 1..Len(requests) : requests[i] = accepted[Len(accepted) - Len(requests) + i]
  /\ \A i \in 1..Len(sent) : sent[i].dst = accepted[i].src /\ sent[i].nonc = accepted[i].nonc
  /\ \E S : sent \in Seq(S)

\* The counters of the three handlers, with the part of the batch that one of
\* them has counted and the next has not.
BalanceInv ==
  /\ req.num_ok_requests = resp.num_responses + (IF pc = "send" THEN 0 ELSE Len(requests))
  /\ resp.num_responses = net.num_successful_sends + net.num_failed_sends
                          + (IF pc = "send" THEN Len(requests) - index ELSE 0)
  /\ SnapshotBalanced

\* The key schedule.  The last disjunction covers the start: the first key may be
\* older than its schedule until the first rotation check, which finds it due.
KeyInv ==
  /\ online_key.mint <= clock
  /\ online_key.maxt = online_key.mint + RotationInterval
  /\ pc \notin {"new", "top", "done"} => clock - now <= MaxLag
  /\ \/ next_key_replacement <= online_key.maxt
     \/ pc \in {"new", "done"}
     \/ pc = "top" /\ next_key_replacement <= clock
     \/ pc \in {"publish", "rotate"} /\ next_key_replacement <= now
  /\ ReplacementBeforeExpiry

\* A signed batch, and everything sent, lies within its delegation.
Within(s) == s.cert.mint <= s.midp /\ s.midp <= s.cert.maxt

SrepInv ==
  /\ pc = "send" /\ requests # <<>> => Within(srep)
  /\ \A i \in 1..Len(sent) : Within(sent[i].srep)

\* The worker's tree as an object of module MerkleTree: what is pushed are the leaves
\* of requests, level 0 holds those of the pending batch in its order, one padding
\* node more once an odd batch is signed, and the signed root is the last call's.
LeafSet == {LeafData(d) : d \in Datagrams}
Padding == CHOOSE x : x \notin LeafSet

BatchLeaves == [i \in 1..Len(requests) |-> LeafData(requests[i])]

TreeLeaves ==
  IF pc = "send" /\ Len(requests) > 1 /\ Len(requests) % 2 = 1
  THEN Append(BatchLeaves, Padding) ELSE BatchLeaves

TreeRoot == IF pc = "send" /\ requests # <<>> THEN srep.root ELSE <<>>

BatchTree == INSTANCE MerkleTreeProofs
               WITH Data <- LeafSet, MaxLeaves <- BatchSize, Pad <- Padding,
                    reserved <- BatchSize, root <- TreeRoot, leaves <- TreeLeaves

\* While responses go out there is a root that they lead to.
SignedInv == pc = "send" /\ requests # <<>> => srep.root # <<>>

\* What has been sent verifies, with the server's own choice of leaf data.
SentInv ==
  \A i \in 1..Len(sent) :
    root_from_paths(sent[i].indx, LeafData(accepted[i]), sent[i].path) = sent[i].srep.root

ProofInv == BatchTree!TreeInv /\ SignedInv /\ SentInv

-----------------------------------------------------------------------------
\* Counting one more event of any kind keeps the network counters well typed.
LEMMA NetworkCount ==
  ASSUME NEW m \in NetworkCounters
  PROVE  /\ [m EXCEPT !.num_recv_wouldblock = @ + 1] \in NetworkCounters
         /\ [m EXCEPT !.num_successful_sends = @ + 1] \in NetworkCounters
         /\ [m EXCEPT !.num_failed_sends = @ + 1] \in NetworkCounters
         /\ [m EXCEPT !.num_failed_polls = @ + 1] \in NetworkCounters
         /\ [m EXCEPT !.num_failed_recvs = @ + 1] \in NetworkCounters
BY DEF NetworkCounters

\* collect_request takes one of its four branches, and counts it.
LEMMA RequestCount ==
  ASSUME NEW m \in RequestCounters, NEW d \in Datagrams
  PROVE  /\ Classify(d) \in {"runt", "jumbo", "ok", "bad"}
         /\ CountRequest(m, Classify(d)) \in RequestCounters
<1> USE WorkerAssumption
<1>1. Classify(d) \in {"runt", "jumbo", "ok", "bad"}
  BY DEF Classify, nbytes, REQUEST_SIZE, RECV_BUFFER_SIZE
<1>2. ASSUME NEW c \in {"runt", "jumbo", "ok", "bad"}
      PROVE  CountRequest(m, c) \in RequestCounters
  BY ONLY <1>2, m \in RequestCounters DEF CountRequest, RequestCounters
<1> QED
  BY <1>1, <1>2

\* add_batch_size stays within the table for a batch of 1 to batch_size requests.
LEMMA ResponseCount ==
  ASSUME NEW m \in ResponseCounters, NEW n \in 1..BatchSize
  PROVE  add_batch_size(m, n) \in ResponseCounters
<1>1. m.num_responses \in Nat /\ m.batch_sizes \in [1..BatchSize -> 0..255]
  BY DEF ResponseCounters
<1>2. \A k \in 0..255 : (k + 1) % 256 \in 0..255
  OBVIOUS
<1>3. [m.batch_sizes EXCEPT ![n] = (@ + 1) % 256] \in [1..BatchSize -> 0..255]
  BY <1>1, <1>2
<1>4. m.num_responses + n \in Nat
  BY <1>1, WorkerAssumption
<1> QED
  BY <1>3, <1>4 DEF add_batch_size, ResponseCounters

\* The type invariant and the shape of the batch hold initially.
LEMMA InitTypes == Init => TypeOK /\ BatchInv
<1> USE WorkerAssumption
<1> SUFFICES ASSUME Init PROVE TypeOK /\ BatchInv
  OBVIOUS
<1>1. WorldOK
  <2>1. sock \in Seq(Datagrams)
    BY DEF Init
  <2>3. ready \in BOOLEAN /\ keep_running \in BOOLEAN
    BY Zenon DEF Init
  <2>2. clock \in 0..MaxClock /\ now \in 0..clock
        /\ arrivals \in 0..MaxArrivals /\ errors \in 0..MaxErrors
    BY DEF Init
  <2> QED
    BY <2>1, <2>2, <2>3 DEF WorldOK
<1>2. LoopOK
  BY DEF Init, LoopOK, Idle
<1>3. BatchOK
  BY DEF Init, BatchOK, make_online_key, NoSrep, Validity
<1>4. MetricsOK
  BY DEF Init, MetricsOK, NetworkMetrics, RequestMetrics, ResponseMetrics,
         NetworkCounters, RequestCounters, ResponseCounters
<1>5. BatchInv
  BY DEF Init, BatchInv, Idle
<1> QED
  BY <1>1, <1>2, <1>3, <1>4, <1>5 DEF TypeOK

\* Every step preserves both.  The two need each other: the types of the counters
\* rest on the batch limit, the batch limit on the types.
LEMMA NextTypes == TypeOK /\ BatchInv /\ [Next]_vars => TypeOK' /\ BatchInv'
<1> USE WorkerAssumption
<1> SUFFICES ASSUME TypeOK, BatchInv, [Next]_vars PROVE TypeOK' /\ BatchInv'
  OBVIOUS
<1> USE DEF TypeOK, env, sched, batch, signing, metrics, history
<1>1. CASE New
  <2>1. LoopOK'
    BY <1>1 DEF New, LoopOK, WorldOK, Idle
  <2>2. BatchInv'
    BY <1>1 DEF New, BatchInv, Idle
  <2>3. WorldOK' /\ BatchOK' /\ MetricsOK'
    BY <1>1 DEF New, WorldOK, BatchOK, MetricsOK
  <2> QED
    BY <2>1, <2>2, <2>3
<1>2. CASE LoopTop
  <2>1. WorldOK'
    BY <1>2 DEF LoopTop, WorldOK
  <2>2. LoopOK'
    BY <1>2 DEF LoopTop, LoopOK, Idle
  <2>3. BatchInv'
    BY <1>2 DEF LoopTop, BatchInv, Idle
  <2>4. BatchOK' /\ MetricsOK'
    BY <1>2 DEF LoopTop, BatchOK, MetricsOK
  <2> QED
    BY <2>1, <2>2, <2>3, <2>4
<1>3. CASE PublishMetrics
  <2>1. LoopOK'
    BY <1>3 DEF PublishMetrics, LoopOK, WorldOK, Idle
  <2>2. MetricsOK'
    BY <1>3 DEF PublishMetrics, MetricsOK, NetworkMetrics, RequestMetrics, ResponseMetrics,
           NetworkCounters, RequestCounters, ResponseCounters
  <2>3. BatchInv'
    BY <1>3 DEF PublishMetrics, BatchInv, Idle
  <2>4. WorldOK' /\ BatchOK'
    BY <1>3 DEF PublishMetrics, WorldOK, BatchOK
  <2> QED
    BY <2>1, <2>2, <2>3, <2>4
<1>4. CASE SkipPublish
  <2>1. LoopOK'
    BY <1>4 DEF SkipPublish, LoopOK, Idle
  <2>2. BatchInv'
    BY <1>4 DEF SkipPublish, BatchInv, Idle
  <2>3. WorldOK' /\ BatchOK' /\ MetricsOK'
    BY <1>4 DEF SkipPublish, WorldOK, BatchOK, MetricsOK
  <2> QED
    BY <2>1, <2>2, <2>3
<1>5. ASSUME NEW j \in 0..MaxJitter, ReplaceOnlineKey(j) PROVE TypeOK' /\ BatchInv'
  <2>1. LoopOK'
    BY <1>5 DEF ReplaceOnlineKey, NextReplacement, LoopOK, Idle
  <2>2. BatchOK'
    BY <1>5, SMTT(30) DEF ReplaceOnlineKey, BatchOK, make_online_key, Validity, WorldOK
  <2>3. BatchInv'
    BY <1>5 DEF ReplaceOnlineKey, BatchInv, Idle
  <2>4. WorldOK' /\ MetricsOK'
    BY <1>5 DEF ReplaceOnlineKey, WorldOK, MetricsOK
  <2> QED
    BY <2>1, <2>2, <2>3, <2>4
<1>6. CASE SkipReplacement
  <2>1. LoopOK'
    BY <1>6 DEF SkipReplacement, LoopOK, Idle
  <2>2. BatchInv'
    BY <1>6 DEF SkipReplacement, BatchInv, Idle
  <2>3. WorldOK' /\ BatchOK' /\ MetricsOK'
    BY <1>6 DEF SkipReplacement, WorldOK, BatchOK, MetricsOK
  <2> QED
    BY <2>1, <2>2, <2>3
<1>7. CASE PollReadable
  <2>1. WorldOK'
    BY <1>7 DEF PollReadable, WorldOK
  <2>2. LoopOK'
    BY <1>7 DEF PollReadable, LoopOK, Idle
  <2>3. BatchInv'
    BY <1>7 DEF PollReadable, BatchInv, Idle
  <2>4. BatchOK' /\ MetricsOK'
    BY <1>7 DEF PollReadable, BatchOK, MetricsOK
  <2> QED
    BY <2>1, <2>2, <2>3, <2>4
<1>8. CASE PollTimeout
  <2>1. LoopOK'
    BY <1>8 DEF PollTimeout, LoopOK, Idle
  <2>2. BatchInv'
    BY <1>8 DEF PollTimeout, BatchInv, Idle
  <2>3. WorldOK' /\ BatchOK' /\ MetricsOK'
    BY <1>8 DEF PollTimeout, WorldOK, BatchOK, MetricsOK
  <2> QED
    BY <2>1, <2>2, <2>3
<1>9. CASE PollError
  <2>1. WorldOK'
    BY <1>9 DEF PollError, WorldOK
  <2>2. LoopOK'
    BY <1>9 DEF PollError, LoopOK, Idle
  <2>3. MetricsOK'
    BY <1>9, NetworkCount DEF PollError, MetricsOK
  <2>4. BatchInv'
    BY <1>9 DEF PollError, BatchInv, Idle
  <2>5. BatchOK'
    BY <1>9 DEF PollError, BatchOK
  <2> QED
    BY <2>1, <2>2, <2>3, <2>4, <2>5
<1>10. CASE Receive
  <2>1. WorldOK'
    BY <1>10 DEF Receive, WorldOK
  <2>2. LoopOK'
    BY <1>10 DEF Receive, BatchFull, LoopOK, Idle, BatchInv
  <2>3. BatchOK'
    <3>1. Head(sock) \in Datagrams
      BY <1>10 DEF Receive, WorldOK
    <3>2. CASE Classify(Head(sock)) = "ok"
      <4>1. requests' = Append(requests, Head(sock)) /\ accepted' = Append(accepted, Head(sock))
        BY <1>10, <3>2 DEF Receive
      <4>2. requests' \in Seq(Datagrams) /\ accepted' \in Seq(Datagrams)
            /\ Len(requests') = Len(requests) + 1
        BY <3>1, <4>1 DEF BatchOK
      <4> QED
        BY <1>10, <4>2 DEF Receive, BatchOK
    <3>3. CASE Classify(Head(sock)) # "ok"
      BY <1>10, <3>3 DEF Receive, BatchOK
    <3> QED
      BY <3>2, <3>3
  <2>4. MetricsOK'
    BY <1>10, RequestCount DEF Receive, MetricsOK, WorldOK
  <2>5. BatchInv'
    BY <1>10, SMTT(30) DEF Receive, BatchFull, BatchInv, Idle, LoopOK, BatchOK, WorldOK
  <2> QED
    BY <2>1, <2>2, <2>3, <2>4, <2>5
<1>11. CASE ReceiveWouldBlock
  <2>1. LoopOK'
    BY <1>11 DEF ReceiveWouldBlock, LoopOK, Idle
  <2>2. MetricsOK'
    BY <1>11, NetworkCount DEF ReceiveWouldBlock, MetricsOK
  <2>3. BatchInv'
    BY <1>11 DEF ReceiveWouldBlock, BatchInv, Idle
  <2>4. WorldOK' /\ BatchOK'
    BY <1>11 DEF ReceiveWouldBlock, WorldOK, BatchOK
  <2> QED
    BY <2>1, <2>2, <2>3, <2>4
<1>12. CASE ReceiveError
  <2>1. WorldOK'
    BY <1>12 DEF ReceiveError, WorldOK
  <2>2. LoopOK'
    BY <1>12 DEF ReceiveError, LoopOK, Idle
  <2>3. MetricsOK'
    BY <1>12, NetworkCount DEF ReceiveError, MetricsOK
  <2>4. BatchInv'
    BY <1>12 DEF ReceiveError, BatchInv, Idle
  <2>5. BatchOK'
    BY <1>12 DEF ReceiveError, BatchOK
  <2> QED
    BY <2>1, <2>2, <2>3, <2>4, <2>5
<1>13. CASE SignBatch
  <2>1. WorldOK'
    BY <1>13 DEF SignBatch, WorldOK
  <2>2. LoopOK'
    BY <1>13 DEF SignBatch, LoopOK, Idle
  <2>3. BatchOK'
    BY <1>13 DEF SignBatch, BatchOK, Validity, make_srep, WorldOK
  <2>4. MetricsOK'
    <3>1. requests # <<>> => Len(requests) \in 1..BatchSize
      BY DEF BatchOK, BatchInv
    <3> QED
      BY <1>13, <3>1, ResponseCount DEF SignBatch, MetricsOK
  <2>5. BatchInv'
    BY <1>13 DEF SignBatch, BatchInv, Idle, LoopOK, BatchOK
  <2> QED
    BY <2>1, <2>2, <2>3, <2>4, <2>5
<1>14. ASSUME NEW ok \in BOOLEAN, SendResponse(ok) PROVE TypeOK' /\ BatchInv'
  <2>1. WorldOK'
    BY <1>14 DEF SendResponse, WorldOK
  <2>2. BatchOK'
    BY <1>14 DEF SendResponse, BatchOK
  <2>3. MetricsOK'
    BY <1>14, NetworkCount DEF SendResponse, MetricsOK
  <2>4. BatchInv'
    BY <1>14 DEF SendResponse, BatchInv
  <2>5. LoopOK'
    BY <1>14 DEF SendResponse, LoopOK
  <2> QED
    BY <2>1, <2>2, <2>3, <2>4, <2>5
<1>15. CASE FinishBatch
  <2>1. LoopOK'
    BY <1>15 DEF FinishBatch, AfterBatch, LoopOK, Idle
  <2>2. BatchOK'
    BY <1>15 DEF FinishBatch, BatchOK, NoSrep, Validity
  <2>3. BatchInv'
    BY <1>15 DEF FinishBatch, AfterBatch, BatchInv, BatchOK, Idle
  <2>4. WorldOK' /\ MetricsOK'
    BY <1>15 DEF FinishBatch, WorldOK, MetricsOK
  <2> QED
    BY <2>1, <2>2, <2>3, <2>4
<1>16. ASSUME NEW d \in Datagrams, Arrive(d) PROVE TypeOK' /\ BatchInv'
  <2>1. WorldOK'
    BY <1>16 DEF Arrive, WorldOK
  <2>2. LoopOK' /\ BatchOK' /\ MetricsOK' /\ BatchInv'
    BY <1>16 DEF Arrive, LoopOK, BatchOK, MetricsOK, BatchInv
  <2> QED
    BY <2>1, <2>2
<1>17. CASE Tick
  <2>1. WorldOK'
    BY <1>17 DEF Tick, WorldOK
  <2>2. LoopOK' /\ BatchOK' /\ MetricsOK' /\ BatchInv'
    BY <1>17 DEF Tick, LoopOK, BatchOK, MetricsOK, BatchInv
  <2> QED
    BY <2>1, <2>2
<1>18. CASE CtrlC
  <2>1. WorldOK'
    BY <1>18 DEF CtrlC, WorldOK
  <2>2. LoopOK' /\ BatchOK' /\ MetricsOK' /\ BatchInv'
    BY <1>18 DEF CtrlC, LoopOK, BatchOK, MetricsOK, BatchInv
  <2> QED
    BY <2>1, <2>2
<1>19. CASE UNCHANGED vars
  BY <1>19 DEF vars, WorldOK, LoopOK, BatchOK, MetricsOK, BatchInv
<1> QED
  BY <1>1, <1>2, <1>3, <1>4, <1>5, <1>6, <1>7, <1>8, <1>9, <1>10, <1>11, <1>12, <1>13,
     <1>14, <1>15, <1>16, <1>17, <1>18, <1>19 DEF Next, Loop, Environment, Terminated

\* Type correctness: TypeOK holds in every reachable state of the worker, for every
\* batch size, rotation interval, jitter and set of datagrams.
THEOREM TypeCorrect == Spec => []TypeOK
<1>1. Spec => [](TypeOK /\ BatchInv)
  BY InitTypes, NextTypes, PTL DEF Spec
<1> QED
  BY <1>1, PTL

\* A batch never exceeds batch_size (the debug_assert of add_request), and none is
\* pending when the loop is outside the drain.
THEOREM BatchDisciplined == Spec => []BatchDiscipline
<1>1. TypeOK /\ BatchInv => BatchDiscipline
  BY DEF BatchInv, BatchDiscipline
<1> QED
  BY <1>1, InitTypes, NextTypes, PTL DEF Spec

-----------------------------------------------------------------------------
\* Appending to a sequence of anything yields a sequence one longer with the same
\* beginning.
LEMMA AppendToAny ==
  ASSUME NEW s, NEW e, \E S : s \in Seq(S)
  PROVE  /\ \E S : Append(s, e) \in Seq(S)
         /\ Len(s) \in Nat /\ Len(Append(s, e)) = Len(s) + 1
         /\ \A i \in 1..Len(s) : Append(s, e)[i] = s[i]
         /\ Append(s, e)[Len(s) + 1] = e
<1>1. PICK S : s \in Seq(S)
  OBVIOUS
<1> DEFINE T == S \cup {e}
<1>2. s \in Seq(T) /\ e \in T
  BY <1>1, SeqMonotonic
<1> HIDE DEF T
<1>3. Append(s, e) \in Seq(T)
  BY <1>2
<1> QED
  BY <1>2, <1>3

\* Only three actions touch the batch, the index or the history.
LEMMA QueueFrame ==
  TypeOK /\ BatchInv /\ [Next]_vars =>
    \/ UNCHANGED <<requests, index, accepted, sent>>
    \/ Receive \/ FinishBatch \/ \E ok \in BOOLEAN : SendResponse(ok)
<1> SUFFICES ASSUME TypeOK, BatchInv, [Next]_vars
             PROVE  \/ UNCHANGED <<requests, index, accepted, sent>>
                    \/ Receive \/ FinishBatch \/ \E ok \in BOOLEAN : SendResponse(ok)
  OBVIOUS
<1> USE DEF env, sched, batch, signing, metrics, history
<1>1. CASE New \/ LoopTop \/ PublishMetrics \/ SkipPublish \/ SkipReplacement
           \/ \E j \in 0..MaxJitter : ReplaceOnlineKey(j)
  BY <1>1 DEF New, LoopTop, PublishMetrics, SkipPublish, SkipReplacement, ReplaceOnlineKey
<1>2. CASE PollReadable \/ PollTimeout \/ PollError \/ ReceiveWouldBlock \/ ReceiveError
  BY <1>2 DEF PollReadable, PollTimeout, PollError, ReceiveWouldBlock, ReceiveError
<1>3. CASE SignBatch
  BY <1>3 DEF SignBatch, BatchInv
<1>4. CASE Environment \/ UNCHANGED vars
  BY <1>4 DEF Environment, Arrive, Tick, CtrlC, vars
<1> QED
  BY <1>1, <1>2, <1>3, <1>4 DEF Next, Loop, Terminated

\* The pending batch stays the unanswered end of what was accepted.
LEMMA NextQueue == TypeOK /\ BatchInv /\ QueueInv /\ [Next]_vars => QueueInv'
<1> SUFFICES ASSUME TypeOK, BatchInv, QueueInv, [Next]_vars PROVE QueueInv'
  OBVIOUS
<1> USE DEF env, sched, batch, signing, metrics, history
<1>0. /\ requests \in Seq(Datagrams) /\ accepted \in Seq(Datagrams) /\ index \in 0..Len(requests)
      /\ Len(requests) \in Nat /\ Len(accepted) \in Nat /\ Len(sent) \in Nat
  BY AppendToAny DEF TypeOK, BatchOK, QueueInv
<1>1. CASE UNCHANGED <<requests, index, accepted, sent>>
  BY <1>1 DEF QueueInv
<1>2. CASE Receive
  <2>1. CASE Classify(Head(sock)) = "ok"
    <3> DEFINE d == Head(sock)
    <3>1. d \in Datagrams
      BY <1>2 DEF Receive, TypeOK, WorldOK
    <3>2. /\ requests' = Append(requests, d) /\ accepted' = Append(accepted, d)
          /\ index' = index /\ sent' = sent /\ index = 0
      BY <1>2, <2>1 DEF Receive, BatchInv
    <3> HIDE DEF d
    <3>3. Len(requests') = Len(requests) + 1 /\ Len(accepted') = Len(accepted) + 1
      BY <1>0, <3>1, <3>2
    <3>4. Len(accepted) = Len(sent) + Len(requests)
      BY <1>0, <3>2 DEF QueueInv
    <3>5. ASSUME NEW i \in 1..Len(requests')
          PROVE  requests'[i] = accepted'[Len(accepted') - Len(requests') + i]
      <4>1. CASE i = Len(requests) + 1
        <5>1. requests'[Len(requests) + 1] = d /\ accepted'[Len(accepted) + 1] = d
          BY <1>0, <3>1, <3>2
        <5>2. Len(accepted') - Len(requests') + i = Len(accepted) + 1
          BY <1>0, <3>3, <4>1
        <5> QED
          BY <4>1, <5>1, <5>2
      <4>2. CASE i \in 1..Len(requests)
        <5>1. requests'[i] = requests[i]
          BY <1>0, <3>1, <3>2, <4>2
        <5>2. Len(accepted) - Len(requests) + i \in 1..Len(accepted)
          BY <1>0, <3>4, <4>2
        <5>3. accepted'[Len(accepted) - Len(requests) + i] = accepted[Len(accepted) - Len(requests) + i]
          BY <1>0, <3>1, <3>2, <5>2
        <5>4. Len(accepted') - Len(requests') + i = Len(accepted) - Len(requests) + i
          BY <1>0, <3>3, <4>2
        <5> QED
          BY <4>2, <5>1, <5>3, <5>4 DEF QueueInv
      <4> QED
        BY <1>0, <3>3, <4>1, <4>2
    <3>6. ASSUME NEW i \in 1..Len(sent')
          PROVE  sent'[i].dst = accepted'[i].src /\ sent'[i].nonc = accepted'[i].nonc
      <4>1. i \in 1..Len(accepted) /\ accepted'[i] = accepted[i]
        BY <1>0, <3>1, <3>2, <3>4
      <4> QED
        BY <3>2, <4>1 DEF QueueInv
    <3>7. Len(accepted') = Len(sent') + (Len(requests') - index')
      BY <1>0, <3>2, <3>3, <3>4
    <3>8. (\E S : sent \in Seq(S))'
      BY <3>2 DEF QueueInv
    <3> QED
      BY <3>5, <3>6, <3>7, <3>8 DEF QueueInv
  <2>2. CASE Classify(Head(sock)) # "ok"
    BY <1>2, <2>2 DEF Receive, QueueInv
  <2> QED
    BY <2>1, <2>2
<1>3. CASE FinishBatch
  BY <1>0, <1>3 DEF FinishBatch, AllSent, QueueInv
<1>4. ASSUME NEW ok \in BOOLEAN, SendResponse(ok) PROVE QueueInv'
  <2>1. /\ sent' = Append(sent, ResponseFor(index)) /\ index' = index + 1
        /\ requests' = requests /\ accepted' = accepted /\ index < Len(requests)
    BY <1>4 DEF SendResponse
  <2>2. /\ Len(sent') = Len(sent) + 1 /\ \E S : sent' \in Seq(S)
        /\ \A i \in 1..Len(sent) : sent'[i] = sent[i]
        /\ sent'[Len(sent) + 1] = ResponseFor(index)
    <3>1. \E S : sent \in Seq(S)
      BY DEF QueueInv
    <3> DEFINE r == ResponseFor(index)
               q == Append(sent, r)
    <3> HIDE DEF r
    <3>2. /\ \E S : q \in Seq(S)
          /\ Len(sent) \in Nat /\ Len(q) = Len(sent) + 1
          /\ \A i \in 1..Len(sent) : q[i] = sent[i]
          /\ q[Len(sent) + 1] = r
      BY <3>1, AppendToAny, Zenon
    <3>3. sent' = q /\ r = ResponseFor(index)
      BY <2>1 DEF r
    <3> HIDE DEF q
    <3>4. \E S : sent' \in Seq(S)
      BY <3>2, <3>3, Zenon
    <3>5. /\ Len(sent') = Len(sent) + 1 /\ \A i \in 1..Len(sent) : sent'[i] = sent[i]
          /\ sent'[Len(sent) + 1] = ResponseFor(index)
      BY <3>2, <3>3
    <3> QED
      BY <3>4, <3>5
  <2>3. index + 1 \in 1..Len(requests) /\ Len(accepted) - Len(requests) + (index + 1) = Len(sent) + 1
    BY <1>0, <2>1 DEF QueueInv
  <2>4. requests[index + 1] = accepted[Len(sent) + 1]
    BY <2>3 DEF QueueInv
  <2>5. /\ ResponseFor(index).dst = accepted[Len(sent) + 1].src
        /\ ResponseFor(index).nonc = accepted[Len(sent) + 1].nonc
    BY <2>4 DEF ResponseFor, Requester
  <2>6. Len(accepted') = Len(sent') + (Len(requests') - index')
    BY <1>0, <2>1, <2>2 DEF QueueInv
  <2>7. \A i \in 1..Len(requests') : requests'[i] = accepted'[Len(accepted') - Len(requests') + i]
    BY <2>1 DEF QueueInv
  <2>8. ASSUME NEW i \in 1..Len(sent')
        PROVE  sent'[i].dst = accepted'[i].src /\ sent'[i].nonc = accepted'[i].nonc
    <3>1. CASE i = Len(sent) + 1
      BY <2>1, <2>2, <2>5, <3>1
    <3>2. CASE i \in 1..Len(sent)
      BY <2>1, <2>2, <3>2 DEF QueueInv
    <3> QED
      BY <1>0, <2>2, <3>1, <3>2
  <2> QED
    BY <2>2, <2>6, <2>7, <2>8 DEF QueueInv
<1> QED
  BY <1>1, <1>2, <1>3, <1>4, QueueFrame

\* Every accepted request is answered once, in order, at its sender's address with
\* its nonce, and nothing is owed outside the drain.
THEOREM EveryRequestAnswered == Spec => []OneResponsePerRequest
<1>1. Init => QueueInv
  BY DEF Init, QueueInv
<1>2. TypeOK /\ BatchInv /\ QueueInv => OneResponsePerRequest
  <2> SUFFICES ASSUME TypeOK, BatchInv, QueueInv PROVE OneResponsePerRequest
    OBVIOUS
  <2>1. Len(sent) \in Nat /\ Len(accepted) \in Nat /\ Len(requests) \in Nat /\ index \in 0..Len(requests)
    BY AppendToAny DEF TypeOK, BatchOK, QueueInv
  <2>2. pc \in Idle => Len(requests) = 0 /\ index = 0
    BY DEF BatchInv, Idle
  <2> QED
    BY <2>1, <2>2 DEF QueueInv, OneResponsePerRequest
<1> QED
  BY <1>1, <1>2, InitTypes, NextTypes, NextQueue, PTL DEF Spec

-----------------------------------------------------------------------------
\* Only four actions touch the tree, the batch, the signed part or the history, and
\* only they enter or leave the response loop.
LEMMA ProofFrame ==
  TypeOK /\ BatchInv /\ [Next]_vars =>
    \/ UNCHANGED <<requests, levels, srep, accepted, sent>> /\ (pc' = "send" <=> pc = "send")
    \/ Receive \/ SignBatch \/ FinishBatch \/ \E ok \in BOOLEAN : SendResponse(ok)
<1> SUFFICES ASSUME TypeOK, BatchInv, [Next]_vars
             PROVE  \/ /\ UNCHANGED <<requests, levels, srep, accepted, sent>>
                       /\ pc' = "send" <=> pc = "send"
                    \/ Receive \/ SignBatch \/ FinishBatch \/ \E ok \in BOOLEAN : SendResponse(ok)
  OBVIOUS
<1> USE DEF env, sched, batch, signing, metrics, history
<1>1. CASE New \/ LoopTop \/ PublishMetrics \/ SkipPublish \/ SkipReplacement
           \/ \E j \in 0..MaxJitter : ReplaceOnlineKey(j)
  BY <1>1 DEF New, LoopTop, PublishMetrics, SkipPublish, SkipReplacement, ReplaceOnlineKey
<1>2. CASE PollReadable \/ PollTimeout \/ PollError \/ ReceiveWouldBlock \/ ReceiveError
  BY <1>2 DEF PollReadable, PollTimeout, PollError, ReceiveWouldBlock, ReceiveError
<1>3. CASE Environment \/ UNCHANGED vars
  BY <1>3 DEF Environment, Arrive, Tick, CtrlC, vars
<1> QED
  BY <1>1, <1>2, <1>3 DEF Next, Loop, Terminated

\* The leaf that the client folds the path over is the one that the server hashed.
LEMMA SameLeaf == \A d : LeafData(d) = ClientLeaf(d)
BY WorkerAssumption DEF LeafData, ClientLeaf

\* The instance's copies of the tree's operators are the worker's.
LEMMA SameOperators ==
  /\ BatchTree!new = new
  /\ \A l, n : BatchTree!reserve(l, n) = reserve(l, n)
  /\ \A l, d : BatchTree!push_leaf(l, d) = push_leaf(l, d)
  /\ \A l : BatchTree!compute_root(l) = compute_root(l)
  /\ \A l : BatchTree!clear(l) = clear(l)
  /\ \A l, i : BatchTree!get_paths_to(l, i) = get_paths_to(l, i)
  /\ \A i, d, p : BatchTree!root_from_paths(i, d, p) = root_from_paths(i, d, p)
<1>1. BatchTree!new = new
  BY DEF BatchTree!new, new
<1>2. \A l, n : BatchTree!reserve(l, n) = reserve(l, n)
  BY Zenon DEF BatchTree!reserve, reserve, BatchTree!max_levels, max_levels, BatchTree!ilog2, ilog2
<1>3. \A l, d : BatchTree!push_leaf(l, d) = push_leaf(l, d)
  BY Zenon DEF BatchTree!push_leaf, push_leaf, BatchTree!hash_leaf, hash_leaf
<1>4. \A l : BatchTree!compute_root(l) = compute_root(l)
  BY Zenon DEF BatchTree!compute_root, compute_root, BatchTree!HashOneLevel, HashOneLevel,
     BatchTree!padded, padded, BatchTree!hash_nodes, hash_nodes, BatchTree!Zero, Zero
<1>5. \A l : BatchTree!clear(l) = clear(l)
  BY Zenon DEF BatchTree!clear, clear
<1>6. \A l, i : BatchTree!get_paths_to(l, i) = get_paths_to(l, i)
  BY Zenon DEF BatchTree!get_paths_to, get_paths_to, BatchTree!Ends, Ends, BatchTree!Sibling,
     Sibling, BatchTree!Shift, Shift
<1>7. \A i, d, p : BatchTree!root_from_paths(i, d, p) = root_from_paths(i, d, p)
  BY Zenon DEF BatchTree!root_from_paths, root_from_paths, BatchTree!hash_nodes, hash_nodes,
     BatchTree!hash_leaf, hash_leaf, BatchTree!Shift, Shift
<1> QED
  BY <1>1, <1>2, <1>3, <1>4, <1>5, <1>6, <1>7, Zenon

\* The instance is one that module MerkleTree allows.
LEMMA TreeAssumption == BatchSize \in Nat \ {0} /\ Padding \notin LeafSet
<1>1. \E x : x \notin LeafSet
  BY NoSetContainsEverything
<1> QED
  BY <1>1, WorkerAssumption DEF Padding

\* What level 0 holds, by the place in the loop.
LEMMA LeavesAre ==
  ASSUME TypeOK
  PROVE  /\ BatchLeaves \in Seq(LeafSet) /\ Len(BatchLeaves) = Len(requests)
         /\ \A i \in 1..Len(requests) : BatchLeaves[i] = LeafData(requests[i])
         /\ pc # "send" => TreeLeaves = BatchLeaves
<1>1. requests \in Seq(Datagrams) /\ Len(requests) \in Nat
  BY DEF TypeOK, BatchOK
<1>2. \A i \in 1..Len(requests) : LeafData(requests[i]) \in LeafSet
  BY <1>1 DEF LeafSet
<1> QED
  BY <1>1, <1>2 DEF BatchLeaves, TreeLeaves

\* Every request that is added pushes its leaf.
LEMMA ReceiveIsPush ==
  ASSUME TypeOK, BatchInv, Receive
  PROVE  (\E x \in LeafSet : BatchTree!PushLeaf(x)) \/ UNCHANGED BatchTree!vars
<1>1. /\ pc = "collect" /\ pc' # "send" /\ Len(requests) < BatchSize
      /\ requests \in Seq(Datagrams) /\ Len(requests) \in Nat /\ Head(sock) \in Datagrams
  BY WorkerAssumption DEF Receive, TypeOK, BatchOK, WorldOK, LoopOK, BatchInv
<1>2. \A e : LeafData(e)' = LeafData(e)
  BY DEF LeafData
<1>3. TreeRoot = <<>> /\ TreeRoot' = <<>> /\ TreeLeaves = BatchLeaves /\ TreeLeaves' = BatchLeaves'
  BY <1>1 DEF TreeRoot, TreeLeaves
<1>4. CASE Classify(Head(sock)) = "ok"
  <2>1. PICK d \in Datagrams : d = Head(sock)
    BY <1>1
  <2>2. levels' = push_leaf(levels, LeafData(d)) /\ requests' = Append(requests, d)
    BY <1>4, <2>1 DEF Receive
  <2>3. LeafData(d) \in LeafSet
    BY DEF LeafSet
  <2>4. PICK n \in Nat : n = Len(requests)
    BY <1>1
  <2>5. /\ Len(requests') = n + 1 /\ requests'[n + 1] = d
        /\ \A i \in 1..n : requests'[i] = requests[i]
    BY <1>1, <2>2, <2>4, AppendProperties
  <2>6. BatchLeaves' = [i \in 1..(n + 1) |-> LeafData(requests'[i])]
    BY <1>2, <2>5 DEF BatchLeaves
  <2>7. /\ BatchLeaves \in Seq(LeafSet) /\ Len(BatchLeaves) = n
        /\ \A i \in 1..n : BatchLeaves[i] = LeafData(requests[i])
    BY <2>4, LeavesAre
  <2>8. /\ Append(BatchLeaves, LeafData(d)) \in Seq(LeafSet)
        /\ Len(Append(BatchLeaves, LeafData(d))) = n + 1
        /\ \A i \in 1..n : Append(BatchLeaves, LeafData(d))[i] = BatchLeaves[i]
        /\ Append(BatchLeaves, LeafData(d))[n + 1] = LeafData(d)
    BY <2>3, <2>7, AppendProperties
  <2>9. BatchLeaves' = Append(BatchLeaves, LeafData(d))
    <3>1. PICK A : A = Append(BatchLeaves, LeafData(d))
      OBVIOUS
    <3>2. A = [i \in 1..(n + 1) |-> A[i]]
      <4>1. A \in Seq(LeafSet) /\ Len(A) = n + 1
        BY <2>8, <3>1, Zenon
      <4> QED
        BY <4>1
    <3>3. ASSUME NEW i \in 1..(n + 1) PROVE A[i] = LeafData(requests'[i])
      <4>1. CASE i \in 1..n
        BY <2>5, <2>7, <2>8, <3>1, <4>1, Zenon
      <4>2. CASE i = n + 1
        BY <2>5, <2>8, <3>1, <4>2, Zenon
      <4> QED
        BY <4>1, <4>2
    <3> QED
      BY <2>6, <3>1, <3>2, <3>3
  <2>10. BatchTree!PushLeaf(LeafData(d))
    <3>1. Len(TreeLeaves) < BatchSize
      BY <1>1, <1>3, <2>4, <2>7
    <3>2. levels' = BatchTree!push_leaf(levels, LeafData(d))
      BY <2>2, SameOperators, Zenon
    <3> QED
      BY <1>3, <2>9, <3>1, <3>2, Zenon DEF BatchTree!PushLeaf, BatchTree!NoRoot
  <2> QED
    BY <2>3, <2>10
<1>5. CASE Classify(Head(sock)) # "ok"
  <2>1. levels' = levels /\ requests' = requests
    BY <1>5 DEF Receive
  <2>2. BatchLeaves' = BatchLeaves
    BY <1>2, <2>1 DEF BatchLeaves
  <2> QED
    BY <1>3, <2>1, <2>2 DEF BatchTree!vars
<1> QED
  BY <1>4, <1>5

\* Signing a batch computes the root of its tree; an empty batch is not signed.
LEMMA SignIsCompute ==
  ASSUME TypeOK, BatchTree!TreeInv, SignBatch
  PROVE  /\ requests # <<>> => BatchTree!ComputeRoot
         /\ requests = <<>> => UNCHANGED BatchTree!vars
<1>1. /\ pc = "respond" /\ pc' = "send" /\ requests' = requests
      /\ requests \in Seq(Datagrams) /\ Len(requests) \in Nat
  BY DEF SignBatch, TypeOK, BatchOK
<1>2. BatchLeaves' = BatchLeaves
  <2>1. \A e : LeafData(e)' = LeafData(e)
    BY DEF LeafData
  <2> QED
    BY <1>1, <2>1 DEF BatchLeaves
<1>3. TreeLeaves = BatchLeaves /\ TreeRoot = <<>> /\ Len(BatchLeaves) = Len(requests)
  BY <1>1, LeavesAre DEF TreeRoot
<1>4. CASE requests = <<>>
  <2>1. levels' = levels
    BY <1>4 DEF SignBatch
  <2>2. TreeLeaves' = BatchLeaves' /\ TreeRoot' = <<>>
    <3>1. Len(requests) = 0
      BY <1>4
    <3> QED
      BY <1>1, <1>4, <3>1 DEF TreeLeaves, TreeRoot
  <2> QED
    BY <1>2, <1>3, <1>4, <2>1, <2>2 DEF BatchTree!vars
<1>5. CASE requests # <<>>
  <2>1. /\ levels' = compute_root(levels).levels
        /\ srep' = make_srep(compute_root(levels).root, clock, online_key)
    BY <1>5 DEF SignBatch
  <2>2. TreeRoot' = compute_root(levels).root
    BY <1>1, <1>5, <2>1 DEF TreeRoot, make_srep
  <2>3. levels[1] # <<>>
    <3>1. Len(levels[1]) = Len(TreeLeaves)
      BY DEF BatchTree!TreeInv, BatchTree!LeavesInv
    <3>2. Len(requests) # 0
      BY <1>1, <1>5, EmptySeq
    <3>3. Len(<<>>) = 0
      OBVIOUS
    <3> QED
      BY <1>3, <3>1, <3>2, <3>3, Zenon
  <2>4. TreeLeaves' = IF Len(TreeLeaves) > 1 /\ Len(TreeLeaves) % 2 = 1
                      THEN Append(TreeLeaves, Padding) ELSE TreeLeaves
    <3>1. TreeLeaves' = IF Len(requests) > 1 /\ Len(requests) % 2 = 1
                        THEN Append(BatchLeaves, Padding) ELSE BatchLeaves
      <4>1. Padding' = Padding
        BY DEF Padding, LeafSet, LeafData
      <4> QED
        BY <1>1, <1>2, <4>1 DEF TreeLeaves
    <3> QED
      BY <1>3, <3>1, Zenon
  <2>5. levels' = BatchTree!compute_root(levels).levels /\ TreeRoot' = BatchTree!compute_root(levels).root
    BY <2>1, <2>2, SameOperators, Zenon
  <2> QED
    BY <1>5, <2>3, <2>4, <2>5, Zenon DEF BatchTree!ComputeRoot
<1> QED
  BY <1>4, <1>5

\* After the responses the tree is cleared together with the batch.
LEMMA FinishIsClear == ASSUME FinishBatch PROVE BatchTree!Clear
<1>1. levels' = clear(levels) /\ requests' = <<>> /\ pc' # "send"
  BY DEF FinishBatch, AfterBatch
<1>2. TreeRoot' = <<>> /\ TreeLeaves' = <<>>
  <2>1. Len(requests') = 0
    BY <1>1
  <2> QED
    BY <1>1, <2>1 DEF TreeRoot, TreeLeaves, BatchLeaves
<1>3. levels' = BatchTree!clear(levels)
  BY <1>1, SameOperators, Zenon
<1> QED
  BY <1>2, <1>3, Zenon DEF BatchTree!Clear, BatchTree!NoRoot

\* The rest of the loop does not touch the tree.
LEMMA FrameOfTree ==
  ASSUME UNCHANGED <<requests, levels, srep>>, pc' = "send" <=> pc = "send"
  PROVE  UNCHANGED BatchTree!vars
<1>1. \A e : LeafData(e)' = LeafData(e)
  BY DEF LeafData
<1>2. BatchLeaves' = BatchLeaves
  BY <1>1 DEF BatchLeaves
<1>3. Padding' = Padding
  BY DEF Padding, LeafSet, LeafData
<1>4. TreeLeaves' = TreeLeaves /\ TreeRoot' = TreeRoot
  BY <1>2, <1>3 DEF TreeLeaves, TreeRoot
<1> QED
  BY <1>4 DEF BatchTree!vars

\* Every step of the worker is one call on its tree, or none.
LEMMA StepOfTree ==
  TypeOK /\ BatchInv /\ BatchTree!TreeInv /\ [Next]_vars => [BatchTree!Next]_(BatchTree!vars)
<1> SUFFICES ASSUME TypeOK, BatchInv, BatchTree!TreeInv, [Next]_vars
             PROVE  [BatchTree!Next]_(BatchTree!vars)
  OBVIOUS
<1>1. CASE /\ UNCHANGED <<requests, levels, srep, accepted, sent>>
           /\ pc' = "send" <=> pc = "send"
  BY <1>1, FrameOfTree
<1>2. CASE Receive
  BY <1>2, ReceiveIsPush DEF BatchTree!Next
<1>3. CASE SignBatch
  BY <1>3, SignIsCompute DEF BatchTree!Next
<1>4. CASE FinishBatch
  BY <1>4, FinishIsClear DEF BatchTree!Next
<1>5. ASSUME NEW ok \in BOOLEAN, SendResponse(ok) PROVE UNCHANGED BatchTree!vars
  BY <1>5, FrameOfTree DEF SendResponse, batch
<1> QED
  BY <1>1, <1>2, <1>3, <1>4, <1>5, ProofFrame

\* A worker starts with the empty tree, reserved for a whole batch.
LEMMA InitOfTree == Init => BatchTree!Init
<1> SUFFICES ASSUME Init PROVE BatchTree!Init
  OBVIOUS
<1>1. levels = reserve(new, BatchSize) /\ requests = <<>> /\ pc = "new"
  BY DEF Init
<1>2. TreeLeaves = <<>> /\ TreeRoot = <<>>
  <2>1. Len(requests) = 0
    BY <1>1
  <2> QED
    BY <1>1, <2>1 DEF TreeLeaves, BatchLeaves, TreeRoot
<1>3. levels = BatchTree!reserve(BatchTree!new, BatchSize)
  BY <1>1, SameOperators, Zenon
<1>4. BatchSize \in 0..BatchSize
  BY WorkerAssumption
<1> QED
  BY <1>2, <1>3, <1>4, Zenon DEF BatchTree!Init, BatchTree!NoRoot

\* The initial tree has its invariant and nothing has been sent.
LEMMA InitProof == Init => ProofInv
<1> SUFFICES ASSUME Init PROVE ProofInv
  OBVIOUS
<1>1. BatchTree!TreeInv
  BY InitOfTree, BatchTree!TreeInitial, TreeAssumption
<1>2. pc = "new" /\ Len(sent) = 0
  BY DEF Init
<1> QED
  BY <1>1, <1>2 DEF ProofInv, SignedInv, SentInv

\* A response carries the way from the leaf of the request that it answers to the
\* signed root.
LEMMA SendProves ==
  ASSUME TypeOK, QueueInv, ProofInv, pc = "send", index < Len(requests)
  PROVE  root_from_paths(index, LeafData(accepted[Len(sent) + 1]), get_paths_to(levels, index)) = srep.root
<1>1. /\ requests \in Seq(Datagrams) /\ index \in Nat /\ Len(requests) \in Nat
      /\ Len(sent) \in Nat /\ Len(accepted) \in Nat /\ requests # <<>>
  BY AppendToAny DEF TypeOK, BatchOK, QueueInv
<1>2. requests[index + 1] = accepted[Len(sent) + 1]
  <2>1. index + 1 \in 1..Len(requests)
        /\ Len(accepted) - Len(requests) + (index + 1) = Len(sent) + 1
    BY <1>1 DEF QueueInv
  <2> QED
    BY <2>1 DEF QueueInv
<1>3. TreeRoot = srep.root /\ BatchTree!Computed
  BY <1>1 DEF TreeRoot, ProofInv, SignedInv, BatchTree!Computed, BatchTree!NoRoot
<1>4. PICK n \in Nat : n = Len(requests)
  BY <1>1
<1>5. Len(TreeLeaves) \in {n, n + 1} /\ TreeLeaves[index + 1] = LeafData(requests[index + 1])
  <2>1. /\ BatchLeaves \in Seq(LeafSet \cup {Padding}) /\ Len(BatchLeaves) = n
        /\ index + 1 \in 1..n
        /\ BatchLeaves[index + 1] = LeafData(requests[index + 1])
    BY <1>1, <1>4, LeavesAre
  <2>2. /\ Len(Append(BatchLeaves, Padding)) = n + 1
        /\ Append(BatchLeaves, Padding)[index + 1] = BatchLeaves[index + 1]
    BY <2>1, AppendProperties
  <2> QED
    BY <2>1, <2>2 DEF TreeLeaves
<1>6. TreeLeaves[index + 1] # Padding
  <2>1. LeafData(requests[index + 1]) \in LeafSet
    BY <1>1 DEF LeafSet
  <2> QED
    BY <1>5, <2>1, TreeAssumption
<1>7. index \in BatchTree!Positions
  BY <1>1, <1>4, <1>5 DEF BatchTree!Positions
<1>8. BatchTree!PathsVerify
  BY BatchTree!TreePaths, TreeAssumption DEF ProofInv
<1>9. BatchTree!root_from_paths(index, TreeLeaves[index + 1], BatchTree!get_paths_to(levels, index))
        = TreeRoot
  BY <1>3, <1>6, <1>7, <1>8, Zenon DEF BatchTree!PathsVerify
<1> QED
  BY <1>2, <1>3, <1>5, <1>9, SameOperators, Zenon

\* Every step keeps the tree in step with the batch, and what was sent stays valid.
LEMMA NextProof == TypeOK /\ BatchInv /\ QueueInv /\ ProofInv /\ [Next]_vars => ProofInv'
<1> SUFFICES ASSUME TypeOK, BatchInv, QueueInv, ProofInv, [Next]_vars PROVE ProofInv'
  OBVIOUS
<1>1. BatchTree!TreeInv'
  BY StepOfTree, BatchTree!TreeStep, TreeAssumption DEF ProofInv
<1>2. SignedInv'
  <2>1. CASE UNCHANGED <<requests, srep>> /\ (pc' = "send" <=> pc = "send")
    BY <2>1 DEF ProofInv, SignedInv
  <2>2. CASE SignBatch
    <3>1. CASE requests = <<>>
      BY <2>2, <3>1 DEF SignBatch, SignedInv
    <3>2. CASE requests # <<>>
      <4>1. TreeRoot' # <<>>
        BY <2>2, <3>2, SignIsCompute, BatchTree!RootIsHash, TreeAssumption
          DEF ProofInv, BatchTree!NoRoot
      <4> QED
        BY <4>1 DEF TreeRoot, SignedInv
    <3> QED
      BY <3>1, <3>2
  <2>3. CASE Receive \/ FinishBatch
    BY <2>3 DEF Receive, FinishBatch, AfterBatch, SignedInv
  <2>4. ASSUME NEW ok \in BOOLEAN, SendResponse(ok)
        PROVE  UNCHANGED <<requests, srep>> /\ (pc' = "send" <=> pc = "send")
    BY <2>4 DEF SendResponse, batch
  <2> QED
    BY <2>1, <2>2, <2>3, <2>4, ProofFrame
<1>3. \A e : LeafData(e)' = LeafData(e)
  BY DEF LeafData
<1>4. /\ Len(sent) \in Nat /\ Len(accepted) \in Nat /\ Len(sent) <= Len(accepted)
      /\ accepted \in Seq(Datagrams)
  <2>1. Len(sent) \in Nat /\ Len(accepted) \in Nat /\ Len(requests) \in Nat
        /\ index \in 0..Len(requests) /\ accepted \in Seq(Datagrams)
    BY AppendToAny DEF TypeOK, BatchOK, QueueInv
  <2> QED
    BY <2>1 DEF QueueInv
<1>5. CASE sent' = sent /\ \A i \in 1..Len(sent) : accepted'[i] = accepted[i]
  <2> SUFFICES ASSUME NEW i \in 1..Len(sent)
               PROVE  root_from_paths(sent[i].indx, LeafData(accepted'[i]), sent[i].path)
                        = sent[i].srep.root
    BY <1>1, <1>2, <1>3, <1>5 DEF ProofInv, SentInv
  <2> QED
    BY <1>5, Zenon DEF ProofInv, SentInv
<1>6. ASSUME NEW ok \in BOOLEAN, SendResponse(ok) PROVE SentInv'
  <2>1. /\ pc = "send" /\ index < Len(requests) /\ accepted' = accepted
        /\ sent' = Append(sent, ResponseFor(index))
    BY <1>6 DEF SendResponse
  <2>2. PICK r : r = ResponseFor(index)
    OBVIOUS
  <2>3. r.indx = index /\ r.path = get_paths_to(levels, index) /\ r.srep = srep
    BY <2>2 DEF ResponseFor
  <2>4. root_from_paths(r.indx, LeafData(accepted[Len(sent) + 1]), r.path) = r.srep.root
    BY <2>1, <2>3, SendProves, Zenon
  <2>5. /\ Len(sent') = Len(sent) + 1 /\ sent'[Len(sent) + 1] = r
        /\ \A i \in 1..Len(sent) : sent'[i] = sent[i]
    <3>1. \E S : sent \in Seq(S)
      BY DEF QueueInv
    <3>2. sent' = Append(sent, r)
      BY <2>1, <2>2
    <3> QED
      BY <3>1, <3>2, AppendToAny
  <2> SUFFICES ASSUME NEW i \in 1..(Len(sent) + 1)
               PROVE  root_from_paths(sent'[i].indx, LeafData(accepted[i]), sent'[i].path)
                        = sent'[i].srep.root
    BY <1>3, <2>1, <2>5 DEF SentInv
  <2>6. CASE i = Len(sent) + 1
    BY <2>4, <2>5, <2>6, Zenon
  <2>7. CASE i \in 1..Len(sent)
    BY <2>5, <2>7, Zenon DEF ProofInv, SentInv
  <2> QED
    BY <1>4, <2>6, <2>7
<1>7. CASE Receive
  <2>1. sent' = sent /\ (accepted' = accepted \/ accepted' = Append(accepted, Head(sock)))
    BY <1>7 DEF Receive
  <2>2. Head(sock) \in Datagrams
    BY <1>7 DEF Receive, TypeOK, WorldOK
  <2>3. \A i \in 1..Len(sent) : accepted'[i] = accepted[i]
    BY <1>4, <2>1, <2>2, AppendProperties
  <2> QED
    BY <1>5, <2>1, <2>3
<1>8. CASE SignBatch \/ FinishBatch
  BY <1>5, <1>8 DEF SignBatch, FinishBatch, history
<1>9. CASE UNCHANGED <<accepted, sent>>
  BY <1>5, <1>9
<1> QED
  BY <1>1, <1>2, <1>6, <1>7, <1>8, <1>9, ProofFrame DEF ProofInv

\* Every response that goes out proves its request to the client that sent it: INDX
\* and PATH fold the leaf that the client computes to the signed root, for batches of
\* every size and both versions of the leaf.
THEOREM EveryProofVerifies == Spec => []ProofsVerify
<1>1. Init => QueueInv
  BY DEF Init, QueueInv
<1>2. ProofInv => ProofsVerify
  BY SameLeaf, Zenon DEF ProofInv, SentInv, ProofsVerify
<1> QED
  BY <1>1, <1>2, InitProof, NextProof, InitTypes, NextTypes, NextQueue, PTL DEF Spec

\* The worker implements the abstract Merkle tree: add_request is PushLeaf, signing a
\* batch is ComputeRoot, the end of a batch is Clear, and every other step leaves the
\* tree alone.  So the worker never pushes beyond the reserved batch size, never asks
\* an empty tree for its root, and all that is proved of MerkleTree holds of its trees.
THEOREM WorkerImplementsTree == Spec => BatchTree!Spec
<1>1. Spec => [](TypeOK /\ BatchInv /\ QueueInv /\ ProofInv)
  <2>1. Init => QueueInv
    BY DEF Init, QueueInv
  <2> QED
    BY <2>1, InitProof, NextProof, InitTypes, NextTypes, NextQueue, PTL DEF Spec
<1>2. ProofInv => BatchTree!TreeInv
  BY DEF ProofInv
<1> QED
  BY <1>1, <1>2, InitOfTree, StepOfTree, PTL DEF Spec, BatchTree!Spec

\* In particular the root of every signed batch is that of the reference tree over
\* exactly its requests, and a path that goes out proves nothing but one of them.
THEOREM BatchRootsAreReference ==
  Spec => [](BatchTree!RootIsReference /\ BatchTree!PathsBind)
BY WorkerImplementsTree, TreeAssumption, BatchTree!RootsAreReference, BatchTree!EveryPathBinds, PTL

-----------------------------------------------------------------------------
\* The three handlers count every request once, whatever fails in between.
LEMMA NextBalance == TypeOK /\ BatchInv /\ BalanceInv /\ [Next]_vars => BalanceInv'
<1> SUFFICES ASSUME TypeOK, BatchInv, BalanceInv, [Next]_vars PROVE BalanceInv'
  OBVIOUS
<1> USE DEF env, sched, batch, signing, metrics, history
<1>0. /\ Len(requests) \in Nat /\ index \in Nat
      /\ net \in NetworkCounters /\ req \in RequestCounters /\ resp \in ResponseCounters
  BY DEF TypeOK, BatchOK, MetricsOK
<1>1. CASE New
  BY <1>1 DEF New, BalanceInv, SnapshotBalanced
<1>2. CASE LoopTop
  BY <1>2 DEF LoopTop, BalanceInv, SnapshotBalanced
<1>3. CASE PublishMetrics
  BY <1>0, <1>3 DEF PublishMetrics, BalanceInv, SnapshotBalanced,
     NetworkCounters, RequestCounters, ResponseCounters, NetworkMetrics, RequestMetrics, ResponseMetrics, BatchInv, Idle
<1>4. CASE SkipPublish
  BY <1>4 DEF SkipPublish, BalanceInv, SnapshotBalanced
<1>5. ASSUME NEW j \in 0..MaxJitter, ReplaceOnlineKey(j) PROVE BalanceInv'
  BY <1>5 DEF ReplaceOnlineKey, BalanceInv, SnapshotBalanced
<1>6. CASE SkipReplacement
  BY <1>6 DEF SkipReplacement, BalanceInv, SnapshotBalanced
<1>7. CASE PollReadable
  BY <1>7 DEF PollReadable, BalanceInv, SnapshotBalanced
<1>8. CASE PollTimeout
  BY <1>8 DEF PollTimeout, BalanceInv, SnapshotBalanced
<1>9. CASE PollError
  BY <1>0, <1>9 DEF PollError, BalanceInv, SnapshotBalanced,
     NetworkCounters, RequestCounters, ResponseCounters
<1>10. CASE Receive
  <2>1. CASE Classify(Head(sock)) = "ok"
    <3>1. requests' = Append(requests, Head(sock)) /\ Len(requests') = Len(requests) + 1
      BY <1>10, <2>1 DEF Receive, TypeOK, WorldOK, BatchOK
    <3>2. req'.num_ok_requests = req.num_ok_requests + 1
      BY <1>0, <1>10, <2>1 DEF Receive, CountRequest, RequestCounters
    <3>3. pc # "send" /\ pc' # "send" /\ UNCHANGED <<net, resp, snapshot>>
      BY <1>10 DEF Receive, BatchFull
    <3> QED
      BY <1>0, <3>1, <3>2, <3>3 DEF BalanceInv, SnapshotBalanced, RequestCounters, ResponseCounters
  <2>2. CASE Classify(Head(sock)) # "ok"
    <3>1. UNCHANGED requests /\ req'.num_ok_requests = req.num_ok_requests
      <4>1. Head(sock) \in Datagrams /\ req' = CountRequest(req, Classify(Head(sock))) /\ UNCHANGED requests
        BY <1>10, <2>2 DEF Receive, TypeOK, WorldOK
      <4>2. Classify(Head(sock)) \in {"runt", "jumbo", "bad"}
        BY <1>0, <2>2, <4>1, RequestCount
      <4> QED
        BY <1>0, <4>1, <4>2 DEF CountRequest, RequestCounters
    <3>2. pc # "send" /\ pc' # "send" /\ UNCHANGED <<net, resp, snapshot>>
      BY <1>10 DEF Receive, BatchFull
    <3> QED
      BY <3>1, <3>2 DEF BalanceInv, SnapshotBalanced
  <2> QED
    BY <2>1, <2>2
<1>11. CASE ReceiveWouldBlock
  BY <1>0, <1>11 DEF ReceiveWouldBlock, BalanceInv, SnapshotBalanced,
     NetworkCounters, RequestCounters, ResponseCounters
<1>12. CASE ReceiveError
  BY <1>0, <1>12 DEF ReceiveError, BalanceInv, SnapshotBalanced,
     NetworkCounters, RequestCounters, ResponseCounters
<1>13. CASE SignBatch
  BY <1>0, <1>13 DEF SignBatch, BalanceInv, SnapshotBalanced,
     NetworkCounters, RequestCounters, ResponseCounters, add_batch_size, BatchInv
<1>14. ASSUME NEW ok \in BOOLEAN, SendResponse(ok) PROVE BalanceInv'
  <2>1. /\ pc = "send" /\ pc' = "send" /\ index' = index + 1 /\ UNCHANGED <<requests, req, resp, snapshot>>
        /\ \/ net' = [net EXCEPT !.num_successful_sends = @ + 1]
           \/ net' = [net EXCEPT !.num_failed_sends = @ + 1]
    BY <1>14 DEF SendResponse
  <2>2. net'.num_successful_sends + net'.num_failed_sends
          = net.num_successful_sends + net.num_failed_sends + 1
    BY <1>0, <2>1 DEF NetworkCounters
  <2>3. resp.num_responses \in Nat /\ net.num_successful_sends + net.num_failed_sends \in Nat
    BY <1>0 DEF NetworkCounters, ResponseCounters
  <2> QED
    BY <1>0, <2>1, <2>2, <2>3 DEF BalanceInv, SnapshotBalanced
<1>15. CASE FinishBatch
  BY <1>0, <1>15 DEF FinishBatch, AllSent, AfterBatch, BalanceInv, SnapshotBalanced,
     NetworkCounters, RequestCounters, ResponseCounters
<1>16. ASSUME NEW d \in Datagrams, Arrive(d) PROVE BalanceInv'
  BY <1>16 DEF Arrive, BalanceInv, SnapshotBalanced
<1>17. CASE Tick
  BY <1>17 DEF Tick, BalanceInv, SnapshotBalanced
<1>18. CASE CtrlC
  BY <1>18 DEF CtrlC, BalanceInv, SnapshotBalanced
<1>19. CASE UNCHANGED vars
  BY <1>19 DEF vars, BalanceInv, SnapshotBalanced
<1> QED
  BY <1>1, <1>2, <1>3, <1>4, <1>5, <1>6, <1>7, <1>8, <1>9, <1>10, <1>11, <1>12, <1>13,
     <1>14, <1>15, <1>16, <1>17, <1>18, <1>19 DEF Next, Loop, Environment, Terminated

\* Every snapshot that reaches the metrics thread balances: requests accepted,
\* responses built and sends attempted agree.
THEOREM SnapshotsBalance == Spec => []SnapshotBalanced
<1>1. Init => BalanceInv
  BY DEF Init, BalanceInv, SnapshotBalanced, NetworkMetrics, RequestMetrics, ResponseMetrics
<1>2. BalanceInv => SnapshotBalanced
  BY DEF BalanceInv
<1> QED
  BY <1>1, <1>2, InitTypes, NextTypes, NextBalance, PTL DEF Spec

-----------------------------------------------------------------------------
\* The schedule keeps ahead of the delegation through every step of the loop.
LEMMA NextKey == TypeOK /\ KeyInv /\ [Next]_vars => KeyInv'
<1> USE WorkerAssumption
<1> SUFFICES ASSUME TypeOK, KeyInv, [Next]_vars PROVE KeyInv'
  OBVIOUS
<1> USE DEF env, sched, batch, signing, metrics, history
<1>0. /\ clock \in Nat /\ now \in Nat /\ now <= clock /\ next_key_replacement \in Nat
      /\ online_key.mint \in Nat /\ online_key.maxt \in Nat
  BY DEF TypeOK, WorldOK, LoopOK, BatchOK, Validity
<1>1. CASE New
  BY <1>0, <1>1 DEF New, KeyInv, ReplacementBeforeExpiry
<1>2. CASE LoopTop
  BY <1>0, <1>2 DEF LoopTop, KeyInv, ReplacementBeforeExpiry
<1>3. CASE PublishMetrics
  BY <1>0, <1>3 DEF PublishMetrics, KeyInv, ReplacementBeforeExpiry
<1>4. CASE SkipPublish
  BY <1>0, <1>4 DEF SkipPublish, KeyInv, ReplacementBeforeExpiry
<1>5. ASSUME NEW j \in 0..MaxJitter, ReplaceOnlineKey(j) PROVE KeyInv'
  BY <1>0, <1>5 DEF ReplaceOnlineKey, NextReplacement, KeyInv, ReplacementBeforeExpiry, KeyReplacementDue, make_online_key
<1>6. CASE SkipReplacement
  BY <1>0, <1>6 DEF SkipReplacement, KeyInv, ReplacementBeforeExpiry, KeyReplacementDue
<1>7. CASE PollReadable
  BY <1>0, <1>7 DEF PollReadable, KeyInv, ReplacementBeforeExpiry
<1>8. CASE PollTimeout
  BY <1>0, <1>8 DEF PollTimeout, KeyInv, ReplacementBeforeExpiry
<1>9. CASE PollError
  BY <1>0, <1>9 DEF PollError, KeyInv, ReplacementBeforeExpiry
<1>10. CASE Receive
  BY <1>0, <1>10 DEF Receive, BatchFull, KeyInv, ReplacementBeforeExpiry
<1>11. CASE ReceiveWouldBlock
  BY <1>0, <1>11 DEF ReceiveWouldBlock, KeyInv, ReplacementBeforeExpiry
<1>12. CASE ReceiveError
  BY <1>0, <1>12 DEF ReceiveError, KeyInv, ReplacementBeforeExpiry
<1>13. CASE SignBatch
  BY <1>0, <1>13 DEF SignBatch, KeyInv, ReplacementBeforeExpiry
<1>14. ASSUME NEW ok \in BOOLEAN, SendResponse(ok) PROVE KeyInv'
  BY <1>0, <1>14 DEF SendResponse, KeyInv, ReplacementBeforeExpiry
<1>15. CASE FinishBatch
  BY <1>0, <1>15 DEF FinishBatch, AfterBatch, KeyInv, ReplacementBeforeExpiry
<1>16. ASSUME NEW d \in Datagrams, Arrive(d) PROVE KeyInv'
  BY <1>0, <1>16 DEF Arrive, KeyInv, ReplacementBeforeExpiry
<1>17. CASE Tick
  BY <1>0, <1>17 DEF Tick, KeyInv, ReplacementBeforeExpiry
<1>18. CASE CtrlC
  BY <1>0, <1>18 DEF CtrlC, KeyInv, ReplacementBeforeExpiry
<1>19. CASE UNCHANGED vars
  BY <1>19 DEF vars, KeyInv, ReplacementBeforeExpiry
<1> QED
  BY <1>1, <1>2, <1>3, <1>4, <1>5, <1>6, <1>7, <1>8, <1>9, <1>10, <1>11, <1>12, <1>13,
     <1>14, <1>15, <1>16, <1>17, <1>18, <1>19 DEF Next, Loop, Environment, Terminated

\* At the start the key is as old as the clock.
LEMMA InitKey == Init => KeyInv
BY WorkerAssumption DEF Init, KeyInv, ReplacementBeforeExpiry, make_online_key

\* Whatever the lag: once the rotation check is passed, the next replacement falls
\* due before the delegation in use ends.
THEOREM ReplacedBeforeExpiry == Spec => []ReplacementBeforeExpiry
<1>1. KeyInv => ReplacementBeforeExpiry
  BY DEF KeyInv
<1> QED
  BY <1>1, InitTypes, NextTypes, InitKey, NextKey, PTL DEF Spec

\* Where a signature is made, the clock is within the delegation: this is where
\* the bound on the length of a loop iteration is needed.
LEMMA SignInTime ==
  ASSUME MaxLag <= 1, TypeOK, KeyInv, SignBatch
  PROVE  online_key.mint <= clock /\ clock <= online_key.maxt
<1>1. /\ clock \in Nat /\ now \in Nat /\ next_key_replacement \in Nat
      /\ online_key.mint \in Nat /\ online_key.maxt \in Nat
  BY DEF TypeOK, WorldOK, LoopOK, BatchOK, Validity
<1>2. pc = "respond" /\ clock <= now + 1
  BY <1>1, WorkerAssumption DEF SignBatch, KeyInv
<1>3. next_key_replacement <= online_key.maxt /\ (now < next_key_replacement \/ online_key.mint >= now)
  BY <1>2 DEF KeyInv, ReplacementBeforeExpiry
<1>4. CASE now < next_key_replacement
  BY <1>1, <1>2, <1>3, <1>4 DEF KeyInv
<1>5. CASE online_key.mint >= now
  BY <1>1, <1>2, <1>5, WorkerAssumption DEF KeyInv
<1> QED
  BY <1>3, <1>4, <1>5

\* Signing puts the midpoint into the delegation, and sending passes it on.
LEMMA NextSrep ==
  ASSUME MaxLag <= 1
  PROVE  TypeOK /\ BatchInv /\ QueueInv /\ KeyInv /\ SrepInv /\ [Next]_vars => SrepInv'
<1> SUFFICES ASSUME TypeOK, BatchInv, QueueInv, KeyInv, SrepInv, [Next]_vars PROVE SrepInv'
  OBVIOUS
<1> USE DEF env, sched, batch, signing, metrics, history
<1>1. CASE SignBatch
  <2>1. CASE requests = <<>>
    BY <1>1, <2>1 DEF SignBatch, SrepInv
  <2>2. CASE requests # <<>>
    <3>1. srep'.midp = clock /\ srep'.cert = online_key /\ sent' = sent
      BY <1>1, <2>2 DEF SignBatch, make_srep
    <3>2. Within(srep')
      BY <1>1, <3>1, SignInTime DEF Within
    <3> QED
      BY <3>1, <3>2 DEF SrepInv
  <2> QED
    BY <2>1, <2>2
<1>2. ASSUME NEW ok \in BOOLEAN, SendResponse(ok) PROVE SrepInv'
  <2>1. /\ pc = "send" /\ index < Len(requests) /\ UNCHANGED <<requests, srep, pc>>
        /\ sent' = Append(sent, ResponseFor(index))
    BY <1>2 DEF SendResponse
  <2>2. requests # <<>>
    BY <2>1 DEF TypeOK, BatchOK
  <2>3. ResponseFor(index).srep = srep /\ Within(srep)
    BY <2>1, <2>2 DEF ResponseFor, Requester, SrepInv
  <2>4. /\ Len(sent) \in Nat /\ Len(sent') = Len(sent) + 1 /\ sent'[Len(sent) + 1] = ResponseFor(index)
        /\ \A i \in 1..Len(sent) : sent'[i] = sent[i]
    BY <2>1, AppendToAny DEF QueueInv
  <2>5. ASSUME NEW i \in 1..Len(sent') PROVE Within(sent'[i].srep)
    <3>1. CASE i = Len(sent) + 1
      BY <2>3, <2>4, <3>1
    <3>2. CASE i \in 1..Len(sent)
      BY <2>4, <3>2 DEF SrepInv
    <3> QED
      BY <2>4, <3>1, <3>2
  <2> QED
    BY <2>1, <2>3, <2>5 DEF SrepInv
<1>3. CASE FinishBatch
  BY <1>3 DEF FinishBatch, AfterBatch, SrepInv
<1>4. CASE UNCHANGED <<sent, pc, requests, srep>> \/ (pc' # "send" /\ UNCHANGED sent)
  BY <1>4 DEF SrepInv
<1>5. CASE New \/ LoopTop \/ PublishMetrics \/ SkipPublish \/ SkipReplacement
           \/ \E j \in 0..MaxJitter : ReplaceOnlineKey(j)
  BY <1>4, <1>5 DEF New, LoopTop, PublishMetrics, SkipPublish, SkipReplacement, ReplaceOnlineKey
<1>6. CASE PollReadable \/ PollTimeout \/ PollError \/ Receive \/ ReceiveWouldBlock \/ ReceiveError
  BY <1>4, <1>6 DEF PollReadable, PollTimeout, PollError, Receive, BatchFull, ReceiveWouldBlock, ReceiveError
<1>7. CASE Environment \/ UNCHANGED vars
  BY <1>4, <1>7 DEF Environment, Arrive, Tick, CtrlC, vars
<1> QED
  BY <1>1, <1>2, <1>3, <1>5, <1>6, <1>7 DEF Next, Loop, Terminated

\* At the start nothing is accepted, sent or signed.
LEMMA InitQueue == Init => QueueInv /\ SrepInv
<1>1. Init => QueueInv
  BY DEF Init, QueueInv
<1>2. Init => SrepInv
  BY DEF Init, SrepInv
<1> QED
  BY <1>1, <1>2

\* If an iteration of the loop takes at most one second, every response is signed
\* within the delegation sent with it, for every interval and every jitter drawn.
THEOREM SignedWithinDelegation ==
  ASSUME MaxLag <= 1
  PROVE  Spec => []MidpointInDelegation
<1>1. SrepInv => MidpointInDelegation
  BY DEF SrepInv, Within, MidpointInDelegation
<1> QED
  BY <1>1, InitTypes, NextTypes, InitQueue, NextQueue, InitKey, NextKey, NextSrep, PTL DEF Spec

-----------------------------------------------------------------------------
\* Under the same condition the worker implements the abstract time service:
\* Receive is Accept or a stutter, SendResponse is Answer, the rest stutters.
THEOREM WorkerImplementsService ==
  ASSUME MaxLag <= 1
  PROVE  Spec => ImplementsService
<1> DEFINE Inv == TypeOK /\ BatchInv /\ QueueInv /\ KeyInv /\ SrepInv
<1>1. Init => Service!Init
  BY DEF Init, Service!Init
<1>2. Inv /\ [Next]_vars => [Service!Next]_(Service!svars)
  <2> SUFFICES ASSUME Inv, [Next]_vars PROVE [Service!Next]_(Service!svars)
    OBVIOUS
  <2>1. CASE UNCHANGED <<requests, index, accepted, sent>>
    BY <2>1 DEF Service!svars
  <2>2. CASE Receive
    <3>1. Head(sock) \in Datagrams
      BY <2>2 DEF Receive, TypeOK, WorldOK
    <3> QED
      BY <2>2, <3>1 DEF Receive, Service!Next, Service!Accept, Service!svars
  <2>3. CASE FinishBatch
    BY <2>3 DEF FinishBatch, Service!svars, history
  <2>4. ASSUME NEW ok \in BOOLEAN, SendResponse(ok) PROVE Service!Answer
    <3>1. /\ index < Len(requests) /\ accepted' = accepted /\ pc = "send"
          /\ sent' = Append(sent, ResponseFor(index))
      BY <2>4 DEF SendResponse
    <3>2. /\ Len(sent) \in Nat /\ Len(sent') = Len(sent) + 1 /\ sent'[Len(sent) + 1] = ResponseFor(index)
          /\ \A i \in 1..Len(sent) : sent'[i] = sent[i]
      BY <3>1, AppendToAny DEF QueueInv
    <3>3. /\ Len(sent) < Len(accepted) /\ requests # <<>> /\ index + 1 \in 1..Len(requests)
          /\ Len(accepted) - Len(requests) + (index + 1) = Len(sent) + 1
      BY <3>1, <3>2 DEF QueueInv, TypeOK, BatchOK
    <3>4. requests[index + 1] = accepted[Len(sent) + 1]
      BY <3>3 DEF QueueInv
    <3>5. Within(srep)
      BY <3>1, <3>3 DEF SrepInv
    <3>6. ValidResponse(accepted[Len(sent) + 1], ResponseFor(index))
      BY <3>4, <3>5 DEF ValidResponse, ResponseFor, Requester, Within
    <3> QED
      BY <3>1, <3>2, <3>3, <3>6 DEF Service!Answer
  <2> QED
    BY <2>1, <2>2, <2>3, <2>4, QueueFrame DEF Service!Next
<1>3. Spec => []Inv
  BY InitTypes, NextTypes, InitQueue, NextQueue, InitKey, NextKey, NextSrep, PTL DEF Spec
<1> QED
  BY <1>1, <1>2, <1>3, PTL DEF Spec, ImplementsService, Service!Spec
=============================================================================
