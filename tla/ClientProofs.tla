---------------------------- MODULE ClientProofs ----------------------------
(***************************************************************************)
(* Proofs about Client: what the client accepts is fresh, the sequence is  *)
(* a chain, honest servers are never accused, a sequence without           *)
(* violations bounds what lies between two honest answers, and a stored    *)
(* report proves the order of its responses.  And about ClientMain: what a *)
(* query of one server accepts is fresh, and the clock is set to a time    *)
(* that was accepted.                                                      *)
(***************************************************************************)
EXTENDS ClientMain, SequenceTheorems, FiniteSetTheorems, TLAPS

\* A request is determined by its random value, was made after the response it is
\* chained to, and the one that is waited for is on the network.
RequestsInv ==
  /\ \A q \in asked : q.at \in Int /\ q.at <= time /\ q.nonc.rand \in Int /\ q.nonc.rand < rands
  /\ \A q1, q2 \in asked : q1.nonc.rand = q2.nonc.rand => q1 = q2
  /\ \A q \in asked : q.nonc.prior # None => q.nonc.prior[1].at <= q.at
  /\ pc = "recv" => request[1] \in asked

\* Every response proves a request that was sent before it was signed, and those of
\* honest servers are within the radius of true time.
AnswersInv ==
  \A r \in answers :
    /\ r.at \in Int /\ StartTime <= r.at /\ r.at <= time
    /\ r.midp \in Int /\ r.radi \in Nat
    /\ \E q \in asked : r.leaf = Leaf(q) /\ q.at <= r.at
    /\ r.key \in Honest =>
         r.radi = Radius /\ r.at - Radius <= r.midp /\ r.midp <= r.at + Radius

\* A measurement: a request of this attempt and a response that proves it.
Sound(m) ==
  /\ m.request \in asked /\ m.response \in answers
  /\ m.response.key = m.request.server
  /\ m.response.leaf = Leaf(m.request)
  /\ m.at \in Int /\ m.response.at <= m.at /\ m.at <= time

Positions == 1..Len(measurements)

\* There is room for the measurement of the turn at hand.
LengthInv ==
  /\ \E S : measurements \in Seq(S)
  /\ pc \in {"query", "recv"} => Len(measurements) < Turns

\* Measurements follow one another: each ends before the request of the next is sent.
MeasurementsInv ==
  /\ \A k \in Positions : Sound(measurements[k])
  /\ \A i, j \in Positions : i < j => measurements[i].at <= measurements[j].request.at
  /\ pc = "recv" => \A i \in Positions : measurements[i].at <= request[1].at

\* Each is chained to the one before.
ChainInv ==
  /\ \A k \in Positions :
       LET m == measurements[k]
       IN  /\ m.request.nonc =
                calculate_chained_nonce(IF k = 1 THEN None ELSE Some(measurements[k - 1].response),
                                        m.request.nonc.rand)
           /\ m.rand_value = IF m.request.nonc.prior = None THEN None
                             ELSE Some(m.request.nonc.rand)
  /\ pc = "recv" =>
       request[1].nonc = calculate_chained_nonce(prior_response, request[1].nonc.rand)

\* Reports are made from pairs of the measurements at hand.
ReportsInv ==
  /\ violations \subseteq Positions \X Positions
  /\ pc # "report" => violations = {}
  /\ \E S : stored \in Seq(S)
  /\ \A k \in 1..Len(stored) : stored[k][1].response.at <= stored[k][2].request.at

\* A time is returned at the end only, from a sequence without violations unless
\* untrusted time was asked for, and is then that of the last measurement.
MidpointInv ==
  midpoint # None =>
    /\ pc = "done"
    /\ ~AllowUntrusted => /\ Len(measurements) = Turns /\ validate_causality = {}
                          /\ midpoint = Some(last_midpoint)

-----------------------------------------------------------------------------
\* The leaf that a response must prove determines the nonce, in both drafts.
LEMMA LeafBinds ==
  ASSUME NEW p, NEW q, Leaf(p) = Leaf(q)
  PROVE  p.nonc = q.nonc
<1>1. Leaf(p)[1] = p.nonc BY DEF Leaf, LeafDraft08, LeafDraft14
<1>2. Leaf(q)[1] = q.nonc BY DEF Leaf, LeafDraft08, LeafDraft14
<1> QED BY <1>1, <1>2

\* There is at least one turn.
LEMMA TurnsPositive == Turns \in Nat /\ Turns >= 1
<1>1. \A a, b \in Nat \ {0} : a * b \in Nat /\ a * b >= 1 BY Z3
<1>2. Rounds \in Nat \ {0} /\ NumServers \in Nat \ {0} BY ClientAssumption DEF MIN_SERVERS
<1> QED BY <1>1, <1>2 DEF Turns

\* An Option that holds something is not None.
LEMMA SomeIsNotNone == ASSUME NEW x PROVE Some(x) # None /\ Some(x)[1] = x
BY DEF Some, None

\* What an appended element and the ones before it are.
LEMMA Appended ==
  ASSUME NEW s, NEW x, \E S : s \in Seq(S)
  PROVE  /\ \E S : Append(s, x) \in Seq(S)
         /\ Len(s) \in Nat /\ Len(Append(s, x)) = Len(s) + 1
         /\ \A i \in 1..Len(s) : Append(s, x)[i] = s[i]
         /\ Append(s, x)[Len(s) + 1] = x
<1>1. PICK S : s \in Seq(S) OBVIOUS
<1>2. s \in Seq(S \cup {x}) /\ x \in S \cup {x} BY <1>1
<1>3. Append(s, x) \in Seq(S \cup {x}) BY <1>2
<1> QED BY <1>2, <1>3

-----------------------------------------------------------------------------
TypeInv == TypeOK /\ LengthInv

\* The type invariant, with room for the next measurement, is inductive.
LEMMA TypeInductive ==
  ASSUME TypeInv, [Next]_vars
  PROVE  TypeInv'
<1> USE DEF TypeInv, TypeOK, LengthInv
<1>0. Turns \in Nat /\ Turns >= 1 BY TurnsPositive
<1>1. ASSUME NEW order \in choose_random(NumServers), Choose(order) PROVE TypeInv'
  <2>1. measurements' = <<>> /\ Len(<<>>) = 0 /\ <<>> \in Seq({}) BY <1>1 DEF Choose
  <2>2. \E S : measurements' \in Seq(S) BY <2>1
  <2> QED BY <1>0, <1>1, <2>1, <2>2 DEF Choose, reports
<1>2. CASE Query
  BY <1>0, <1>2, SomeIsNotNone, ClientAssumption DEF Query, reports
<1>3. ASSUME NEW r \in answers, Receive(r) PROVE TypeInv'
  <2>1. CASE measurements' = measurements
    BY <1>0, <1>3, <2>1 DEF Receive, reports
  <2>2. CASE measurements' # measurements
    <3>1. PICK m : measurements' = Append(measurements, m) BY <1>3, <2>2 DEF Receive
    <3>2. pc' = IF Len(measurements) + 1 = Turns THEN "check" ELSE "query"
      BY <1>3, <2>2 DEF Receive
    <3>3. (\E S : measurements' \in Seq(S)) /\ Len(measurements') = Len(measurements) + 1
          /\ Len(measurements) \in Nat
      BY <3>1, Appended
    <3> QED BY <1>0, <1>3, <3>2, <3>3 DEF Receive, reports
  <2> QED BY <2>1, <2>2
<1>4. CASE Fail BY <1>4 DEF Fail, reports
<1>5. CASE Check BY <1>0, <1>5, ClientAssumption DEF Check, run
<1>6. ASSUME NEW p \in violations, NEW a \in BOOLEAN, NEW b \in BOOLEAN, Post(p, a, b)
      PROVE TypeInv'
  BY <1>6, ClientAssumption DEF Post, run
<1>7. CASE Reported BY <1>7 DEF Reported, run, reports
<1>8. CASE Retry BY <1>8, ClientAssumption DEF Retry, MoreAttempts, run, reports
<1>9. ASSUME NEW s \in Servers, NEW q \in asked, Answer(s, q) PROVE TypeInv'
  BY <1>9 DEF Answer, reports
<1>10. ASSUME NEW i, NEW j, ReportFromElsewhere(i, j) PROVE TypeInv'
  BY <1>10, ClientAssumption DEF ReportFromElsewhere, run
<1>11. CASE Tick BY <1>11, ClientAssumption DEF Tick, run, reports
<1>12. CASE UNCHANGED vars BY <1>12 DEF vars, run, reports
<1> QED BY <1>1, <1>2, <1>3, <1>4, <1>5, <1>6, <1>7, <1>8, <1>9, <1>10, <1>11, <1>12
        DEF Next, Step, World, Terminated

\* Initially there is nothing, in particular no measurement.
LEMMA TypeInitial == Init => TypeInv
<1> SUFFICES ASSUME Init PROVE TypeInv OBVIOUS
<1>1. measurements = <<>> /\ Len(<<>>) = 0 /\ <<>> \in Seq({}) BY DEF Init
<1>2. \E S : measurements \in Seq(S) BY <1>1
<1>3. StartTime \in StartTime..MaxTime BY ClientAssumption
<1> QED BY <1>1, <1>2, <1>3, TurnsPositive, ClientAssumption DEF Init, TypeInv, TypeOK, LengthInv

\* The types of the client's state hold for any number of servers, rounds, retries.
THEOREM ClientTypes == Spec => []TypeOK
<1>1. TypeInv /\ [Next]_vars => TypeInv' BY TypeInductive
<1>2. TypeInv => TypeOK BY DEF TypeInv
<1> QED BY TypeInitial, <1>1, <1>2, PTL DEF Spec

-----------------------------------------------------------------------------
FreshInv == RequestsInv /\ AnswersInv /\ MeasurementsInv

\* Sending a request: its random value is new, and it is later than all before it.
LEMMA FreshQuery ==
  ASSUME TypeInv, FreshInv, Query
  PROVE  FreshInv'
<1>1. time \in Int /\ rands \in Int BY ClientAssumption DEF TypeInv, TypeOK
<1>2. PICK q : /\ q = [server |-> Current, nonc |-> calculate_chained_nonce(prior_response, rands),
                       at |-> time]
               /\ request' = Some(q) /\ asked' = asked \cup {q}
  BY DEF Query
<1>3. /\ q.at = time /\ q.nonc.rand = rands /\ q.nonc.prior = prior_response
      /\ request'[1] = q
  BY <1>2, SomeIsNotNone DEF calculate_chained_nonce
<1>4. /\ rands' = rands + 1 /\ pc' = "recv" /\ time' = time /\ answers' = answers
      /\ measurements' = measurements
  BY DEF Query
<1>5. Positions' = Positions BY <1>4 DEF Positions
<1>6. prior_response # None => prior_response[1].at <= time
  <2>1. SUFFICES ASSUME measurements # <<>> PROVE measurements[Len(measurements)].response.at <= time
    BY SomeIsNotNone DEF prior_response
  <2>2. Len(measurements) \in Positions
    BY <2>1, EmptySeq, LenProperties DEF Positions, TypeInv, LengthInv
  <2>3. measurements[Len(measurements)].response \in answers
    BY <2>2 DEF FreshInv, MeasurementsInv, Sound
  <2> QED BY <2>3 DEF FreshInv, AnswersInv
<1>7. RequestsInv'
  <2>1. \A x \in asked' : x.at \in Int /\ x.at <= time' /\ x.nonc.rand \in Int /\ x.nonc.rand < rands'
    BY <1>1, <1>2, <1>3, <1>4 DEF FreshInv, RequestsInv
  <2>2. \A x, y \in asked' : x.nonc.rand = y.nonc.rand => x = y
    BY <1>1, <1>2, <1>3 DEF FreshInv, RequestsInv
  <2>3. \A x \in asked' : x.nonc.prior # None => x.nonc.prior[1].at <= x.at
    BY <1>2, <1>3, <1>6 DEF FreshInv, RequestsInv
  <2> QED BY <1>2, <1>3, <2>1, <2>2, <2>3 DEF RequestsInv
<1>8. AnswersInv' BY <1>2, <1>4 DEF FreshInv, AnswersInv
<1>9. MeasurementsInv'
  <2>1. \A k \in Positions : Sound(measurements[k]) /\ Sound(measurements[k])'
    BY <1>2, <1>4 DEF FreshInv, MeasurementsInv, Sound
  <2>2. \A k \in Positions : measurements[k].at <= q.at
    BY <2>1, <1>3 DEF Sound
  <2> QED BY <1>3, <1>4, <1>5, <2>1, <2>2 DEF FreshInv, MeasurementsInv
<1> QED BY <1>7, <1>8, <1>9 DEF FreshInv

\* Taking a response: the request it proves is the one that is waited for, because
\* no other has its random value.
LEMMA FreshReceive ==
  ASSUME TypeInv, FreshInv, NEW r \in answers, Receive(r)
  PROVE  FreshInv'
<1>0. PICK q, m :
        /\ q = request[1]
        /\ m = [request |-> q, response |-> r, at |-> time,
                rand_value |-> IF q.nonc.prior = None THEN None ELSE Some(q.nonc.rand)]
  OBVIOUS
<1>1. /\ time' = time /\ asked' = asked /\ answers' = answers /\ rands' = rands
      /\ pc = "recv" /\ pc' # "recv"
  BY DEF Receive
<1>2. RequestsInv' /\ AnswersInv' BY <1>1 DEF FreshInv, RequestsInv, AnswersInv
<1>3. \A x : Sound(x) => Sound(x)' BY <1>1 DEF Sound
<1>4. time \in Int BY ClientAssumption DEF TypeInv, TypeOK
<1>5. CASE measurements' = measurements
  <2>1. Positions' = Positions BY <1>5 DEF Positions
  <2> QED BY <1>1, <1>2, <1>3, <1>5, <2>1 DEF FreshInv, MeasurementsInv
<1>6. CASE validate(q.server, Leaf(q), r) /\ measurements' = Append(measurements, m)
  <2>1. q \in asked BY <1>0, <1>1 DEF FreshInv, RequestsInv
  <2>2. r.key = q.server /\ r.leaf = Leaf(q)
    BY <1>6 DEF validate, check_dele_signature, check_merkle_proof
  <2>3. r.at \in Int /\ r.at <= time BY DEF FreshInv, AnswersInv
  <2>4. m.request = q /\ m.response = r /\ m.at = time BY <1>0
  <2>5. Sound(m)' BY <1>1, <1>4, <2>1, <2>2, <2>3, <2>4 DEF Sound
  <2>6. /\ Len(measurements) \in Nat /\ Len(measurements') = Len(measurements) + 1
        /\ \A i \in 1..Len(measurements) : measurements'[i] = measurements[i]
        /\ measurements'[Len(measurements) + 1] = m
    BY <1>6, Appended DEF TypeInv, LengthInv
  <2>7. Positions' = Positions \cup {Len(measurements) + 1} BY <2>6 DEF Positions
  <2>8. \A k \in Positions' : Sound(measurements[k])'
    <3>1. \A k \in Positions : Sound(measurements[k]) BY DEF FreshInv, MeasurementsInv
    <3>2. \A k \in Positions : Sound(measurements[k])'
      BY <1>1, <2>6, <3>1 DEF Sound, Positions
    <3>3. Sound(measurements[Len(measurements)])' BY <2>5, <2>6 DEF Sound
    <3> QED BY <2>6, <2>7, <3>2, <3>3
  <2>9. \A i, j \in Positions' : i < j => measurements'[i].at <= measurements'[j].request.at
    <3>1. \A i \in Positions : measurements[i].at <= q.at
      BY <1>0, <1>1 DEF FreshInv, MeasurementsInv
    <3>2. \A i, j \in Positions : i < j => measurements[i].at <= measurements[j].request.at
      BY DEF FreshInv, MeasurementsInv
    <3> QED BY <2>4, <2>6, <2>7, <3>1, <3>2 DEF Positions
  <2>10. MeasurementsInv' BY <1>1, <2>8, <2>9 DEF MeasurementsInv
  <2> QED BY <1>2, <2>10 DEF FreshInv
<1> QED BY <1>0, <1>5, <1>6 DEF Receive

\* A new answer proves a request that was sent, and is honest if its key is.
LEMMA FreshAnswer ==
  ASSUME TypeInv, FreshInv, NEW s \in Servers, NEW q \in asked, Answer(s, q)
  PROVE  FreshInv'
<1>1. /\ time' = time /\ asked' = asked /\ rands' = rands /\ pc' = pc
      /\ request' = request /\ measurements' = measurements
  BY DEF Answer
<1>2. Positions' = Positions BY <1>1 DEF Positions
<1>3. RequestsInv' BY <1>1 DEF FreshInv, RequestsInv
<1>4. time \in Int /\ StartTime <= time BY ClientAssumption DEF TypeInv, TypeOK
<1>5. q.at <= time BY DEF FreshInv, RequestsInv
<1>6. PICK r : /\ answers' = answers \cup {r}
               /\ r.at = time /\ r.leaf = Leaf(q) /\ r.midp \in Int /\ r.radi \in Nat
               /\ r.key \in Honest =>
                    r.radi = Radius /\ time - Radius <= r.midp /\ r.midp <= time + Radius
  <2>1. CASE \E skew \in Skews : AnswerHonestly(s, q, skew)
    <3>1. PICK skew \in Skews : AnswerHonestly(s, q, skew) BY <2>1
    <3>2. skew \in Int /\ -Radius <= skew /\ skew <= Radius /\ Radius \in Nat BY ClientAssumption
    <3> DEFINE r == [key |-> s, midp |-> time + skew, radi |-> Radius, leaf |-> Leaf(q),
                     sound |-> TRUE, at |-> time]
    <3>3. answers' = answers \cup {r} BY <3>1 DEF AnswerHonestly
    <3>4. /\ r.at = time /\ r.leaf = Leaf(q) /\ r.midp \in Int /\ r.radi \in Nat
          /\ r.radi = Radius /\ time - Radius <= r.midp /\ r.midp <= time + Radius
      BY <1>4, <3>2
    <3> HIDE DEF r
    <3> QED BY <3>3, <3>4
  <2>2. CASE \E midp \in Midpoints, radi \in Radii, sound \in BOOLEAN :
               AnswerAnyhow(s, q, midp, radi, sound)
    <3>1. PICK midp \in Midpoints, radi \in Radii, sound \in BOOLEAN :
            AnswerAnyhow(s, q, midp, radi, sound)
      BY <2>2
    <3> DEFINE r == [key |-> s, midp |-> midp, radi |-> radi, leaf |-> Leaf(q),
                     sound |-> sound, at |-> time]
    <3>2. answers' = answers \cup {r} /\ s \notin Honest BY <3>1 DEF AnswerAnyhow
    <3>3. midp \in Int /\ radi \in Nat BY ClientAssumption
    <3>4. r.key = s /\ r.at = time /\ r.leaf = Leaf(q) /\ r.midp \in Int /\ r.radi \in Nat
      BY <3>3
    <3> HIDE DEF r
    <3> QED BY <3>2, <3>4
  <2> QED BY <2>1, <2>2 DEF Answer
<1>7. AnswersInv' BY <1>1, <1>4, <1>5, <1>6 DEF FreshInv, AnswersInv
<1>8. \A x : Sound(x) => Sound(x)' BY <1>1, <1>6 DEF Sound
<1>9. MeasurementsInv' BY <1>1, <1>2, <1>8 DEF FreshInv, MeasurementsInv
<1> QED BY <1>3, <1>7, <1>9 DEF FreshInv

\* Requests, answers and measurements stay in order: the inductive step.
LEMMA FreshInductive ==
  ASSUME TypeInv, FreshInv, [Next]_vars
  PROVE  FreshInv'
<1>1. ASSUME NEW order \in choose_random(NumServers), Choose(order) PROVE FreshInv'
  <2>1. asked' = {} /\ answers' = {} /\ measurements' = <<>> /\ pc' = "query" BY <1>1 DEF Choose
  <2>2. Positions' = {} BY <2>1, EmptySeq DEF Positions
  <2> QED BY <2>1, <2>2 DEF FreshInv, RequestsInv, AnswersInv, MeasurementsInv
<1>2. CASE Query BY <1>2, FreshQuery
<1>3. ASSUME NEW r \in answers, Receive(r) PROVE FreshInv' BY <1>3, FreshReceive
<1>4. ASSUME NEW s \in Servers, NEW q \in asked, Answer(s, q) PROVE FreshInv' BY <1>4, FreshAnswer
<1>5. ASSUME UNCHANGED <<measurements, rands, asked, answers>>, pc' = "recv" => pc = "recv",
             request' = request \/ pc' # "recv", time' = time \/ time' = time + 1
      PROVE  FreshInv'
  <2>1. time \in Int /\ time' \in Int /\ time <= time'
    BY <1>5, ClientAssumption DEF TypeInv, TypeOK
  <2>2. Positions' = Positions BY <1>5 DEF Positions
  <2>3. RequestsInv' BY <1>5, <2>1 DEF FreshInv, RequestsInv
  <2>4. AnswersInv'
    <3>1. StartTime \in Int BY ClientAssumption
    <3> QED BY <1>5, <2>1, <3>1 DEF FreshInv, AnswersInv
  <2>5. \A x : Sound(x) => Sound(x)'  BY <1>5, <2>1 DEF Sound
  <2>6. MeasurementsInv' BY <1>5, <2>2, <2>5 DEF FreshInv, MeasurementsInv
  <2> QED BY <2>3, <2>4, <2>6 DEF FreshInv
<1>6. CASE Fail BY <1>5, <1>6 DEF Fail
<1>7. CASE Check BY <1>5, <1>7 DEF Check, run
<1>8. ASSUME NEW p \in violations, NEW a \in BOOLEAN, NEW b \in BOOLEAN, Post(p, a, b)
      PROVE FreshInv'
  BY <1>5, <1>8 DEF Post, run
<1>9. CASE Reported BY <1>5, <1>9 DEF Reported, run
<1>10. CASE Retry BY <1>5, <1>10 DEF Retry, run
<1>11. ASSUME NEW i, NEW j, ReportFromElsewhere(i, j) PROVE FreshInv'
  BY <1>5, <1>11 DEF ReportFromElsewhere, run
<1>12. CASE Tick BY <1>5, <1>12 DEF Tick, run
<1>13. CASE UNCHANGED vars BY <1>5, <1>13 DEF vars, run
<1> QED BY <1>1, <1>2, <1>3, <1>4, <1>6, <1>7, <1>8, <1>9, <1>10, <1>11, <1>12, <1>13
        DEF Next, Step, World, Terminated

LEMMA FreshInitial == Init => FreshInv
<1> SUFFICES ASSUME Init PROVE FreshInv OBVIOUS
<1>1. asked = {} /\ answers = {} /\ measurements = <<>> /\ pc = "choose" BY DEF Init
<1>2. Positions = {} BY <1>1, EmptySeq DEF Positions
<1> QED BY <1>1, <1>2 DEF FreshInv, RequestsInv, AnswersInv, MeasurementsInv

\* The positions of the sequence.
LEMMA PositionsAre == TypeInv => DOMAIN measurements = Positions /\ Positions \subseteq Int
BY DEF TypeInv, LengthInv, Positions

\* The response of a measurement was signed after its request was sent: it proves a
\* request with the same random value, and there is only one.
LEMMA InOrder ==
  ASSUME TypeInv, FreshInv, NEW k \in Positions
  PROVE  LET m == measurements[k]
         IN  /\ m.request.at \in Int /\ m.response.at \in Int /\ m.at \in Int
             /\ m.request.at <= m.response.at /\ m.response.at <= m.at
             /\ StartTime <= m.response.at /\ m.at <= time
             /\ m.response.key = m.request.server
             /\ m.response.midp \in Int /\ m.response.radi \in Nat
<1> DEFINE m == measurements[k]
<1>1. Sound(m) BY DEF FreshInv, MeasurementsInv
<1>2. PICK q \in asked : m.response.leaf = Leaf(q) /\ q.at <= m.response.at
  BY <1>1 DEF Sound, FreshInv, AnswersInv
<1>3. m.request.nonc = q.nonc BY <1>1, <1>2, LeafBinds DEF Sound
<1>4. m.request = q BY <1>1, <1>3 DEF Sound, FreshInv, RequestsInv
<1> QED BY <1>1, <1>2, <1>4 DEF Sound, FreshInv, RequestsInv, AnswersInv

\* An honest answer: the bounds that the client computes for it do not wrap and
\* enclose the time at which it was signed.
LEMMA HonestBounds ==
  ASSUME TypeInv, FreshInv, NEW k \in Positions, IsHonest(k)
  PROVE  LET m == measurements[k]
         IN  /\ lower_bound(m) \in Int /\ upper_bound(m) \in Int
             /\ lower_bound(m) <= m.response.at /\ m.response.at <= upper_bound(m)
             /\ m.response.at - 2 * Radius <= lower_bound(m)
             /\ upper_bound(m) <= m.response.at + 2 * Radius
<1> DEFINE r == measurements[k].response
<1>1. r.key \in Honest BY InOrder DEF IsHonest
<1>2. r \in answers BY DEF FreshInv, MeasurementsInv, Sound
<1>3. r.radi = Radius /\ r.at - Radius <= r.midp /\ r.midp <= r.at + Radius
  BY <1>1, <1>2 DEF FreshInv, AnswersInv
<1>4. r.at \in Int /\ StartTime <= r.at /\ r.at <= MaxTime /\ r.midp \in Int
  <2>1. /\ r.at \in Int /\ StartTime <= r.at /\ r.at <= measurements[k].at
        /\ measurements[k].at \in Int /\ measurements[k].at <= time /\ r.midp \in Int
    BY InOrder
  <2>2. time \in Int /\ time <= MaxTime /\ MaxTime \in Int BY ClientAssumption DEF TypeInv, TypeOK
  <2> HIDE DEF r
  <2> QED BY <2>1, <2>2
<1>5. /\ Radius \in Int /\ StartTime \in Int /\ MaxTime \in Int /\ U64 \in Int
      /\ StartTime >= 2 * Radius /\ MaxTime + 2 * Radius < U64
  BY ClientAssumption
<1> HIDE DEF r
<1>6. r.midp >= Radius /\ r.midp + Radius < U64 BY <1>3, <1>4, <1>5
<1>7. u64_sub(r.midp, r.radi) = r.midp - Radius /\ u64_add(r.midp, r.radi) = r.midp + Radius
  BY <1>3, <1>6 DEF u64_sub, u64_add
<1>8. /\ lower_bound(measurements[k]) = r.midp - Radius
      /\ upper_bound(measurements[k]) = r.midp + Radius
  BY <1>7 DEF lower_bound, upper_bound, r
<1> QED BY <1>3, <1>4, <1>5, <1>8 DEF r

\* Of two measurements in order, the first response was signed before the second.
LEMMA SignedInOrder ==
  ASSUME TypeInv, FreshInv, NEW i \in Positions, NEW j \in Positions, i < j
  PROVE  measurements[i].response.at <= measurements[j].response.at
<1>1. measurements[i].at <= measurements[j].request.at BY DEF FreshInv, MeasurementsInv
<1> QED BY <1>1, InOrder

LEMMA HonestOrder == TypeInv /\ FreshInv => HonestNeverAccused
<1> SUFFICES ASSUME TypeInv, FreshInv, NEW i \in Positions, NEW j \in Positions, i < j,
                    IsHonest(i), IsHonest(j)
             PROVE  ~Violates(i, j)
  BY PositionsAre DEF HonestNeverAccused
<1> DEFINE mi == measurements[i]
           mj == measurements[j]
<1>1. mi.response.at <= mj.response.at BY SignedInOrder
<1>2. lower_bound(mi) \in Int /\ lower_bound(mi) <= mi.response.at BY HonestBounds
<1>3. upper_bound(mj) \in Int /\ mj.response.at <= upper_bound(mj) BY HonestBounds
<1>4. mi.response.at \in Int /\ mj.response.at \in Int BY InOrder
<1> QED BY <1>1, <1>2, <1>3, <1>4 DEF Violates

\* A bound that wraps says less than it seems to: the true one is further off still.
LEMMA WrappedBounds ==
  ASSUME NEW midp \in Int, NEW radi \in Nat, NEW l \in Int, NEW u \in Int
  PROVE  /\ l < U64 /\ ~(l > u64_add(midp, radi)) => midp + radi >= l
         /\ 0 <= u /\ ~(u64_sub(midp, radi) > u) => midp - radi <= u
<1>1. U64 \in Nat BY ClientAssumption
<1>2. CASE midp + radi < U64 BY <1>1, <1>2 DEF u64_add, u64_sub
<1>3. CASE ~(midp + radi < U64) BY <1>1, <1>3 DEF u64_add, u64_sub
<1> QED BY <1>2, <1>3

LEMMA Sandwiched == TypeInv /\ FreshInv => SandwichedTimeIsBounded
<1> SUFFICES ASSUME TypeInv, FreshInv, validate_causality = {},
                    NEW i \in Positions, NEW k \in Positions, NEW j \in Positions,
                    i < k, k < j, IsHonest(i), IsHonest(j)
             PROVE  LET r == measurements[k].response
                    IN  /\ r.midp + r.radi >= measurements[i].request.at - 2 * Radius
                        /\ r.midp - r.radi <= measurements[j].at + 2 * Radius
  BY PositionsAre DEF SandwichedTimeIsBounded
<1>1. \A a, b \in Positions : a < b => ~Violates(a, b)
  <2>1. SUFFICES ASSUME NEW a \in Positions, NEW b \in Positions, a < b, Violates(a, b)
                 PROVE  <<a, b>> \in validate_causality
    OBVIOUS
  <2> QED BY <2>1 DEF validate_causality, Compared, Positions
<1> DEFINE r == measurements[k].response
           x == measurements[i].response.at
           y == measurements[j].response.at
           li == lower_bound(measurements[i])
           uj == upper_bound(measurements[j])
<1>2. r.midp \in Int /\ r.radi \in Nat BY InOrder
<1>3. /\ x \in Int /\ measurements[i].request.at \in Int /\ measurements[i].request.at <= x
      /\ y \in Int /\ measurements[j].at \in Int /\ y <= measurements[j].at /\ StartTime <= y
  BY InOrder
<1>4. li \in Int /\ x - 2 * Radius <= li /\ li <= x BY HonestBounds
<1>5. uj \in Int /\ uj <= y + 2 * Radius /\ y <= uj BY HonestBounds
<1>6. ~(li > u64_add(r.midp, r.radi)) BY <1>1 DEF Violates, upper_bound
<1>7. ~(u64_sub(r.midp, r.radi) > uj) BY <1>1 DEF Violates, lower_bound
<1>8. Radius \in Int /\ x < U64 /\ 0 <= y /\ U64 \in Int
  <2>1. /\ StartTime \in Nat /\ Radius \in Nat /\ MaxTime \in Nat /\ U64 \in Nat
        /\ MaxTime + 2 * Radius < U64
    BY ClientAssumption
  <2>2. time \in Int /\ time <= MaxTime BY ClientAssumption DEF TypeInv, TypeOK
  <2>3. measurements[i].at \in Int /\ x <= measurements[i].at /\ measurements[i].at <= time
    BY InOrder
  <2> HIDE DEF x, y
  <2> QED BY <1>3, <2>1, <2>2, <2>3
<1> HIDE DEF r, x, y, li, uj
<1>9. r.midp + r.radi >= li BY <1>2, <1>3, <1>4, <1>6, <1>8, WrappedBounds
<1>10. r.midp - r.radi <= uj BY <1>2, <1>3, <1>5, <1>7, <1>8, WrappedBounds
<1>11. /\ r.midp + r.radi >= measurements[i].request.at - 2 * Radius
       /\ r.midp - r.radi <= measurements[j].at + 2 * Radius
  BY <1>2, <1>3, <1>4, <1>5, <1>8, <1>9, <1>10
<1> QED BY <1>11 DEF r

LEMMA FreshSafe == Spec => [](TypeInv /\ FreshInv)
<1>1. TypeInv /\ FreshInv /\ [Next]_vars => TypeInv' /\ FreshInv'
  BY TypeInductive, FreshInductive
<1> QED BY TypeInitial, FreshInitial, <1>1, PTL DEF Spec

\* Whatever the servers and the network do, for every number of servers, rounds,
\* answers and retries: the client takes only responses that the server it asked has
\* signed, between the request and their receipt (client.rs, validation.rs).
THEOREM ClientFreshness == Spec => []AcceptedIsFresh
<1>1. TypeInv /\ FreshInv => AcceptedIsFresh
  BY PositionsAre, InOrder DEF AcceptedIsFresh
<1> QED BY <1>1, FreshSafe, PTL

\* The client never finds two honest servers in violation of each other, whatever
\* the delays and the uncertainty of their clocks (sequence.rs).
THEOREM ClientFair == Spec => []HonestNeverAccused
<1> QED BY HonestOrder, FreshSafe, PTL

\* A sequence without violations bounds every answer, a liar's too, between two
\* honest ones (sequence.rs).
THEOREM ClientBounds == Spec => []SandwichedTimeIsBounded
<1> QED BY Sandwiched, FreshSafe, PTL

-----------------------------------------------------------------------------
\* Each request is made from the response before it, whatever the responses are.
LEMMA ChainInductive ==
  ASSUME TypeInv, ChainInv, [Next]_vars
  PROVE  ChainInv'
<1>1. ASSUME NEW order \in choose_random(NumServers), Choose(order) PROVE ChainInv'
  <2>1. measurements' = <<>> /\ pc' = "query" BY <1>1 DEF Choose
  <2>2. Positions' = {} BY <2>1, EmptySeq DEF Positions
  <2> QED BY <2>1, <2>2 DEF ChainInv
<1>2. ASSUME UNCHANGED measurements,
             pc' = "recv" => request'[1].nonc = calculate_chained_nonce(prior_response, request'[1].nonc.rand)
      PROVE  ChainInv'
  <2>1. Positions' = Positions /\ prior_response' = prior_response
    BY <1>2 DEF Positions, prior_response
  <2> QED BY <1>2, <2>1 DEF ChainInv
<1>3. CASE Query
  <2>1. request'[1].nonc = calculate_chained_nonce(prior_response, rands) /\ measurements' = measurements
    BY <1>3, SomeIsNotNone DEF Query
  <2>2. request'[1].nonc.rand = rands BY <2>1 DEF calculate_chained_nonce
  <2> QED BY <1>2, <2>1, <2>2
<1>4. ASSUME NEW r \in answers, Receive(r) PROVE ChainInv'
  <2>1. pc = "recv" /\ pc' # "recv" BY <1>4 DEF Receive
  <2>2. CASE measurements' = measurements BY <1>2, <2>1, <2>2
  <2>3. CASE measurements' # measurements
    <3>1. PICK q, m :
            /\ q = request[1] /\ m.request = q /\ measurements' = Append(measurements, m)
            /\ m.rand_value = IF q.nonc.prior = None THEN None ELSE Some(q.nonc.rand)
      BY <1>4, <2>3 DEF Receive
    <3>2. /\ Len(measurements) \in Nat /\ Len(measurements') = Len(measurements) + 1
          /\ \A i \in 1..Len(measurements) : measurements'[i] = measurements[i]
          /\ measurements'[Len(measurements) + 1] = m
      BY <3>1, Appended DEF TypeInv, LengthInv
    <3>3. q.nonc = calculate_chained_nonce(prior_response, q.nonc.rand)
      BY <2>1, <3>1 DEF ChainInv
    <3>4. prior_response = IF Len(measurements) + 1 = 1 THEN None
                           ELSE Some(measurements[Len(measurements)].response)
      BY <3>2, EmptySeq DEF prior_response, TypeInv, LengthInv
    <3>5. SUFFICES ASSUME NEW k \in 1..(Len(measurements) + 1)
                   PROVE  /\ measurements'[k].request.nonc =
                               calculate_chained_nonce(
                                 IF k = 1 THEN None ELSE Some(measurements'[k - 1].response),
                                 measurements'[k].request.nonc.rand)
                          /\ measurements'[k].rand_value =
                               IF measurements'[k].request.nonc.prior = None THEN None
                               ELSE Some(measurements'[k].request.nonc.rand)
      BY <2>1, <3>2 DEF ChainInv, Positions
    <3>6. CASE k = Len(measurements) + 1
      <4>1. k # 1 => measurements'[k - 1] = measurements[Len(measurements)] BY <3>2, <3>6
      <4> QED BY <3>1, <3>2, <3>3, <3>4, <3>6, <4>1
    <3>7. CASE k \in 1..Len(measurements)
      <4>1. k # 1 => measurements'[k - 1] = measurements[k - 1] BY <3>2, <3>7
      <4> QED BY <3>2, <3>7, <4>1 DEF ChainInv, Positions
    <3> QED BY <3>2, <3>6, <3>7
  <2> QED BY <2>2, <2>3
<1>5. ASSUME UNCHANGED measurements, pc' # "recv" \/ (pc = "recv" /\ request' = request)
      PROVE  ChainInv'
  BY <1>2, <1>5 DEF ChainInv
<1>6. CASE Fail BY <1>5, <1>6 DEF Fail
<1>7. CASE Check BY <1>5, <1>7 DEF Check, run
<1>8. ASSUME NEW p \in violations, NEW a \in BOOLEAN, NEW b \in BOOLEAN, Post(p, a, b)
      PROVE ChainInv'
  BY <1>5, <1>8 DEF Post, run
<1>9. CASE Reported BY <1>5, <1>9 DEF Reported, run
<1>10. CASE Retry BY <1>5, <1>10 DEF Retry, run
<1>11. ASSUME NEW s \in Servers, NEW q \in asked, Answer(s, q) PROVE ChainInv'
  BY <1>5, <1>11 DEF Answer
<1>12. ASSUME NEW i, NEW j, ReportFromElsewhere(i, j) PROVE ChainInv'
  BY <1>5, <1>12 DEF ReportFromElsewhere, run
<1>13. CASE Tick BY <1>5, <1>13 DEF Tick, run
<1>14. CASE UNCHANGED vars BY <1>5, <1>14 DEF vars, run
<1> QED BY <1>1, <1>3, <1>4, <1>6, <1>7, <1>8, <1>9, <1>10, <1>11, <1>12, <1>13, <1>14
        DEF Next, Step, World, Terminated

\* The measurements of an attempt are a chain as the reporting server checks it.
THEOREM ClientChain == Spec => []ChainUnbroken
<1>1. Init => ChainInv
  <2> SUFFICES ASSUME Init PROVE ChainInv OBVIOUS
  <2>1. measurements = <<>> /\ pc = "choose" BY DEF Init
  <2>2. Positions = {} BY <2>1, EmptySeq DEF Positions
  <2> QED BY <2>1, <2>2 DEF ChainInv
<1>2. TypeInv /\ ChainInv => ChainUnbroken
  <2> SUFFICES ASSUME TypeInv, ChainInv, NEW k \in Positions
               PROVE  validate_chaining(from_measurement(measurements[k]),
                        IF k = 1 THEN None ELSE Some(measurements[k - 1].response))
    BY PositionsAre DEF ChainUnbroken
  <2> DEFINE m == measurements[k]
             previous == IF k = 1 THEN None ELSE Some(measurements[k - 1].response)
  <2>1. m.request.nonc = calculate_chained_nonce(previous, m.request.nonc.rand)
    BY DEF ChainInv
  <2>2. m.request.nonc.prior = previous BY <2>1 DEF calculate_chained_nonce
  <2>3. m.rand_value = IF previous = None THEN None ELSE Some(m.request.nonc.rand)
    BY <2>2 DEF ChainInv
  <2>4. from_measurement(m).rand = m.rand_value /\ from_measurement(m).request = m.request
    BY DEF from_measurement
  <2> HIDE DEF m, previous
  <2>5. validate_chaining(from_measurement(m), previous)
    BY <2>1, <2>3, <2>4, SomeIsNotNone DEF validate_chaining
  <2> QED BY <2>5 DEF m, previous
<1>3. TypeInv /\ ChainInv /\ [Next]_vars => TypeInv' /\ ChainInv'
  BY TypeInductive, ChainInductive
<1> QED BY TypeInitial, <1>1, <1>2, <1>3, PTL DEF Spec

-----------------------------------------------------------------------------
\* A report made from two measurements of the attempt, in whatever order, passes the
\* chaining check only if the second request was made from the first response.
LEMMA ReportProvesOrder ==
  ASSUME FreshInv, NEW i \in Positions, NEW j \in Positions,
         validate_report(from_violation(measurements[i], measurements[j]))
  PROVE  measurements[i].response.at <= measurements[j].request.at
<1> DEFINE mi == measurements[i]
           mj == measurements[j]
           report == from_violation(mi, mj)
<1>1. DOMAIN report = 1..2 /\ report[1].response = mi.response /\ report[2].request = mj.request
  BY DEF from_violation, from_measurement
<1>2. validate_chaining(report[2], Some(report[1].response))
  BY <1>1 DEF validate_report
<1>3. mj.request.nonc = calculate_chained_nonce(Some(mi.response), report[2].rand[1])
  BY <1>1, <1>2, SomeIsNotNone DEF validate_chaining
<1>4. mj.request.nonc.prior = Some(mi.response) BY <1>3 DEF calculate_chained_nonce
<1>5. mj.request \in asked BY DEF FreshInv, MeasurementsInv, Sound
<1> QED BY <1>4, <1>5, SomeIsNotNone DEF FreshInv, RequestsInv

LEMMA ReportsInductive ==
  ASSUME TypeInv, FreshInv, ReportsInv, [Next]_vars
  PROVE  ReportsInv'
<1>1. ASSUME UNCHANGED <<violations, stored>>,
             (violations = {} /\ pc' # "report") \/ UNCHANGED <<pc, measurements>>
      PROVE  ReportsInv'
  BY <1>1 DEF ReportsInv, Positions
<1>2. ASSUME NEW i \in Positions, NEW j \in Positions, measurements' = measurements, pc' = pc,
             violations' \subseteq violations,
             \/ stored' = stored
             \/ /\ validate_report(from_violation(measurements[i], measurements[j]))
                /\ stored' = Append(stored, from_violation(measurements[i], measurements[j]))
      PROVE  ReportsInv'
  <2>1. Positions' = Positions BY <1>2 DEF Positions
  <2>2. CASE stored' = stored BY <1>2, <2>1, <2>2 DEF ReportsInv
  <2>3. CASE /\ validate_report(from_violation(measurements[i], measurements[j]))
             /\ stored' = Append(stored, from_violation(measurements[i], measurements[j]))
    <3>1. PICK report : report = from_violation(measurements[i], measurements[j]) OBVIOUS
    <3>2. report[1].response.at <= report[2].request.at
      BY <1>2, <2>3, <3>1, ReportProvesOrder DEF from_violation, from_measurement
    <3>3. /\ \E S : stored' \in Seq(S)
          /\ Len(stored) \in Nat /\ Len(stored') = Len(stored) + 1
          /\ \A n \in 1..Len(stored) : stored'[n] = stored[n]
          /\ stored'[Len(stored) + 1] = report
      <4>1. \E S : stored \in Seq(S) BY DEF ReportsInv
      <4>2. stored' = Append(stored, report) BY <2>3, <3>1
      <4>3. /\ \E S : Append(stored, report) \in Seq(S)
            /\ Len(stored) \in Nat /\ Len(Append(stored, report)) = Len(stored) + 1
            /\ \A n \in 1..Len(stored) : Append(stored, report)[n] = stored[n]
            /\ Append(stored, report)[Len(stored) + 1] = report
        BY <4>1, Appended, Zenon
      <4> QED BY <4>2, <4>3, Zenon
    <3>4. \A n \in 1..Len(stored') : stored'[n][1].response.at <= stored'[n][2].request.at
      BY <3>2, <3>3 DEF ReportsInv
    <3> QED BY <1>2, <2>1, <3>3, <3>4 DEF ReportsInv
  <2> QED BY <1>2, <2>2, <2>3
<1>3. ASSUME NEW order \in choose_random(NumServers), Choose(order) PROVE ReportsInv'
  BY <1>1, <1>3 DEF Choose, reports, ReportsInv
<1>4. CASE Query BY <1>1, <1>4 DEF Query, reports, ReportsInv
<1>5. ASSUME NEW r \in answers, Receive(r) PROVE ReportsInv'
  BY <1>1, <1>5 DEF Receive, reports, ReportsInv
<1>6. CASE Fail BY <1>1, <1>6 DEF Fail, reports, ReportsInv
<1>7. CASE Check
  <2>1. /\ violations' \subseteq Positions \X Positions /\ pc' \in {"done", "report", "retry"}
        /\ measurements' = measurements /\ stored' = stored
        /\ pc' # "report" => violations' = {}
    BY <1>7 DEF Check, run, ReportsInv, validate_causality, Positions
  <2> QED BY <2>1 DEF ReportsInv, Positions
<1>8. ASSUME NEW p \in violations, NEW a \in BOOLEAN, NEW b \in BOOLEAN, Post(p, a, b)
      PROVE ReportsInv'
  <2>1. p[1] \in Positions /\ p[2] \in Positions BY DEF ReportsInv
  <2> QED BY <1>2, <1>8, <2>1 DEF Post, run
<1>9. CASE Reported BY <1>1, <1>9 DEF Reported, run, reports
<1>10. CASE Retry BY <1>1, <1>10 DEF Retry, run, reports, ReportsInv
<1>11. ASSUME NEW s \in Servers, NEW q \in asked, Answer(s, q) PROVE ReportsInv'
  BY <1>1, <1>11 DEF Answer, reports
<1>12. ASSUME NEW i \in DOMAIN measurements, NEW j \in DOMAIN measurements,
              ReportFromElsewhere(i, j)
       PROVE  ReportsInv'
  <2>1. i \in Positions /\ j \in Positions BY PositionsAre
  <2> QED BY <1>2, <1>12, <2>1 DEF ReportFromElsewhere, run
<1>13. CASE Tick BY <1>1, <1>13 DEF Tick, run, reports
<1>14. CASE UNCHANGED vars BY <1>1, <1>14 DEF vars, run, reports
<1> QED BY <1>3, <1>4, <1>5, <1>6, <1>7, <1>8, <1>9, <1>10, <1>11, <1>12, <1>13, <1>14
        DEF Next, Step, World, Terminated

\* Whatever the reporting server stores proves the order of its two responses.
THEOREM ReportsProveOrder == Spec => []StoredReportsProveOrder
<1>1. Init => ReportsInv
  <2> SUFFICES ASSUME Init PROVE ReportsInv OBVIOUS
  <2>1. stored = <<>> /\ violations = {} /\ <<>> \in Seq({}) /\ Len(<<>>) = 0 BY DEF Init
  <2>2. \E S : stored \in Seq(S) BY <2>1
  <2> QED BY <2>1, <2>2 DEF ReportsInv
<1>2. ReportsInv => StoredReportsProveOrder
  <2> SUFFICES ASSUME ReportsInv PROVE StoredReportsProveOrder OBVIOUS
  <2>1. DOMAIN stored = 1..Len(stored) BY DEF ReportsInv
  <2> QED BY <2>1 DEF ReportsInv, StoredReportsProveOrder
<1>3. TypeInv /\ FreshInv /\ ReportsInv /\ [Next]_vars => TypeInv' /\ FreshInv' /\ ReportsInv'
  BY TypeInductive, FreshInductive, ReportsInductive
<1> QED BY TypeInitial, FreshInitial, <1>1, <1>2, <1>3, PTL DEF Spec

-----------------------------------------------------------------------------
LEMMA MidpointInductive ==
  ASSUME TypeInv, MidpointInv, [Next]_vars
  PROVE  MidpointInv'
<1>1. ASSUME midpoint' = midpoint, pc # "done" \/ UNCHANGED <<pc, measurements>>
      PROVE  MidpointInv'
  BY <1>1 DEF MidpointInv, validate_causality, Violates, last_midpoint
<1>2. ASSUME NEW order \in choose_random(NumServers), Choose(order) PROVE MidpointInv'
  BY <1>1, <1>2 DEF Choose
<1>3. CASE Query BY <1>1, <1>3 DEF Query
<1>4. ASSUME NEW r \in answers, Receive(r) PROVE MidpointInv' BY <1>1, <1>4 DEF Receive
<1>5. CASE Fail BY <1>1, <1>5 DEF Fail
<1>6. CASE Check
  <2>1. CASE validate_causality = {}
    <3>1. validate_causality' = {} /\ measurements' = measurements /\ pc' = "done"
      BY <1>6, <2>1 DEF Check, run, validate_causality, Violates
    <3>2. Len(measurements) = Turns BY <1>6 DEF Check, TypeInv, TypeOK
    <3>3. midpoint' = Some(last_midpoint) /\ last_midpoint' = last_midpoint
      BY <1>6, <2>1, <3>1 DEF Check, last_midpoint
    <3> QED BY <3>1, <3>2, <3>3 DEF MidpointInv
  <2>2. CASE validate_causality # {}
    <3>1. midpoint' = midpoint BY <1>6, <2>2 DEF Check
    <3> QED BY <1>1, <1>6, <3>1 DEF Check
  <2> QED BY <2>1, <2>2
<1>7. ASSUME NEW p \in violations, NEW a \in BOOLEAN, NEW b \in BOOLEAN, Post(p, a, b)
      PROVE MidpointInv'
  BY <1>1, <1>7 DEF Post
<1>8. CASE Reported BY <1>1, <1>8 DEF Reported
<1>9. CASE Retry
  <2>1. CASE MoreAttempts BY <1>1, <1>9, <2>1 DEF Retry
  <2>2. CASE ~MoreAttempts BY <1>9, <2>2 DEF Retry, MidpointInv, Trusted
  <2> QED BY <2>1, <2>2
<1>10. ASSUME NEW s \in Servers, NEW q \in asked, Answer(s, q) PROVE MidpointInv'
  BY <1>1, <1>10 DEF Answer
<1>11. ASSUME NEW i, NEW j, ReportFromElsewhere(i, j) PROVE MidpointInv'
  BY <1>1, <1>11 DEF ReportFromElsewhere, run
<1>12. CASE Tick BY <1>1, <1>12 DEF Tick, run
<1>13. CASE UNCHANGED vars BY <1>1, <1>13 DEF vars, run
<1> QED BY <1>2, <1>3, <1>4, <1>5, <1>6, <1>7, <1>8, <1>9, <1>10, <1>11, <1>12, <1>13
        DEF Next, Step, World, Terminated

\* A time is returned from a sequence with violations only when untrusted time was
\* asked for, after any number of attempts.
THEOREM ClientTrust == Spec => []NoUntrustedTime
<1>1. Init => MidpointInv BY DEF Init, MidpointInv
<1>2. MidpointInv => NoUntrustedTime BY DEF MidpointInv, NoUntrustedTime
<1>3. TypeInv /\ MidpointInv /\ [Next]_vars => TypeInv' /\ MidpointInv'
  BY TypeInductive, MidpointInductive
<1> QED BY TypeInitial, <1>1, <1>2, <1>3, PTL DEF Spec

-----------------------------------------------------------------------------
(***************************************************************************)
(* The program (module ClientMain): the queries of one server, and what    *)
(* the system clock is set to.                                             *)
(***************************************************************************)
\* The arguments, and a measurement of several servers makes no single queries.
ArgsInv ==
  /\ args.mode \in {"single", "multiple"}
  /\ args.mode = "multiple" => sent = {} /\ accepted = <<>>

\* The loop over the queries of one server.
LoopInv ==
  /\ single \in [pc : {"query", "recv", "failed"}, left : Nat, midpoint : Int,
                 request : {None} \cup {Some(q) : q \in sent}]
  /\ single.pc = "recv" => single.left > 0 /\ single.request # None

\* A request is determined by its number, which is its nonce.
SentInv ==
  /\ IsFiniteSet(sent)
  /\ \A q \in sent : /\ q.at \in Int /\ q.at <= time
                     /\ q.n \in Nat /\ q.n < Cardinality(sent) /\ q.nonc.rand = q.n
  /\ \A p, q \in sent : p.n = q.n => p = q

\* Every response proves a request that was sent before it was signed, and those of
\* honest servers are within the radius of true time.
GotInv ==
  \A r \in got :
    /\ r.at \in Int /\ r.at <= time /\ r.midp \in Int
    /\ \E q \in sent : r.leaf = SingleLeaf(q) /\ q.at <= r.at
    /\ r.key \in Honest => r.at - Radius <= r.midp /\ r.midp <= r.at + Radius

\* A measurement: a request and a response that proves it.
SoundSingle(m) ==
  /\ m.request \in sent /\ m.response \in got
  /\ m.response.leaf = SingleLeaf(m.request)
  /\ args.pub_key => m.response.key = args.target
  /\ m.at \in Int /\ m.response.at <= m.at

Accepted == 1..Len(accepted)

\* Measurements follow the order of their requests, of which the one that is waited
\* for is the last.
AcceptedInv ==
  /\ \E S : accepted \in Seq(S)
  /\ \A k \in Accepted : SoundSingle(accepted[k])
  /\ \A j, k \in Accepted : j < k => accepted[j].request.n < accepted[k].request.n
  /\ single.pc = "recv" => \A k \in Accepted : accepted[k].request.n < single.request[1].n
  /\ single.midpoint = IF accepted = <<>> THEN 0 ELSE accepted[Len(accepted)].response.midp

SingleInv == ArgsInv /\ LoopInv /\ SentInv /\ GotInv /\ AcceptedInv

\* Every step of the program is one of the measurement sequence or leaves it alone.
LEMMA MainStepsAreSteps ==
  ASSUME [MainNext]_allVars
  PROVE  [Next]_vars
BY DEF MainNext, MainStep, MainWorld, MainTerminated, Next, World, allVars

\* The leaf that a response must prove determines the nonce, with a key or without.
LEMMA SingleLeafBinds ==
  ASSUME NEW p, NEW q, SingleLeaf(p) = SingleLeaf(q)
  PROVE  p.nonc = q.nonc
<1>1. CASE args.pub_key BY <1>1, LeafBinds DEF SingleLeaf
<1>2. CASE ~args.pub_key
  <2>1. SingleLeaf(p)[1] = p.nonc BY <1>2 DEF SingleLeaf, LeafDraft08
  <2>2. SingleLeaf(q)[1] = q.nonc BY <1>2 DEF SingleLeaf, LeafDraft08
  <2> QED BY <2>1, <2>2
<1> QED BY <1>1, <1>2

\* A new query: its number is that of no request before it.
LEMMA SingleQueryStep ==
  ASSUME TypeInv, SingleInv, args.mode = "single", SingleQuery, UNCHANGED <<vars, args, main, clock>>
  PROVE  SingleInv'
<1>1. PICK q : /\ q = [server |-> args.target, at |-> time, n |-> Cardinality(sent),
                       nonc |-> calculate_chained_nonce(None, FreshNonce(Cardinality(sent)))]
               /\ single' = [single EXCEPT !.pc = "recv", !.request = Some(q)]
               /\ sent' = sent \cup {q}
  BY DEF SingleQuery
<1>2. /\ q.at = time /\ q.n = Cardinality(sent) /\ q.nonc.rand = Cardinality(sent)
  BY <1>1 DEF calculate_chained_nonce, FreshNonce
<1>3. /\ time' = time /\ got' = got /\ accepted' = accepted /\ args' = args /\ single.left > 0
  BY DEF SingleQuery, vars
<1>4. time \in Int /\ IsFiniteSet(sent) /\ Cardinality(sent) \in Nat
  BY ClientAssumption, FS_CardinalityType DEF TypeInv, TypeOK, SingleInv, SentInv
<1>5. q \notin sent BY <1>2, <1>4 DEF SingleInv, SentInv
<1>6. IsFiniteSet(sent') /\ Cardinality(sent') = Cardinality(sent) + 1
  BY <1>1, <1>4, <1>5, FS_AddElement
<1>7. SentInv'
  <2>1. \A x \in sent' : /\ x.at \in Int /\ x.at <= time'
                         /\ x.n \in Nat /\ x.n < Cardinality(sent') /\ x.nonc.rand = x.n
    BY <1>1, <1>2, <1>3, <1>4, <1>6 DEF SingleInv, SentInv
  <2>2. \A x, y \in sent' : x.n = y.n => x = y
    BY <1>1, <1>2, <1>4 DEF SingleInv, SentInv
  <2> QED BY <1>6, <2>1, <2>2 DEF SentInv
<1>8. /\ single'.pc = "recv" /\ single'.request = Some(q) /\ single'.left = single.left
      /\ single'.midpoint = single.midpoint /\ LoopInv'
  <2>1. \A y \in sent : y \in sent' BY <1>1
  <2>2. q \in sent' BY <1>1
  <2>3. Some(q) # None BY SomeIsNotNone
  <2> QED BY <1>1, <1>3, <2>1, <2>2, <2>3 DEF SingleInv, LoopInv
<1>9. \A x : SingleLeaf(x)' = SingleLeaf(x) BY <1>3 DEF SingleLeaf
<1>10. GotInv' BY <1>1, <1>3, <1>9 DEF SingleInv, GotInv
<1>11. AcceptedInv'
  <2>1. \A x : SoundSingle(x) => SoundSingle(x)' BY <1>1, <1>3, <1>9 DEF SoundSingle
  <2>2. Accepted' = Accepted BY <1>3 DEF Accepted
  <2>3. single'.request[1] = q BY <1>8, SomeIsNotNone
  <2>4. \A k \in Accepted : accepted[k].request.n < q.n
    BY <1>2 DEF SingleInv, AcceptedInv, SoundSingle, SentInv
  <2>5. \A k \in Accepted : SoundSingle(accepted[k]) BY DEF SingleInv, AcceptedInv
  <2>6. \A k \in Accepted : SoundSingle(accepted[k])' BY <1>3, <2>1, <2>5
  <2> QED BY <1>3, <1>8, <2>2, <2>3, <2>4, <2>6 DEF SingleInv, AcceptedInv
<1>12. ArgsInv' BY <1>3 DEF SingleInv, ArgsInv
<1> QED BY <1>7, <1>8, <1>10, <1>11, <1>12 DEF SingleInv

\* Steps that leave the requests and the measurements alone.
LEMMA SingleFrame ==
  ASSUME TypeInv, SingleInv, UNCHANGED <<args, sent, accepted>>,
         time' = time \/ time' = time + 1, got' = got,
         \/ single' = single
         \/ single' = [single EXCEPT !.pc = "failed", !.request = None]
  PROVE  SingleInv'
<1>0. time \in Int BY ClientAssumption DEF TypeInv, TypeOK
<1>1. time \in Int /\ time' \in Int /\ time <= time' BY <1>0
<1>2. ArgsInv' BY DEF SingleInv, ArgsInv
<1>3. SentInv' BY <1>1 DEF SingleInv, SentInv
<1>4. \A x : SingleLeaf(x)' = SingleLeaf(x) BY DEF SingleLeaf
<1>5. GotInv' BY <1>1, <1>4 DEF SingleInv, GotInv
<1>6. /\ LoopInv' /\ single'.midpoint = single.midpoint
      /\ single'.pc = "recv" => single' = single
  BY DEF SingleInv, LoopInv
<1>7. Accepted' = Accepted BY DEF Accepted
<1>8. \A k \in Accepted : SoundSingle(accepted[k])'
  BY <1>4 DEF SingleInv, AcceptedInv, SoundSingle
<1>9. AcceptedInv' BY <1>6, <1>7, <1>8 DEF SingleInv, AcceptedInv
<1> QED BY <1>2, <1>3, <1>5, <1>6, <1>9 DEF SingleInv

\* Taking a response: the request it proves is the one that is waited for.
LEMMA SingleReceiveStep ==
  ASSUME TypeInv, SingleInv, args.mode = "single", NEW r \in got, SingleReceive(r),
         UNCHANGED <<vars, args, main, clock>>
  PROVE  SingleInv'
<1>1. PICK q : q = single.request[1] OBVIOUS
<1>2. /\ time' = time /\ got' = got /\ sent' = sent /\ args' = args /\ single.pc = "recv"
  BY DEF SingleReceive, vars
<1>3. CASE Exit /\ accepted' = accepted BY <1>2, <1>3, SingleFrame DEF Exit
<1>4. ASSUME validate_single(q, r),
             single' = [single EXCEPT !.pc = "query", !.left = @ - 1, !.request = None,
                                      !.midpoint = NextMidpoint(r)],
             NEW m, m = [request |-> q, response |-> r, at |-> time],
             accepted' = Append(accepted, m)
      PROVE  SingleInv'
  <2>1. time \in Int BY ClientAssumption DEF TypeInv, TypeOK
  <2>2. q \in sent
    <3>1. single.request # None /\ single.request \in {None} \cup {Some(x) : x \in sent}
      BY <1>2 DEF SingleInv, LoopInv
    <3> QED BY <1>1, <3>1, SomeIsNotNone
  <2>3. r.leaf = SingleLeaf(q) /\ (args.pub_key => r.key = args.target)
    BY <1>4 DEF validate_single, validate, check_dele_signature, check_merkle_proof
  <2>4. r.at \in Int /\ r.at <= time /\ r.midp \in Int BY DEF SingleInv, GotInv
  <2>5. m.request = q /\ m.response = r /\ m.at = time BY <1>4
  <2>6. /\ single'.pc = "query" /\ single'.midpoint = r.midp /\ LoopInv'
    <3>1. single.left - 1 \in Nat BY <1>2 DEF SingleInv, LoopInv
    <3>2. NextMidpoint(r) = r.midp BY DEF NextMidpoint
    <3>3. single' = [single EXCEPT !.pc = "query", !.left = single.left - 1, !.request = None,
                                   !.midpoint = r.midp]
      BY <1>4, <3>2
    <3> QED BY <1>2, <2>4, <3>1, <3>3 DEF SingleInv, LoopInv
  <2>7. ArgsInv' /\ SentInv'
    <3>1. ArgsInv' BY <1>2 DEF SingleInv, ArgsInv
    <3> QED BY <1>2, <3>1 DEF SingleInv, SentInv
  <2>8. \A x : SingleLeaf(x)' = SingleLeaf(x) BY <1>2 DEF SingleLeaf
  <2>9. GotInv' BY <1>2, <2>8 DEF SingleInv, GotInv
  <2>10. \A x : SoundSingle(x) => SoundSingle(x)' BY <1>2, <2>8 DEF SoundSingle
  <2>11. SoundSingle(m)' BY <1>2, <2>1, <2>2, <2>3, <2>4, <2>5, <2>8 DEF SoundSingle
  <2>12. \E S : accepted \in Seq(S) BY DEF SingleInv, AcceptedInv
  <2>13. /\ \E S : Append(accepted, m) \in Seq(S)
         /\ Len(accepted) \in Nat /\ Len(Append(accepted, m)) = Len(accepted) + 1
         /\ \A i \in 1..Len(accepted) : Append(accepted, m)[i] = accepted[i]
         /\ Append(accepted, m)[Len(accepted) + 1] = m
    BY <2>12, Appended, Zenon
  <2>14. /\ Accepted' = Accepted \cup {Len(accepted) + 1} /\ Accepted \subseteq Nat
         /\ \A k \in Accepted : k < Len(accepted) + 1
    BY <1>4, <2>13 DEF Accepted
  <2>15. \A k \in Accepted : SoundSingle(accepted[k]) /\ accepted[k].request.n < q.n
    BY <1>1, <1>2 DEF SingleInv, AcceptedInv
  <2>16. /\ \A k \in Accepted : accepted'[k] = accepted[k]
         /\ accepted'[Len(accepted) + 1] = m /\ Len(accepted') = Len(accepted) + 1
    BY <1>4, <2>13 DEF Accepted
  <2>17. \A k \in Accepted' : SoundSingle(accepted[k])'
    <3>1. \A k \in Accepted : SoundSingle(accepted[k])'
      BY <1>2, <2>8, <2>15, <2>16 DEF SoundSingle
    <3>2. ASSUME NEW k, k = Len(accepted) + 1 PROVE SoundSingle(accepted[k])'
      BY <2>11, <2>16, <3>2 DEF SoundSingle
    <3> QED BY <2>14, <3>1, <3>2
  <2>18. \A j, k \in Accepted' : j < k => accepted'[j].request.n < accepted'[k].request.n
    <3>1. \A j, k \in Accepted : j < k => accepted[j].request.n < accepted[k].request.n
      BY DEF SingleInv, AcceptedInv
    <3>2. PICK n \in Nat : n = Len(accepted) + 1 BY <2>13
    <3> SUFFICES ASSUME NEW j \in Accepted', NEW k \in Accepted', j < k
                 PROVE  accepted'[j].request.n < accepted'[k].request.n
      OBVIOUS
    <3>3. /\ j \in Accepted \/ j = n
          /\ k \in Accepted \/ k = n
          /\ \A i \in Accepted : i \in Nat /\ i < n
      BY <2>14, <3>2, Zenon
    <3>4. CASE j \in Accepted /\ k \in Accepted
      <4>1. accepted[j].request.n < accepted[k].request.n BY <3>1, <3>4, Zenon
      <4> QED BY <2>16, <3>4, <4>1, Zenon
    <3>5. CASE j \in Accepted /\ k = n
      <4>1. accepted[j].request.n < q.n BY <2>15, <3>5, Zenon
      <4>2. accepted'[j] = accepted[j] BY <2>16, <3>5, Zenon
      <4>3. accepted'[k].request = q BY <2>5, <2>16, <3>2, <3>5, Zenon
      <4> QED BY <4>1, <4>2, <4>3, Zenon
    <3>6. CASE j = n
      <4>1. ~(k \in Nat /\ k < n)
        <5>1. \A a, b \in Nat : ~(a < b /\ b < a) /\ ~(a < a) OBVIOUS
        <5> QED BY <3>2, <3>6, <5>1, Zenon
      <4>2. k = n BY <3>3, <4>1, Zenon
      <4>3. \A a \in Nat : ~(a < a) OBVIOUS
      <4> QED BY <3>2, <3>6, <4>2, <4>3, Zenon
    <3> QED BY <3>3, <3>4, <3>5, <3>6, Zenon
  <2>19. accepted' # <<>> /\ accepted'[Len(accepted')].response.midp = r.midp
    BY <2>5, <2>13, <2>16, EmptySeq
  <2>20. AcceptedInv' BY <1>4, <2>6, <2>13, <2>17, <2>18, <2>19 DEF AcceptedInv
  <2> QED BY <2>6, <2>7, <2>9, <2>20 DEF SingleInv
<1> QED BY <1>1, <1>3, <1>4 DEF SingleReceive

\* A new answer proves a request that was sent, and is honest if its key is.
LEMMA SingleAnswerStep ==
  ASSUME TypeInv, SingleInv, args.mode = "single", NEW s \in Servers, NEW q \in sent,
         SingleAnswer(s, q), UNCHANGED <<vars, args, main, clock>>
  PROVE  SingleInv'
<1>1. /\ time' = time /\ args' = args /\ sent' = sent /\ accepted' = accepted /\ single' = single
  BY DEF SingleAnswer, vars
<1>2. time \in Int BY ClientAssumption DEF TypeInv, TypeOK
<1>3. q.at <= time BY DEF SingleInv, SentInv
<1>4. PICK r : /\ got' = got \cup {r}
               /\ r.at = time /\ r.leaf = SingleLeaf(q) /\ r.midp \in Int
               /\ r.key \in Honest => time - Radius <= r.midp /\ r.midp <= time + Radius
  <2>1. ASSUME NEW skew \in Skews, NEW r,
               r = [key |-> s, midp |-> time + skew, radi |-> Radius, leaf |-> SingleLeaf(q),
                    sound |-> TRUE, at |-> time],
               got' = got \cup {r}
        PROVE  /\ r.at = time /\ r.leaf = SingleLeaf(q) /\ r.midp \in Int
               /\ r.key \in Honest => time - Radius <= r.midp /\ r.midp <= time + Radius
    <3>1. skew \in Int /\ -Radius <= skew /\ skew <= Radius /\ Radius \in Nat BY ClientAssumption
    <3>2. r.at = time /\ r.leaf = SingleLeaf(q) /\ r.midp = time + skew BY <2>1
    <3> QED BY <1>2, <3>1, <3>2
  <2>2. ASSUME NEW midp \in Midpoints, NEW radi \in Radii, NEW sound \in BOOLEAN, NEW r,
               r = [key |-> s, midp |-> midp, radi |-> radi, leaf |-> SingleLeaf(q),
                    sound |-> sound, at |-> time],
               s \notin Honest
        PROVE  /\ r.at = time /\ r.leaf = SingleLeaf(q) /\ r.midp \in Int /\ r.key \notin Honest
    <3>1. midp \in Int BY ClientAssumption
    <3> QED BY <2>2, <3>1
  <2>3. CASE s \in Honest /\ \E skew \in Skews :
               got' = got \cup {[key |-> s, midp |-> time + skew, radi |-> Radius,
                                 leaf |-> SingleLeaf(q), sound |-> TRUE, at |-> time]}
    BY <2>1, <2>3
  <2>4. CASE s \notin Honest /\ \E midp \in Midpoints, radi \in Radii, sound \in BOOLEAN :
               got' = got \cup {[key |-> s, midp |-> midp, radi |-> radi,
                                 leaf |-> SingleLeaf(q), sound |-> sound, at |-> time]}
    <3>1. PICK midp \in Midpoints, radi \in Radii, sound \in BOOLEAN :
            got' = got \cup {[key |-> s, midp |-> midp, radi |-> radi,
                              leaf |-> SingleLeaf(q), sound |-> sound, at |-> time]}
      BY <2>4
    <3>2. PICK r : /\ r = [key |-> s, midp |-> midp, radi |-> radi, leaf |-> SingleLeaf(q),
                           sound |-> sound, at |-> time]
                   /\ got' = got \cup {r}
      BY <3>1
    <3>3. r.at = time /\ r.leaf = SingleLeaf(q) /\ r.midp \in Int /\ r.key \notin Honest
      BY <2>2, <2>4, <3>2
    <3> QED BY <3>2, <3>3
  <2> QED BY <2>3, <2>4 DEF SingleAnswer
<1>5. \A x : SingleLeaf(x)' = SingleLeaf(x) BY <1>1 DEF SingleLeaf
<1>6. GotInv' BY <1>1, <1>2, <1>3, <1>4, <1>5 DEF SingleInv, GotInv
<1>7. Accepted' = Accepted BY <1>1 DEF Accepted
<1>8. \A k \in Accepted : SoundSingle(accepted[k])'
  BY <1>1, <1>4, <1>5 DEF SingleInv, AcceptedInv, SoundSingle
<1>9. AcceptedInv' BY <1>1, <1>7, <1>8 DEF SingleInv, AcceptedInv
<1>10. ArgsInv' /\ LoopInv' BY <1>1 DEF SingleInv, ArgsInv, LoopInv
<1>11. SentInv' BY <1>1 DEF SingleInv, SentInv
<1> QED BY <1>6, <1>9, <1>10, <1>11 DEF SingleInv

\* The queries of one server: the inductive step.
LEMMA SingleInductive ==
  ASSUME TypeInv, SingleInv, [MainNext]_allVars
  PROVE  SingleInv'
<1>1. CASE args.mode = "multiple" /\ [Next]_vars /\ UNCHANGED mainVars
  <2>1. time' = time \/ time' = time + 1
    BY <1>1 DEF Next, Step, World, Terminated, Choose, Query, Receive, Fail, Check, Reported, Retry,
                Post, Answer, ReportFromElsewhere, Tick, vars
  <2> QED BY <1>1, <2>1, SingleFrame DEF mainVars, singleVars
<1>2. CASE args.mode = "single" /\ SingleStep /\ UNCHANGED <<vars, args, main, clock>>
  <2>1. CASE SingleQuery BY <1>2, <2>1, SingleQueryStep
  <2>2. ASSUME NEW r \in got, SingleReceive(r) PROVE SingleInv' BY <1>2, <2>2, SingleReceiveStep
  <2>3. CASE SingleFails BY <1>2, <2>3, SingleFrame DEF SingleFails, Exit, vars
  <2> QED BY <1>2, <2>1, <2>2, <2>3 DEF SingleStep
<1>3. ASSUME NEW b \in BOOLEAN, Finish(b) \/ SetSystemClock(b), UNCHANGED vars PROVE SingleInv'
  BY <1>3, SingleFrame DEF Finish, SetSystemClock, singleVars, vars
<1>4. ASSUME args.mode = "single", NEW s \in Servers, NEW q \in sent, SingleAnswer(s, q),
             UNCHANGED <<vars, args, main, clock>>
      PROVE  SingleInv'
  BY <1>4, SingleAnswerStep
<1>5. CASE Tick /\ UNCHANGED mainVars BY <1>5, SingleFrame DEF Tick, mainVars, singleVars
<1>6. CASE UNCHANGED allVars BY <1>6, SingleFrame DEF allVars, vars, mainVars, singleVars
<1> QED BY <1>1, <1>2, <1>3, <1>4, <1>5, <1>6
        DEF MainNext, MainStep, MainWorld, MainTerminated, Next

\* Initially no query was made.
LEMMA SingleInitial == MainInit => SingleInv
<1> SUFFICES ASSUME MainInit PROVE SingleInv OBVIOUS
<1>1. /\ sent = {} /\ got = {} /\ accepted = <<>> /\ Len(<<>>) = 0 /\ <<>> \in Seq({})
  BY DEF MainInit
<1>2. args.mode \in {"single", "multiple"} /\ (args.mode = "single" => args.num_requests \in Nat)
  BY MainAssumption DEF MainInit
<1>3. /\ single.pc = "query" /\ single.request = None /\ single.midpoint = 0
      /\ LoopInv
  BY <1>2 DEF MainInit, LoopInv
<1>4. IsFiniteSet(sent) BY <1>1, FS_EmptySet
<1>5. \E S : accepted \in Seq(S) BY <1>1
<1>6. AcceptedInv BY <1>1, <1>3, <1>5 DEF AcceptedInv, Accepted
<1> QED BY <1>1, <1>2, <1>3, <1>4, <1>6 DEF SingleInv, ArgsInv, SentInv, GotInv

\* What is accepted is fresh: its leaf is that of no other request.
LEMMA AcceptedAreFresh ==
  ASSUME SingleInv
  PROVE  /\ SingleIsFresh /\ DOMAIN accepted = Accepted
         /\ \A k \in Accepted : accepted[k].request.at <= accepted[k].response.at
<1>1. DOMAIN accepted = Accepted /\ Accepted \subseteq Int
  BY DEF SingleInv, AcceptedInv, Accepted
<1>2. \A k \in Accepted : SoundSingle(accepted[k]) BY DEF SingleInv, AcceptedInv
<1>3. \A k \in Accepted : accepted[k].request.at <= accepted[k].response.at
  <2> SUFFICES ASSUME NEW k \in Accepted
               PROVE  accepted[k].request.at <= accepted[k].response.at
    OBVIOUS
  <2>1. PICK q \in sent : accepted[k].response.leaf = SingleLeaf(q)
                          /\ q.at <= accepted[k].response.at
    BY <1>2 DEF SoundSingle, SingleInv, GotInv
  <2>2. q.nonc = accepted[k].request.nonc
    BY <1>2, <2>1, SingleLeafBinds DEF SoundSingle
  <2>3. q = accepted[k].request BY <1>2, <2>2 DEF SoundSingle, SingleInv, SentInv
  <2> QED BY <2>1, <2>3
<1>4. \A j, k \in Accepted : j # k => accepted[j].response # accepted[k].response
  <2> SUFFICES ASSUME NEW j \in Accepted, NEW k \in Accepted, j # k,
                      accepted[j].response = accepted[k].response
               PROVE  FALSE
    OBVIOUS
  <2>1. accepted[j].request.nonc = accepted[k].request.nonc
    BY <1>2, SingleLeafBinds DEF SoundSingle
  <2>2. accepted[j].request.n = accepted[k].request.n /\ accepted[j].request.n \in Nat
    BY <1>2, <2>1 DEF SoundSingle, SingleInv, SentInv
  <2> QED BY <1>1, <2>2 DEF SingleInv, AcceptedInv
<1>5. SingleIsFresh
  <2> SUFFICES ASSUME NEW k \in Accepted
               PROVE  LET m == accepted[k]
                      IN  /\ m.request.at <= m.response.at /\ m.response.at <= m.at
                          /\ args.pub_key => m.response.key = args.target
                          /\ m.response.leaf = SingleLeaf(m.request)
                          /\ \A j \in DOMAIN accepted : j # k => accepted[j].response # m.response
    BY <1>1 DEF SingleIsFresh
  <2> QED BY <1>1, <1>2, <1>3, <1>4 DEF SoundSingle
<1> QED BY <1>1, <1>3, <1>5

-----------------------------------------------------------------------------
\* The clock is set at the very end, to the time that the query has returned.
ClockInv ==
  /\ main # "query" => QueryEnds
  /\ main = "set_clock" => Returned # None
  /\ clock # None => main = "exited" /\ clock = Returned /\ Plausible(clock[1])

\* When the query has ended nothing changes what it has returned.
LEMMA ReturnedIsFinal ==
  ASSUME ArgsInv, QueryEnds, [MainNext]_allVars
  PROVE  QueryEnds' /\ Returned' = Returned
<1> USE DEF QueryEnds, Returned, SingleReturns
<1>1. CASE args.mode = "multiple" /\ Step /\ UNCHANGED mainVars
  BY <1>1 DEF Step, Choose, Query, Receive, Fail, Check, Reported, Retry, Post
<1>2. CASE args.mode = "multiple" /\ World /\ UNCHANGED mainVars
  BY <1>2 DEF World, Answer, ReportFromElsewhere, Tick, mainVars, singleVars
<1>3. CASE args.mode = "single" /\ SingleStep
  <2>1. single.pc = "recv" \/ (single.pc = "query" /\ single.left > 0)
    <3>1. SingleQuery => single.pc = "query" /\ single.left > 0 BY DEF SingleQuery
    <3>2. \A r : SingleReceive(r) => single.pc = "recv" BY DEF SingleReceive
    <3>3. SingleFails => single.pc = "recv" \/ (single.pc = "query" /\ single.left > 0)
      BY DEF SingleFails
    <3> QED BY <1>3, <3>1, <3>2, <3>3 DEF SingleStep
  <2> QED BY <1>3, <2>1
<1>4. ASSUME NEW b \in BOOLEAN, Finish(b) \/ SetSystemClock(b), UNCHANGED vars
      PROVE  QueryEnds' /\ Returned' = Returned
  BY <1>4 DEF Finish, SetSystemClock, singleVars, vars
<1>5. ASSUME args.mode = "single", NEW s \in Servers, NEW q \in sent, SingleAnswer(s, q)
      PROVE  FALSE
  BY <1>5 DEF SingleAnswer
<1>6. CASE Tick /\ UNCHANGED mainVars BY <1>6 DEF Tick, mainVars, singleVars
<1>7. CASE UNCHANGED allVars BY <1>7 DEF allVars, vars, mainVars, singleVars
<1> QED BY <1>1, <1>2, <1>3, <1>4, <1>5, <1>6, <1>7
        DEF MainNext, MainStep, MainWorld, MainTerminated

LEMMA ClockInductive ==
  ASSUME ArgsInv, ClockInv, [MainNext]_allVars
  PROVE  ClockInv'
<1>1. CASE UNCHANGED <<main, clock>>
  BY <1>1, ReturnedIsFinal DEF ClockInv, Plausible
<1>2. ASSUME NEW b \in BOOLEAN, Finish(b), UNCHANGED vars PROVE ClockInv'
  <2>1. QueryEnds' /\ Returned' = Returned BY <1>2, ReturnedIsFinal DEF Finish
  <2>2. clock' = None /\ (main' = "set_clock" => Returned # None)
    BY <1>2 DEF Finish, ClockInv
  <2> QED BY <2>1, <2>2 DEF ClockInv
<1>3. ASSUME NEW b \in BOOLEAN, SetSystemClock(b), UNCHANGED vars PROVE ClockInv'
  <2>1. QueryEnds' /\ Returned' = Returned BY <1>3, ReturnedIsFinal DEF SetSystemClock, ClockInv
  <2>2. main' = "exited" /\ (clock' # None => clock' = Returned /\ Plausible(Returned[1]))
    BY <1>3 DEF SetSystemClock
  <2> QED BY <2>1, <2>2 DEF ClockInv, Plausible
<1> QED BY <1>1, <1>2, <1>3
        DEF MainNext, MainStep, MainWorld, MainTerminated, mainVars, allVars

\* The invariant of the whole program.
ProgramInv == TypeInv /\ MidpointInv /\ SingleInv /\ ClockInv

LEMMA ProgramSafe == MainSpec => []ProgramInv
<1>1. MainInit => ProgramInv
  <2> SUFFICES ASSUME MainInit PROVE ProgramInv OBVIOUS
  <2>1. Init /\ main = "query" /\ clock = None BY DEF MainInit
  <2>2. TypeInv /\ MidpointInv BY <2>1, TypeInitial DEF Init, MidpointInv
  <2>3. ClockInv BY <2>1 DEF ClockInv
  <2> QED BY <2>2, <2>3, SingleInitial DEF ProgramInv
<1>2. ProgramInv /\ [MainNext]_allVars => ProgramInv'
  BY MainStepsAreSteps, TypeInductive, MidpointInductive, SingleInductive, ClockInductive
  DEF ProgramInv, SingleInv
<1> QED BY <1>1, <1>2, PTL DEF MainSpec

\* The answers that the queries of one server accept are fresh, each for its own
\* request, however many queries share the socket and whatever it may read.
THEOREM SingleFreshness == MainSpec => []SingleIsFresh
<1>1. ProgramInv => SingleIsFresh BY AcceptedAreFresh DEF ProgramInv
<1> QED BY <1>1, ProgramSafe, PTL

\* The clock is only ever set to a time that somebody vouches for.
THEOREM ClockTrust == MainSpec => []ClockIsTrusted
<1>1. ProgramInv => ClockIsTrusted
  <2> SUFFICES ASSUME ProgramInv, clock # None PROVE ClockIsTrusted BY DEF ClockIsTrusted
  <2>1. clock = Returned /\ Plausible(clock[1]) /\ QueryEnds BY DEF ProgramInv, ClockInv
  <2>2. CASE args.mode = "multiple"
    <3>1. midpoint # None /\ clock = midpoint BY <2>1, <2>2 DEF Returned
    <3> QED BY <2>2, <3>1 DEF ProgramInv, MidpointInv, ClockIsTrusted
  <2>3. CASE args.mode # "multiple"
    <3>1. clock = Some(single.midpoint) BY <2>1, <2>3 DEF Returned
    <3>2. clock[1] = single.midpoint /\ clock[1] # 0
      BY <2>1, <3>1, SomeIsNotNone, MainAssumption DEF Plausible
    <3>3. accepted # <<>> /\ clock[1] = accepted[Len(accepted)].response.midp
      BY <3>2 DEF ProgramInv, SingleInv, AcceptedInv
    <3>4. Len(accepted) \in Accepted
      BY <3>3, EmptySeq, LenProperties DEF ProgramInv, SingleInv, AcceptedInv, Accepted
    <3>5. PICK m : m = accepted[Len(accepted)] OBVIOUS
    <3>6. m.request.at <= m.response.at BY <3>4, <3>5, AcceptedAreFresh DEF ProgramInv
    <3>7. SoundSingle(m) BY <3>4, <3>5 DEF ProgramInv, SingleInv, AcceptedInv
    <3>8. /\ m.response.at \in Int /\ m.response.midp \in Int /\ m.request.at \in Int
          /\ m.at \in Int /\ m.response.at <= m.at
          /\ m.response.key \in Honest =>
               m.response.at - Radius <= m.response.midp /\ m.response.midp <= m.response.at + Radius
      BY <3>7 DEF SoundSingle, ProgramInv, SingleInv, GotInv, SentInv
    <3>9. args.pub_key /\ args.target \in Honest =>
            clock[1] >= m.request.at - Radius /\ clock[1] <= m.at + Radius
      <4>1. Radius \in Int BY ClientAssumption
      <4>2. clock[1] = m.response.midp BY <3>3, <3>5
      <4>3. args.pub_key => m.response.key = args.target BY <3>7 DEF SoundSingle
      <4> QED BY <3>6, <3>8, <4>1, <4>2, <4>3
    <3> QED BY <2>3, <3>3, <3>5, <3>9 DEF ClockIsTrusted
  <2> QED BY <2>2, <2>3
<1> QED BY <1>1, ProgramSafe, PTL
=============================================================================
