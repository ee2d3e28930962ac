------------------------------- MODULE Client -------------------------------
(***************************************************************************)
(* The client's measurement of several servers: query_multiple_servers of  *)
(* roughenough-client/src/main.rs, MeasurementSequence (sequence.rs), the  *)
(* validation of responses and of their causal order (validation.rs), and  *)
(* the submission of reports to the reporting server.                      *)
(*                                                                         *)
(* Servers keep true time up to their radius, or say what they like.  The  *)
(* network loses, delays and duplicates; a client's socket takes datagrams *)
(* from any address (transport.rs), so that any response may be read in    *)
(* any turn.                                                               *)
(***************************************************************************)
EXTENDS MalfeasanceReport, FiniteSets

CONSTANTS
  Servers,            \* the server list
  Honest,             \* those whose clock is within Radius of true time
  NumServers,         \* Args::num_unique_servers
  Rounds,             \* Args::num_measurement_rounds
  Radius,             \* RADI of an honest server
  Skews,              \* how far the clock of an honest server may be off
  Midpoints, Radii,   \* what other servers may claim
  U64,                \* 2^64: midpoints and bounds are u64
  MinTimestamp, MaxTimestamp,  \* the range of jiff::Timestamp
  ViolationRetries,   \* Args::causality_violation_retries
  AllowUntrusted,     \* Args::allow_untrusted_time
  SendReport,         \* Args::send_report, with a reporting URL in the list
  ReportRetries,      \* Args::report_retries
  StartTime,          \* true time at the start
  MaxTime,            \* bound: last value of true time
  MaxAnswers,         \* bound: responses that servers send in one attempt
  MaxForeign          \* bound: reports the reporting server gets from elsewhere

MIN_SERVERS == 3

ASSUME ClientAssumption ==
  /\ Honest \subseteq Servers
  /\ NumServers \in Nat /\ NumServers >= MIN_SERVERS
  /\ Rounds \in Nat \ {0}
  /\ Radius \in Nat \ {0} /\ Skews \subseteq Int
  /\ \A k \in Skews : -Radius <= k /\ k <= Radius
  /\ Midpoints \subseteq Nat /\ Radii \subseteq Nat
  /\ U64 \in Nat /\ \A m \in Midpoints : m < U64
  /\ \A r \in Radii : r < U64
  /\ StartTime \in Nat /\ MaxTime \in Nat /\ StartTime <= MaxTime
  /\ StartTime >= 2 * Radius /\ MaxTime + 2 * Radius < U64
  /\ ViolationRetries \in Nat /\ ReportRetries \in Nat
  /\ MaxAnswers \in Nat /\ MaxForeign \in Nat
  /\ AllowUntrusted \in BOOLEAN /\ SendReport \in BOOLEAN

VARIABLES
  time,           \* true time
  pc,             \* "choose", "query", "recv", "check", "report", "retry", "done"
  attempt,        \* 1..=max_attempts
  clients,        \* the servers chosen, in order
  request,        \* Option: the request that is waited for
  measurements,   \* Vec<Measurement> of this attempt
  rands,          \* random values drawn so far
  asked, answers, \* requests and responses on the network
  violations,     \* violations that are still to be reported, as pairs of positions
  tries,          \* failed submissions of the first of them
  stored,         \* InMemoryStorage::reports: report by id
  foreign,        \* how much of MaxForeign is used up
  midpoint        \* Option: what query_multiple_servers returned

run     == <<clients, request, measurements, rands, asked, answers>>
reports == <<violations, tries, stored, foreign>>
vars == <<time, pc, attempt, run, reports, midpoint>>

-----------------------------------------------------------------------------
\* choose_random: n different servers in random order.
choose_random(n) == {c \in [1..n -> Servers] : \A i, j \in 1..n : i # j => c[i] # c[j]}

Turns == Rounds * NumServers

\* The client whose turn it is: all of them in order, round after round.
Current == clients[(Len(measurements) % NumServers) + 1]

\* Mutant: the chain starts at the first response every time.
prior_response_First ==
  IF measurements = <<>> THEN None ELSE Some(measurements[1].response)

prior_response ==
  IF measurements = <<>> THEN None ELSE Some(measurements[Len(measurements)].response)

Init ==
  /\ time = StartTime /\ pc = "choose" /\ attempt = 1
  /\ clients = <<>> /\ request = None /\ measurements = <<>> /\ rands = 0
  /\ asked = {} /\ answers = {}
  /\ violations = {} /\ tries = 0 /\ stored = <<>> /\ foreign = 0
  /\ midpoint = None

\* clients_from_list and MeasurementSequence::new: a new socket per client, which
\* answers to an earlier attempt do not reach.
Choose(order) ==
  /\ pc = "choose"
  /\ clients' = order
  /\ request' = None /\ measurements' = <<>> /\ asked' = {} /\ answers' = {}
  /\ pc' = "query"
  /\ UNCHANGED <<time, attempt, rands, reports, midpoint>>

\* query, first half: the nonce, the request, send.
Query ==
  /\ pc = "query"
  /\ LET q == [server |-> Current, nonc |-> calculate_chained_nonce(prior_response, rands),
               at |-> time]
     IN  request' = Some(q) /\ asked' = asked \cup {q}
  /\ rands' = rands + 1
  /\ pc' = "recv"
  /\ UNCHANGED <<time, attempt, clients, measurements, answers, reports, midpoint>>

\* query, second half: whatever datagram is read is the answer; if it is not valid
\* the program exits.  rand_value is None for the first nonce of the sequence.
Receive(r) ==
  /\ pc = "recv" /\ r \in answers
  /\ LET q == request[1]
         m == [request |-> q, response |-> r, at |-> time,
               rand_value |-> IF q.nonc.prior = None THEN None ELSE Some(q.nonc.rand)]
     IN  IF validate(q.server, Leaf(q), r)
         THEN /\ measurements' = Append(measurements, m)
              /\ pc' = IF Len(measurements) + 1 = Turns THEN "check" ELSE "query"
         ELSE pc' = "done" /\ UNCHANGED measurements
  /\ request' = None
  /\ UNCHANGED <<time, attempt, clients, rands, asked, answers, reports, midpoint>>

\* Lookup, send or receive fails, nothing comes in time, or what comes does not
\* parse: process::exit(-1).
Fail ==
  /\ pc \in {"choose", "query", "recv"}
  /\ pc' = "done"
  /\ request' = None
  /\ UNCHANGED <<time, attempt, clients, measurements, rands, asked, answers, reports, midpoint>>

-----------------------------------------------------------------------------
\* u64 addition and subtraction, which wrap in a release build.
u64_sub(a, b) == IF a >= b THEN a - b ELSE a - b + U64
u64_add(a, b) == IF a + b < U64 THEN a + b ELSE a + b - U64

lower_bound(m) == u64_sub(m.response.midp, m.response.radi)
upper_bound(m) == u64_add(m.response.midp, m.response.radi)

\* Mutant: the radii are forgotten.
Violates_Midpoints(i, j) == measurements[i].response.midp > measurements[j].response.midp

Violates(i, j) == lower_bound(measurements[i]) > upper_bound(measurements[j])

\* Mutant: only against the first measurement.
Compared_First(i, j) == i = 1 /\ i < j

Compared(i, j) == i < j

\* validate_causality: all pairs (i, j), i before j.
validate_causality ==
  {p \in (1..Len(measurements)) \X (1..Len(measurements)) :
     Compared(p[1], p[2]) /\ Violates(p[1], p[2])}

\* The order of its two loops.
Before(p, q) == p[1] < q[1] \/ (p[1] = q[1] /\ p[2] <= q[2])

last_midpoint == measurements[Turns].response.midp

\* display_violation casts to i64 and unwraps Timestamp::from_second, which panics
\* outside its range.
as_i64(x) == IF x < U64 \div 2 THEN x ELSE x - U64
Displayable(x) == MinTimestamp <= as_i64(x) /\ as_i64(x) <= MaxTimestamp
display_panics(p) ==
  \E x \in {lower_bound(measurements[p[1]]), measurements[p[1]].response.midp,
            measurements[p[2]].response.midp, upper_bound(measurements[p[2]])} : ~Displayable(x)

\* Back from run(): return the time, or display all violations and go on to the
\* reports and the next attempt.
Check ==
  /\ pc = "check"
  /\ LET found == validate_causality
     IN  IF found = {}
         THEN midpoint' = Some(last_midpoint) /\ pc' = "done" /\ UNCHANGED violations
         ELSE IF \E p \in found : display_panics(p)
         THEN pc' = "done" /\ UNCHANGED <<midpoint, violations>>
         ELSE /\ pc' = IF SendReport THEN "report" ELSE "retry"
              /\ violations' = IF SendReport THEN found ELSE {}
              /\ UNCHANGED midpoint
  /\ tries' = 0
  /\ UNCHANGED <<time, attempt, run, stored, foreign>>

\* One POST of submit() for the next violation p: it may not reach the server, and
\* the answer may not come back.  A rejected report is an error like any other, and
\* is tried again.
Post(p, reached, answered) ==
  /\ pc = "report" /\ \A q \in violations : Before(p, q)
  /\ LET report   == from_violation(measurements[p[1]], measurements[p[2]])
         accepted == reached /\ validate_report(report)
     IN  /\ stored' = IF accepted THEN Append(stored, report) ELSE stored
         /\ IF (accepted /\ answered) \/ tries = ReportRetries
            THEN violations' = violations \ {p} /\ tries' = 0
            ELSE tries' = tries + 1 /\ UNCHANGED violations
  /\ UNCHANGED <<time, pc, attempt, run, foreign, midpoint>>

Reported ==
  /\ pc = "report" /\ violations = {}
  /\ pc' = "retry"
  /\ UNCHANGED <<time, attempt, run, reports, midpoint>>

Trusted == AllowUntrusted

MoreAttempts == attempt < 1 + ViolationRetries

\* Violations: another attempt, or the untrusted time, or exit(1).
Retry ==
  /\ pc = "retry"
  /\ IF MoreAttempts
     THEN attempt' = attempt + 1 /\ pc' = "choose" /\ UNCHANGED midpoint
     ELSE /\ midpoint' = IF Trusted THEN Some(last_midpoint) ELSE None
          /\ pc' = "done" /\ UNCHANGED attempt
  /\ UNCHANGED <<time, run, reports>>

-----------------------------------------------------------------------------
\* An honest server answers a request to it (module Worker), once or repeatedly.
AnswerHonestly(s, q, skew) ==
  /\ s \in Honest /\ q.server = s
  /\ answers' = answers \cup
       {[key |-> s, midp |-> time + skew, radi |-> Radius, leaf |-> Leaf(q), sound |-> TRUE,
         at |-> time]}

\* Any other server answers any request it gets to see, with its own key.
AnswerAnyhow(s, q, midp, radi, sound) ==
  /\ s \notin Honest
  /\ answers' = answers \cup
       {[key |-> s, midp |-> midp, radi |-> radi, leaf |-> Leaf(q), sound |-> sound,
         at |-> time]}

Answer(s, q) ==
  /\ pc = "recv" /\ q \in asked /\ Cardinality(answers) < MaxAnswers
  /\ \/ \E skew \in Skews : AnswerHonestly(s, q, skew)
     \/ \E midp \in Midpoints, radi \in Radii, sound \in BOOLEAN :
          AnswerAnyhow(s, q, midp, radi, sound)
  /\ UNCHANGED <<time, pc, attempt, clients, request, measurements, rands, asked, reports,
                 midpoint>>

\* handle_report for a report that somebody else has put together from the same
\* measurements: any two of them in any order.  (It may come at any time; what the
\* client does next does not depend on it.)
ReportFromElsewhere(i, j) ==
  /\ pc = "done" /\ foreign < MaxForeign
  /\ foreign' = foreign + 1
  /\ LET report == from_violation(measurements[i], measurements[j])
     IN  stored' = IF validate_report(report) THEN Append(stored, report) ELSE stored
  /\ UNCHANGED <<time, pc, attempt, run, violations, tries, midpoint>>

Tick ==
  /\ time < MaxTime
  /\ time' = time + 1
  /\ UNCHANGED <<pc, attempt, run, reports, midpoint>>

Terminated == pc = "done" /\ UNCHANGED vars

Step ==
  \/ (\E order \in choose_random(NumServers) : Choose(order)) \/ Query
  \/ (\E r \in answers : Receive(r)) \/ Fail
  \/ Check \/ Reported \/ Retry
  \/ \E p \in violations, reached, answered \in BOOLEAN : Post(p, reached, answered)

World ==
  \/ \E s \in Servers, q \in asked : Answer(s, q)
  \/ \E i, j \in DOMAIN measurements : ReportFromElsewhere(i, j)
  \/ Tick

Next == Step \/ World \/ Terminated

\* The client waits in recv and in POST, both of which time out (Fail, Post): its
\* steps are weakly fair.  Nothing is assumed of servers and network.
Spec == Init /\ [][Next]_vars /\ WF_vars(Step)

-----------------------------------------------------------------------------
\* Type invariant of the client and the reporting server.
TypeOK ==
  /\ time \in StartTime..MaxTime
  /\ pc \in {"choose", "query", "recv", "check", "report", "retry", "done"}
  /\ attempt \in 1..(1 + ViolationRetries)
  /\ Len(measurements) <= Turns /\ rands \in Nat
  /\ pc \in {"check", "report", "retry"} => Len(measurements) = Turns
  /\ pc = "recv" <=> request # None
  /\ tries \in 0..ReportRetries /\ foreign \in 0..MaxForeign

\* What the client takes for the answer of a server was signed by that server
\* between the moment it sent this very request and the moment it read the answer,
\* whatever else the network brought to its socket: a late or duplicated answer to
\* an earlier turn, or one of another server, is never taken for it.
AcceptedIsFresh ==
  \A k \in DOMAIN measurements :
    LET m == measurements[k]
    IN  /\ m.response.key = m.request.server
        /\ m.request.at <= m.response.at /\ m.response.at <= m.at

\* The sequence is one unbroken chain: each request was made from the response
\* before it, so that their order can be proved to others.
ChainUnbroken ==
  \A k \in DOMAIN measurements :
    validate_chaining(from_measurement(measurements[k]),
                      IF k = 1 THEN None ELSE Some(measurements[k - 1].response))

IsHonest(k) == measurements[k].request.server \in Honest

\* No two honest servers are ever in violation, however long answers take: of the
\* pairs that validate_causality finds at least one is dishonest.
HonestNeverAccused ==
  \A i, j \in DOMAIN measurements : i < j /\ IsHonest(i) /\ IsHonest(j) => ~Violates(i, j)

\* What the causality check is for: when it finds nothing, an answer between those of
\* two honest servers cannot be off by much, whoever gave it.  Its interval reaches
\* neither the time before the first nor the time after the last by more than the
\* uncertainty of the honest ones.
SandwichedTimeIsBounded ==
  pc = "done" /\ Len(measurements) = Turns /\ validate_causality = {} =>
    \A i, k, j \in DOMAIN measurements :
      i < k /\ k < j /\ IsHonest(i) /\ IsHonest(j) =>
        LET r == measurements[k].response
        IN  /\ r.midp + r.radi >= measurements[i].request.at - 2 * Radius
            /\ r.midp - r.radi <= measurements[j].at + 2 * Radius

\* Time from a sequence with violations is returned (and the clock set from it)
\* only under --allow-untrusted-time.
NoUntrustedTime ==
  midpoint # None /\ ~AllowUntrusted => Len(measurements) = Turns /\ validate_causality = {}

\* A stored report is "cryptographic proof that a sequence of responses arrived in
\* that order" (draft 14, 8.4), also when it was put together by somebody else: its
\* second response was asked for after the first one had been signed.
StoredReportsProveOrder ==
  \A k \in DOMAIN stored : stored[k][1].response.at <= stored[k][2].request.at

\* "Extracts the chain of measurements that demonstrates the violation"
\* (reporting.rs:93): a report that the client makes from a violation is one that the
\* reporting server accepts.
ReportsAreAcceptable ==
  \A p \in violations :
    validate_report(from_violation(measurements[p[1]], measurements[p[2]]))
=============================================================================
