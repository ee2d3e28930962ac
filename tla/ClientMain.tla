----------------------------- MODULE ClientMain -----------------------------
(***************************************************************************)
(* The client program (roughenough-client/src/main.rs): a measurement of   *)
(* several servers (module Client), or num_requests queries of one server, *)
(* with its public key or without (client.rs); then the system clock.      *)
(***************************************************************************)
EXTENDS Client

CONSTANTS
  MaxRequests,   \* bound: Args::num_requests
  ClockMin       \* the midpoint that set_system_clock must exceed

ASSUME MainAssumption == MaxRequests \in Nat /\ ClockMin \in Nat

VARIABLES
  args,      \* [mode, target, pub_key, num_requests]
  main,      \* "query", "set_clock" or "exited"
  single,    \* query_single_server: [pc, left, request, midpoint]
  sent, got, \* its requests, and the responses that its socket may read
  accepted,  \* history: the measurements it made
  clock      \* Option: what the system clock was set to

singleVars == <<single, sent, got, accepted>>
mainVars == <<args, main, singleVars, clock>>
allVars == <<vars, mainVars>>

\* Client::builder, build: one socket for all queries, and with a key the commitment
\* to it in requests of draft 14.
MainInit ==
  /\ Init
  /\ args \in [mode : {"single"}, target : Servers, pub_key : BOOLEAN,
               num_requests : 0..MaxRequests]
              \cup [mode : {"multiple"}]
  /\ main = "query"
  /\ single = [pc |-> "query", request |-> None, midpoint |-> 0,
               left |-> IF args.mode = "single" THEN args.num_requests ELSE 0]
  /\ sent = {} /\ got = {} /\ accepted = <<>> /\ clock = None

-----------------------------------------------------------------------------
\* Mutant: every query has the same nonce.
FreshNonce_Same(n) == 0

\* create_request: random_bytes.
FreshNonce(n) == n

\* What an answer must prove: without a key, a request of draft 14 has no SRV.
SingleLeaf(q) == IF args.pub_key THEN Leaf(q) ELSE LeafDraft08(q)

\* query_raw, first half: create_request and send_request.
SingleQuery ==
  /\ single.pc = "query" /\ single.left > 0
  /\ LET q == [server |-> args.target, at |-> time, n |-> Cardinality(sent),
               nonc |-> calculate_chained_nonce(None, FreshNonce(Cardinality(sent)))]
     IN  /\ single' = [single EXCEPT !.pc = "recv", !.request = Some(q)]
         /\ sent' = sent \cup {q}
  /\ UNCHANGED <<got, accepted>>

\* ResponseValidator::new and new_with_key: without a key nothing is known about who
\* has signed.
validate_single(q, r) ==
  validate(IF args.pub_key THEN args.target ELSE r.key, SingleLeaf(q), r)

\* Mutant: the first answer is what counts.
NextMidpoint_First(r) == IF accepted = <<>> THEN r.midp ELSE single.midpoint

\* midpoint = measurement.midpoint()
NextMidpoint(r) == r.midp

Exit == single' = [single EXCEPT !.pc = "failed", !.request = None]

\* query_raw, second half, and the rest of the loop: whatever datagram is read is
\* the answer; the program exits when it is not valid, and panics when its time
\* cannot be displayed.
SingleReceive(r) ==
  /\ single.pc = "recv" /\ r \in got
  /\ LET q == single.request[1]
     IN  IF validate_single(q, r) /\ Displayable(r.midp)
         THEN /\ single' = [single EXCEPT !.pc = "query", !.left = @ - 1, !.request = None,
                                          !.midpoint = NextMidpoint(r)]
              /\ accepted' = Append(accepted, [request |-> q, response |-> r, at |-> time])
         ELSE Exit /\ UNCHANGED accepted
  /\ UNCHANGED <<sent, got>>

\* Mutant: no read timeout on the socket.
SingleFails_Blocked == single.pc = "query" /\ single.left > 0 /\ Exit /\ UNCHANGED <<sent, got, accepted>>

\* Lookup, key, directory, send, receive or dump fails, or nothing comes in time:
\* exit(-1).
SingleFails ==
  /\ single.pc = "recv" \/ (single.pc = "query" /\ single.left > 0)
  /\ Exit
  /\ UNCHANGED <<sent, got, accepted>>

\* Servers answer as in module Client, to this socket.
SingleAnswer(s, q) ==
  /\ single.pc = "recv" /\ q \in sent /\ Cardinality(got) < MaxAnswers
  /\ \/ /\ s \in Honest /\ q.server = s
        /\ \E skew \in Skews :
             got' = got \cup {[key |-> s, midp |-> time + skew, radi |-> Radius,
                               leaf |-> SingleLeaf(q), sound |-> TRUE, at |-> time]}
     \/ /\ s \notin Honest
        /\ \E midp \in Midpoints, radi \in Radii, sound \in BOOLEAN :
             got' = got \cup {[key |-> s, midp |-> midp, radi |-> radi,
                               leaf |-> SingleLeaf(q), sound |-> sound, at |-> time]}
  /\ UNCHANGED <<single, sent, accepted>>

SingleStep == SingleQuery \/ (\E r \in got : SingleReceive(r)) \/ SingleFails

-----------------------------------------------------------------------------
\* What query_single_server and query_multiple_servers return; nothing when the
\* program has exited in them.
SingleReturns == single.pc = "query" /\ single.left = 0
Returned ==
  IF args.mode = "multiple" THEN midpoint
  ELSE IF SingleReturns THEN Some(single.midpoint) ELSE None
QueryEnds ==
  IF args.mode = "multiple" THEN pc = "done" ELSE SingleReturns \/ single.pc = "failed"

\* main, behind the query, with --set-clock or without.
Finish(set_clock) ==
  /\ main = "query" /\ QueryEnds
  /\ main' = IF Returned # None /\ set_clock THEN "set_clock" ELSE "exited"
  /\ UNCHANGED <<args, singleVars, clock>>

\* The assertion on the midpoint.
Plausible(m) == m > ClockMin

\* set_system_clock: asserts, and sets the clock, which may be refused.
SetSystemClock(permitted) ==
  /\ main = "set_clock"
  /\ clock' = IF Plausible(Returned[1]) /\ permitted THEN Returned ELSE None
  /\ main' = "exited"
  /\ UNCHANGED <<args, singleVars>>

MainStep ==
  \/ args.mode = "multiple" /\ Step /\ UNCHANGED mainVars
  \/ args.mode = "single" /\ SingleStep /\ UNCHANGED <<vars, args, main, clock>>
  \/ \E b \in BOOLEAN : (Finish(b) \/ SetSystemClock(b)) /\ UNCHANGED vars

\* (What happens behind the query makes no difference to the program.)
MainWorld ==
  /\ main = "query"
  /\ \/ args.mode = "multiple" /\ World /\ UNCHANGED mainVars
     \/ args.mode = "single" /\ (\E s \in Servers, q \in sent : SingleAnswer(s, q))
          /\ UNCHANGED <<vars, args, main, clock>>
     \/ args.mode = "single" /\ Tick /\ UNCHANGED mainVars

MainTerminated == main = "exited" /\ UNCHANGED allVars

MainNext == MainStep \/ MainWorld \/ MainTerminated

\* Steps of the program are weakly fair: recv and POST time out.
MainSpec == MainInit /\ [][MainNext]_allVars /\ WF_allVars(MainStep)

-----------------------------------------------------------------------------
\* All queries of one server share a socket that takes datagrams from anywhere: an
\* answer is accepted only when it was signed after this very request was sent, not
\* when it is a late or second answer to an earlier one; and, with a public key, only
\* when that server has signed it.
SingleIsFresh ==
  \A k \in DOMAIN accepted :
    LET m == accepted[k]
    IN  /\ m.request.at <= m.response.at /\ m.response.at <= m.at
        /\ args.pub_key => m.response.key = args.target
        /\ m.response.leaf = SingleLeaf(m.request)
        /\ \A j \in DOMAIN accepted : j # k => accepted[j].response # m.response

\* The clock is set to a time that somebody vouches for: that of a sequence without
\* violations (or under --allow-untrusted-time), or the last answer of the one server
\* asked, which is right at that moment up to the radius when its key was given and it
\* is honest; never to the 0 that num_requests = 0 returns.
ClockIsTrusted ==
  clock # None =>
    IF args.mode = "multiple"
    THEN ~AllowUntrusted =>
           Len(measurements) = Turns /\ validate_causality = {} /\ clock = Some(last_midpoint)
    ELSE /\ accepted # <<>>
         /\ LET m == accepted[Len(accepted)]
            IN  args.pub_key /\ args.target \in Honest =>
                  /\ clock[1] >= m.request.at - Radius
                  /\ clock[1] <= m.at + Radius

\* The program ends, whatever servers, network and reporting server do.
ProgramEnds == <>(main = "exited")
=============================================================================
