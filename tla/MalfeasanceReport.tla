------------------------- MODULE MalfeasanceReport --------------------------
(***************************************************************************)
(* A malfeasance report, as the client makes it (roughenough-client/src/   *)
(* reporting.rs) and as the reporting server checks it                     *)
(* (roughenough-reporting-server/src/validation.rs), over symbolic         *)
(* requests and responses.  An Option is a sequence of at most one         *)
(* element; hashes are symbolic: a chained nonce is the pair it hashes.    *)
(*                                                                         *)
(* request     [server, nonc, at]                                          *)
(* response    [key, midp, radi, leaf, sound, at]                          *)
(* measurement [request, response, rand_value, at]                         *)
(*                                                                         *)
(* The fields `at` are history: when a request was sent, a response signed *)
(* and a measurement completed.                                            *)
(***************************************************************************)
EXTENDS Integers, Sequences

CONSTANTS
  Draft08,     \* the servers that speak draft 8, the others speak draft 14
  Mint, Maxt   \* the span of every server's delegation

None == <<>>
Some(x) == <<x>>

\* generate_nonce: H(prior_response || rand), or random bytes without a prior.
calculate_chained_nonce(prior, rand) == [prior |-> prior, rand |-> rand]

\* What a response must prove: the nonce for draft 8, the whole request, whose SRV
\* tag commits to the server, for draft 14.
LeafDraft08(request) == <<request.nonc>>
LeafDraft14(request) == <<request.nonc, request.server>>
Leaf(request) == IF request.server \in Draft08 THEN LeafDraft08(request) ELSE LeafDraft14(request)

\* Mutant: no Merkle proof.
check_merkle_proof_Off(leaf, response) == TRUE

check_dele_signature(key, response) == response.key = key
check_midpoint(response) == Mint <= response.midp /\ response.midp <= Maxt
check_radius(response) == response.radi # 0
check_merkle_proof(leaf, response) == response.leaf = leaf

\* validate_draft08/14: all checks of a response to a request that must prove
\* `leaf`.  VER in VERS and the signature of SREP are the field `sound`.
validate(key, leaf, response) ==
  /\ check_dele_signature(key, response)
  /\ check_midpoint(response)
  /\ check_radius(response)
  /\ check_merkle_proof(leaf, response)
  /\ response.sound

-----------------------------------------------------------------------------
\* ReportEntry::from_measurement
from_measurement(m) ==
  [rand |-> m.rand_value, request |-> m.request, response |-> m.response,
   public_key |-> m.request.server]

\* MalfeasanceReport::from_violation: the two measurements and nothing between.
from_violation(mi, mj) == <<from_measurement(mi), from_measurement(mj)>>

\* validate_entry: every entry is validated in one way, whatever its request was.  The
\* method called there, ResponseValidator::validate, does not exist at this commit (the
\* crate is excluded from the workspace); it is taken for validate_draft14, which
\* has the same type of response.
validate_entry(entry) == validate(entry.public_key, LeafDraft14(entry.request), entry.response)

\* Mutant: the nonce is not compared.
validate_chaining_Lax(entry, previous) == previous # None => entry.rand # None

\* validate_chaining: the first entry must have no rand value, every other one must
\* be chained to its predecessor.
validate_chaining(entry, previous) ==
  IF previous = None THEN entry.rand = None
  ELSE /\ entry.rand # None
       /\ entry.request.nonc = calculate_chained_nonce(previous, entry.rand[1])

\* validate_report
validate_report(report) ==
  /\ Len(report) >= 2
  /\ \A i \in DOMAIN report :
       /\ validate_entry(report[i])
       /\ validate_chaining(report[i], IF i = 1 THEN None ELSE Some(report[i - 1].response))
=============================================================================
