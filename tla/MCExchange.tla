----------------------------- MODULE MCExchange -----------------------------
(* Clients of both drafts, with and without a server key, and requests of    *)
(* other implementations: two versions, too long, too short, and with bytes  *)
(* behind the frame, of a datagram too long and of one just long enough.     *)
EXTENDS Exchange

Roughenough(v, srv) ==
  [kind |-> "roughenough", version |-> v, srv |-> srv, ver |-> <<v>>, words |-> 256,
   trail |-> 0]
Foreign(v, versions, words, trail) ==
  [kind |-> "foreign", version |-> v, srv |-> FALSE, ver |-> versions, words |-> words,
   trail |-> trail]

TestSenders ==
  <<Roughenough(RfcDraft08, FALSE), Roughenough(RfcDraft14, TRUE), Roughenough(RfcDraft14, FALSE),
    Foreign(RfcDraft14, <<RfcDraft08, RfcDraft14>>, 256, 0),
    Foreign(RfcDraft14, <<RfcDraft14>>, 260, 0), Foreign(RfcDraft08, <<RfcDraft08>>, 255, 0),
    Foreign(RfcDraft14, <<RfcDraft14>>, 256, 4), Foreign(RfcDraft08, <<RfcDraft08>>, 250, 6)>>
=============================================================================
