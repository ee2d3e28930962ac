-------------------------------- MODULE Wire --------------------------------
(***************************************************************************)
(* The wire format of roughenough-protocol: headers, tags, requests and    *)
(* responses of draft 8 and draft 14, their framing, and how they are      *)
(* read back.                                                              *)
(*                                                                         *)
(* Every field is a multiple of four bytes, so that a message is a         *)
(* sequence of 32-bit words.  A nonce, hash, key or signature is opaque:   *)
(* one number that fills the words of the field.  Tags are their           *)
(* little-endian numbers, the ones they are ordered by; versions are       *)
(* without their top bit (TLC's integers end at 2^31).  Callers only tell  *)
(* an error from a result, so that from_wire is a predicate, and an        *)
(* operator that gives the value where the predicate holds.                *)
(*                                                                         *)
(* Positions are in words and start at 1; lengths and offsets in headers   *)
(* are in bytes.                                                           *)
(***************************************************************************)
EXTENDS Integers, Sequences

\* ParseCursor, reading: try_get_* and try_copy_to_slice fail when fewer than n
\* words are left at position p.
Has(b, p, n) == p + n - 1 <= Len(b)
Get(b, p, n) == SubSeq(b, p, p + n - 1)

\* ParseCursor, writing: over what the buffer holds.
Put(b, p, w) == [i \in DOMAIN b |-> IF p <= i /\ i < p + Len(w) THEN w[i - p + 1] ELSE b[i]]

\* FixedTag: an opaque value of n words.
FixedTag(v, n) == [i \in 1..n |-> v]

Tag == [SIG  |-> 4671827,    VER  |-> 5391702,    SRV  |-> 5657171,    NONC |-> 1129205582,
        DELE |-> 1162364228, TYPE |-> 1162893652, PATH |-> 1213481296, RADI |-> 1229209938,
        PUBK |-> 1262638416, MIDP |-> 1346652493, SREP |-> 1346720339, VERS |-> 1397900630,
        MINT |-> 1414416717, ROOT |-> 1414483794, CERT |-> 1414677827, MAXT |-> 1415070029,
        INDX |-> 1480871497, ZZZZ |-> 1515870810]

Known(t) == \E name \in DOMAIN Tag : Tag[name] = t

-----------------------------------------------------------------------------
\* Header::to_wire: the number of tags, the offsets of all values but the first,
\* the tags.
Header(offsets, tags) == <<Len(tags)>> \o offsets \o tags

HeaderLen(n) == 2 * n
OffsetsAt(b, p, n) == Get(b, p + 1, n - 1)
TagsAt(b, p, n) == Get(b, p + n, n)

\* Header::from_wire
HeaderOk(b, p, n) ==
  /\ Has(b, p, HeaderLen(n))
  /\ b[p] = n
  /\ LET offsets == OffsetsAt(b, p, n)
         tags    == TagsAt(b, p, n)
     IN  /\ \A i \in DOMAIN offsets : offsets[i] % 4 = 0 /\ (i > 1 => offsets[i - 1] <= offsets[i])
         /\ \A i \in DOMAIN tags : Known(tags[i]) /\ (i > 1 => tags[i - 1] <= tags[i])

\* check_offset_bounds: against what is left after the header.
check_offset_bounds(b, p, n) ==
  \A i \in 1..(n - 1) : OffsetsAt(b, p, n)[i] <= 4 * (Len(b) - (p + HeaderLen(n) - 1))

-----------------------------------------------------------------------------
RfcDraft08 == 8
RfcDraft14 == 12

\* ProtocolVersion::from_wire: 0 is an old name of draft 8.
VersionOk(w) == w \in {0, RfcDraft08, RfcDraft14}
VersionOf(w) == IF w = 0 THEN RfcDraft08 ELSE w

MAX_VERSIONS == 32

\* VersionList::from_wire_n: at most 32 versions of a value of n words, ascending;
\* the cursor stops behind the last one read.
VersionsRead(n) == IF n < MAX_VERSIONS THEN n ELSE MAX_VERSIONS
VersionsAt(b, p, n) == [i \in 1..VersionsRead(n) |-> VersionOf(b[p + i - 1])]
VersionsOk(b, p, n) ==
  /\ Has(b, p, VersionsRead(n))
  /\ \A i \in 1..VersionsRead(n) : VersionOk(b[p + i - 1])
  /\ LET v == VersionsAt(b, p, n) IN \A i \in 2..Len(v) : v[i - 1] <= v[i]

-----------------------------------------------------------------------------
(***************************************************************************)
(* Requests: [ver, srv, nonc, pad, offsets].                               *)
(***************************************************************************)
MessageTypeRequest == 0
MessageTypeResponse == 1

TagsRequestDraft08 == <<Tag.VER, Tag.NONC, Tag.ZZZZ>>
TagsRequestDraft14 == <<Tag.VER, Tag.NONC, Tag.TYPE, Tag.ZZZZ>>
TagsRequestDraft14Srv == <<Tag.VER, Tag.SRV, Tag.NONC, Tag.TYPE, Tag.ZZZZ>>

\* RequestDraft08/14/14Srv::new over their default(): offsets from the sizes of the
\* fields, and the padding that makes up 1024 bytes for one version.
new_draft08(nonce) ==
  [variant |-> "Draft08", ver |-> <<RfcDraft08>>, srv |-> <<>>, nonc |-> nonce,
   pad |-> 238, offsets |-> <<4, 36>>]
new_draft14(nonce) ==
  [variant |-> "Draft14", ver |-> <<RfcDraft14>>, srv |-> <<>>, nonc |-> nonce,
   pad |-> 235, offsets |-> <<4, 36, 40>>]
new_draft14_with_server_commitment(nonce, srv) ==
  [variant |-> "Draft14Srv", ver |-> <<RfcDraft14>>, srv |-> srv, nonc |-> nonce,
   pad |-> 225, offsets |-> <<4, 36, 68, 72>>]

\* RequestDraft08/14/14Srv::to_wire
RequestDraft08ToWire(r) ==
  Header(r.offsets, TagsRequestDraft08) \o r.ver \o r.nonc \o FixedTag(0, r.pad)
RequestDraft14ToWire(r) ==
  Header(r.offsets, TagsRequestDraft14) \o r.ver \o r.nonc \o <<MessageTypeRequest>>
    \o FixedTag(0, r.pad)
RequestDraft14SrvToWire(r) ==
  Header(r.offsets, TagsRequestDraft14Srv) \o r.ver \o r.srv \o r.nonc \o <<MessageTypeRequest>>
    \o FixedTag(0, r.pad)

\* Request::to_wire
RequestToWire(r) ==
  CASE r.variant = "Draft08"    -> RequestDraft08ToWire(r)
    [] r.variant = "Draft14"    -> RequestDraft14ToWire(r)
    [] r.variant = "Draft14Srv" -> RequestDraft14SrvToWire(r)

\* What the three from_wire of requests have in common: the header and the list of
\* versions.  VerWords is the length of VER, from the first offset.
VerWords(b, n) == OffsetsAt(b, 1, n)[1] \div 4
RequestHeadOk(b, tags) ==
  LET n == Len(tags)
  IN  /\ HeaderOk(b, 1, n)
      /\ check_offset_bounds(b, 1, n)
      /\ TagsAt(b, 1, n) = tags
      /\ VersionsOk(b, 1 + HeaderLen(n), VerWords(b, n))
AfterVer(b, n) == 1 + HeaderLen(n) + VersionsRead(VerWords(b, n))

\* RequestDraft08::from_wire: the values are read one behind the other; no offset but
\* the first is looked at.
RequestDraft08Ok(b) == RequestHeadOk(b, TagsRequestDraft08) /\ Has(b, AfterVer(b, 3), 8)
RequestDraft08From(b) ==
  [variant |-> "Draft08", ver |-> VersionsAt(b, 7, VerWords(b, 3)), srv |-> <<>>,
   nonc |-> Get(b, AfterVer(b, 3), 8), pad |-> 238, offsets |-> OffsetsAt(b, 1, 3)]

\* RequestDraft14::from_wire
RequestDraft14Ok(b) ==
  /\ RequestHeadOk(b, TagsRequestDraft14)
  /\ Has(b, AfterVer(b, 4), 9)
  /\ b[AfterVer(b, 4) + 8] = MessageTypeRequest
RequestDraft14From(b) ==
  [variant |-> "Draft14", ver |-> VersionsAt(b, 9, VerWords(b, 4)), srv |-> <<>>,
   nonc |-> Get(b, AfterVer(b, 4), 8), pad |-> 235, offsets |-> OffsetsAt(b, 1, 4)]

\* RequestDraft14Srv::from_wire
RequestDraft14SrvOk(b) ==
  /\ RequestHeadOk(b, TagsRequestDraft14Srv)
  /\ Has(b, AfterVer(b, 5), 17)
  /\ b[AfterVer(b, 5) + 16] = MessageTypeRequest
RequestDraft14SrvFrom(b) ==
  [variant |-> "Draft14Srv", ver |-> VersionsAt(b, 11, VerWords(b, 5)),
   srv |-> Get(b, AfterVer(b, 5), 8), nonc |-> Get(b, AfterVer(b, 5) + 8, 8),
   pad |-> 225, offsets |-> OffsetsAt(b, 1, 5)]

\* Request::from_wire: 1012 bytes, and the number of tags tells the variant.
RequestOk(b) ==
  /\ Len(b) = 253
  /\ \/ b[1] = 3 /\ RequestDraft08Ok(b)
     \/ b[1] = 4 /\ RequestDraft14Ok(b)
     \/ b[1] = 5 /\ RequestDraft14SrvOk(b)
RequestFrom(b) ==
  CASE b[1] = 3 -> RequestDraft08From(b)
    [] b[1] = 4 -> RequestDraft14From(b)
    [] b[1] = 5 -> RequestDraft14SrvFrom(b)

-----------------------------------------------------------------------------
(***************************************************************************)
(* SREP: [radi, midp, root, offsets] and, for draft 14, [ver, vers].       *)
(***************************************************************************)
TagsSrep == <<Tag.VER, Tag.RADI, Tag.MIDP, Tag.VERS, Tag.ROOT>>
TagsSrepDraft08 == <<Tag.RADI, Tag.MIDP, Tag.ROOT>>

\* SignedResponse::default: the offset of ROOT is 0 until VERS is set.
DefaultSrep ==
  [ver |-> RfcDraft14, radi |-> 0, midp |-> FixedTag(0, 2), vers |-> <<>>,
   root |-> FixedTag(0, 8), offsets |-> <<4, 8, 16, 0>>]
DefaultSrepDraft08 ==
  [radi |-> 0, midp |-> FixedTag(0, 2), root |-> FixedTag(0, 8), offsets |-> <<4, 12>>]

set_vers(s, versions) ==
  [s EXCEPT !.vers = versions, !.offsets[4] = 16 + 4 * Len(versions)]

SrepToWire(s) ==
  Header(s.offsets, TagsSrep) \o <<s.ver, s.radi>> \o s.midp \o s.vers \o s.root
SrepDraft08ToWire(s) ==
  Header(s.offsets, TagsSrepDraft08) \o <<s.radi>> \o s.midp \o s.root

\* SignedResponse::from_wire at position p.
VersWords(b, p) == (OffsetsAt(b, p, 5)[4] - OffsetsAt(b, p, 5)[3]) \div 4
SrepLen(b, p) == 22 + VersionsRead(VersWords(b, p))
SrepOk(b, p) ==
  /\ HeaderOk(b, p, 5) /\ check_offset_bounds(b, p, 5) /\ TagsAt(b, p, 5) = TagsSrep
  /\ Get(b, p + 1, 3) = <<4, 8, 16>>
  /\ VersWords(b, p) # 0
  /\ Has(b, p + 10, 4) /\ VersionOk(b[p + 10])
  /\ VersionsOk(b, p + 14, VersWords(b, p))
  /\ Has(b, p, SrepLen(b, p))
SrepFrom(b, p) ==
  [ver |-> VersionOf(b[p + 10]), radi |-> b[p + 11], midp |-> Get(b, p + 12, 2),
   vers |-> VersionsAt(b, p + 14, VersWords(b, p)),
   root |-> Get(b, p + SrepLen(b, p) - 8, 8), offsets |-> OffsetsAt(b, p, 5)]

\* SignedResponseDraft08::from_wire: its offsets are not compared with anything.
SrepDraft08Ok(b, p) ==
  /\ HeaderOk(b, p, 3) /\ check_offset_bounds(b, p, 3) /\ TagsAt(b, p, 3) = TagsSrepDraft08
  /\ Has(b, p, 17)
SrepDraft08From(b, p) ==
  [radi |-> b[p + 6], midp |-> Get(b, p + 7, 2), root |-> Get(b, p + 9, 8),
   offsets |-> OffsetsAt(b, p, 3)]

-----------------------------------------------------------------------------
(***************************************************************************)
(* CERT and DELE: [sig, dele], [pubk, mint, maxt].                         *)
(***************************************************************************)
TagsDele == <<Tag.PUBK, Tag.MINT, Tag.MAXT>>
TagsCert == <<Tag.SIG, Tag.DELE>>

DeleToWire(d) == Header(<<32, 40>>, TagsDele) \o d.pubk \o d.mint \o d.maxt
DeleOk(b, p) ==
  /\ HeaderOk(b, p, 3) /\ Has(b, p, 18)
  /\ OffsetsAt(b, p, 3) = <<32, 40>> /\ TagsAt(b, p, 3) = TagsDele
DeleFrom(b, p) == [pubk |-> Get(b, p + 6, 8), mint |-> Get(b, p + 14, 2), maxt |-> Get(b, p + 16, 2)]

CertToWire(c) == Header(<<64>>, TagsCert) \o c.sig \o DeleToWire(c.dele)
CertOk(b, p) ==
  /\ HeaderOk(b, p, 2) /\ Has(b, p + 4, 16) /\ DeleOk(b, p + 20)
  /\ OffsetsAt(b, p, 2) = <<64>> /\ TagsAt(b, p, 2) = TagsCert
CertFrom(b, p) == [sig |-> Get(b, p + 4, 16), dele |-> DeleFrom(b, p + 20)]

DefaultCert == [sig |-> FixedTag(0, 16),
                dele |-> [pubk |-> FixedTag(0, 8), mint |-> FixedTag(0, 2), maxt |-> FixedTag(0, 2)]]

-----------------------------------------------------------------------------
(***************************************************************************)
(* Responses: [sig, nonc, path, srep, cert, indx, offsets]; for draft 8    *)
(* with ver for nonc.                                                      *)
(***************************************************************************)
TagsResponse == <<Tag.SIG, Tag.NONC, Tag.TYPE, Tag.PATH, Tag.SREP, Tag.CERT, Tag.INDX>>
TagsResponseDraft08 == <<Tag.SIG, Tag.VER, Tag.PATH, Tag.SREP, Tag.CERT, Tag.INDX>>

\* Response::default and ResponseDraft08::default: offsets all 0.
DefaultResponse ==
  [sig |-> FixedTag(0, 16), nonc |-> FixedTag(0, 8), path |-> <<>>, srep |-> DefaultSrep,
   cert |-> DefaultCert, indx |-> 0, offsets |-> FixedTag(0, 6)]
DefaultResponseDraft08 ==
  [sig |-> FixedTag(0, 16), ver |-> RfcDraft08, path |-> <<>>, srep |-> DefaultSrepDraft08,
   cert |-> DefaultCert, indx |-> 0, offsets |-> FixedTag(0, 5)]

\* update_offsets, from the sizes of the fields as they are now.
update_offsets(r) ==
  LET srep == 100 + 4 * Len(r.path)
      cert == srep + 4 * Len(SrepToWire(r.srep))
  IN  [r EXCEPT !.offsets = <<64, 96, 100, srep, cert, cert + 4 * Len(CertToWire(r.cert))>>]
update_offsets_draft08(r) ==
  LET srep == 68 + 4 * Len(r.path)
      cert == srep + 4 * Len(SrepDraft08ToWire(r.srep))
  IN  [r EXCEPT !.offsets = <<64, 68, srep, cert, cert + 4 * Len(CertToWire(r.cert))>>]

\* The setters of Response: only those of PATH and SREP refresh the offsets.
set_cert(r, c) == [r EXCEPT !.cert = c]
set_sig(r, s)  == [r EXCEPT !.sig = s]
set_nonc(r, n) == [r EXCEPT !.nonc = n]
set_indx(r, i) == [r EXCEPT !.indx = i]
set_srep(r, s) == update_offsets([r EXCEPT !.srep = s])

\* Mutant: the offsets keep describing the path before.
copy_path_Stale(r, path) == [r EXCEPT !.path = path]

copy_path(r, path) == update_offsets([r EXCEPT !.path = path])

\* The setters of ResponseDraft08.
set_cert_draft08(r, c) == update_offsets_draft08([r EXCEPT !.cert = c])
set_srep_draft08(r, s) == update_offsets_draft08([r EXCEPT !.srep = s])
copy_path_draft08(r, path) == update_offsets_draft08([r EXCEPT !.path = path])

ResponseToWire(r) ==
  Header(r.offsets, TagsResponse) \o r.sig \o r.nonc \o <<MessageTypeResponse>> \o r.path
    \o SrepToWire(r.srep) \o CertToWire(r.cert) \o <<r.indx>>
ResponseDraft08ToWire(r) ==
  Header(r.offsets, TagsResponseDraft08) \o r.sig \o <<r.ver>> \o r.path
    \o SrepDraft08ToWire(r.srep) \o CertToWire(r.cert) \o <<r.indx>>

\* MerklePath::from_wire_n: at most 32 whole hashes.
PathOk(b, p, bytes) ==
  bytes <= 1024 /\ bytes % 32 = 0 /\ Has(b, p, bytes \div 4)

\* Response::from_wire: the length of PATH is taken from the offsets, everything else
\* is read one behind the other.
PathBytes(b) == OffsetsAt(b, 1, 7)[4] - OffsetsAt(b, 1, 7)[3]
SrepAt(b) == 40 + PathBytes(b) \div 4
CertAt(b) == SrepAt(b) + SrepLen(b, SrepAt(b))
ResponseOk(b) ==
  /\ HeaderOk(b, 1, 7) /\ check_offset_bounds(b, 1, 7) /\ TagsAt(b, 1, 7) = TagsResponse
  /\ Has(b, 15, 25) /\ b[39] = MessageTypeResponse
  /\ PathOk(b, 40, PathBytes(b))
  /\ SrepOk(b, SrepAt(b))
  /\ CertOk(b, CertAt(b))
  /\ Has(b, CertAt(b) + 38, 1)
ResponseFrom(b) ==
  [sig |-> Get(b, 15, 16), nonc |-> Get(b, 31, 8), path |-> Get(b, 40, PathBytes(b) \div 4),
   srep |-> SrepFrom(b, SrepAt(b)), cert |-> CertFrom(b, CertAt(b)),
   indx |-> b[CertAt(b) + 38], offsets |-> OffsetsAt(b, 1, 7)]

\* ResponseDraft08::from_wire
PathBytesDraft08(b) == OffsetsAt(b, 1, 6)[3] - OffsetsAt(b, 1, 6)[2]
SrepAtDraft08(b) == 30 + PathBytesDraft08(b) \div 4
CertAtDraft08(b) == SrepAtDraft08(b) + 17
ResponseDraft08Ok(b) ==
  /\ HeaderOk(b, 1, 6) /\ check_offset_bounds(b, 1, 6) /\ TagsAt(b, 1, 6) = TagsResponseDraft08
  /\ Has(b, 13, 17) /\ VersionOk(b[29])
  /\ PathOk(b, 30, PathBytesDraft08(b))
  /\ SrepDraft08Ok(b, SrepAtDraft08(b))
  /\ CertOk(b, CertAtDraft08(b))
  /\ Has(b, CertAtDraft08(b) + 38, 1)
ResponseDraft08From(b) ==
  [sig |-> Get(b, 13, 16), ver |-> VersionOf(b[29]),
   path |-> Get(b, 30, PathBytesDraft08(b) \div 4),
   srep |-> SrepDraft08From(b, SrepAtDraft08(b)), cert |-> CertFrom(b, CertAtDraft08(b)),
   indx |-> b[CertAtDraft08(b) + 38], offsets |-> OffsetsAt(b, 1, 6)]

\* From<SignedResponseDraft08> for SignedResponse, From<ResponseDraft08> for Response:
\* a draft 8 response in the form of draft 14, with an empty nonce.
SrepFromDraft08(s) ==
  [set_vers(DefaultSrep, <<RfcDraft08>>)
     EXCEPT !.ver = RfcDraft08, !.radi = s.radi, !.midp = s.midp, !.root = s.root]
ResponseOfDraft08(r) ==
  set_indx(set_cert(set_srep(copy_path(set_sig(DefaultResponse, r.sig), r.path),
                             SrepFromDraft08(r.srep)), r.cert), r.indx)

-----------------------------------------------------------------------------
FrameMagic == <<1196773202, 1296651336>>
FRAME_OVERHEAD == 3   \* words

\* ToFrame::to_frame
ToFrame(w) == FrameMagic \o <<4 * Len(w)>> \o w

\* Mutant: the length in the frame is not compared with what has come.
FrameOk_Trusting(b) == Has(b, 1, 3) /\ Get(b, 1, 2) = FrameMagic

\* FromFrame::from_frame: at least 100 bytes said and 100 come; no more said than come.
\* More may come than is said.
FrameOk(b) ==
  /\ Has(b, 1, FRAME_OVERHEAD) /\ Get(b, 1, 2) = FrameMagic
  /\ b[3] >= 100 /\ Has(b, 4, 25)
  /\ b[3] <= 4 * (Len(b) - FRAME_OVERHEAD)
Unframed(b) == SubSeq(b, FRAME_OVERHEAD + 1, Len(b))
=============================================================================
