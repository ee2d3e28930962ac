--------------------------- MODULE ExchangeProofs ---------------------------
(***************************************************************************)
(* Proofs about Wire and Exchange, for any senders, any batches and both   *)
(* versions.                                                               *)
(*                                                                         *)
(* First the codec. A message of n words is built from parts; At(w, p, m)  *)
(* says that the words of a part m stand in w from position p on. Each     *)
(* encoder puts its parts where the header that it writes says, each       *)
(* decoder looks where the header that it reads points, so that decoding   *)
(* what was encoded gives it back: a header, a version list, the signed    *)
(* part, the certificate, and with them whole responses and whole          *)
(* requests.                                                               *)
(*                                                                         *)
(* Then the system. The inductive invariant IInv says what is in each      *)
(* place that a message can be in: the datagram on its way and every       *)
(* element of the batch is a request that its sender really sent           *)
(* (RequestsInv, BatchInv); while a batch is answered the template has the *)
(* signed part of this batch, and INDX, PATH, NONC and offsets that may be *)
(* those of the answer before (ServerInv, Template); a sender is at one    *)
(* place only, so that it is answered once (OnceInv); what was sent back   *)
(* is the frame of what was meant, for some batch size and position        *)
(* (AnswerInv); and what a client decoded is what the validator makes of   *)
(* that frame (DecodedInv). None of the properties is inductive: they      *)
(* compare the two ends, and a step in between is seen by neither.         *)
(***************************************************************************)
EXTENDS Exchange, SequenceTheorems, WellFoundedInduction, TLAPS

\* A message of n words.
Words(m, n) == m \in Seq(Int) /\ Len(m) = n /\ n \in Nat

\* The words of m stand in w from position p on.
At(w, p, m) ==
  /\ w \in Seq(Int) /\ m \in Seq(Int) /\ p \in Nat \ {0} /\ p - 1 + Len(m) <= Len(w)
  /\ \A k \in 1..Len(m) : w[p + k - 1] = m[k]

\* What stands in the first part stands in the whole.
LEMMA AtLeft ==
  ASSUME NEW a, NEW b \in Seq(Int), NEW p, NEW m, At(a, p, m)
  PROVE  At(a \o b, p, m)
<1>1. /\ a \in Seq(Int) /\ m \in Seq(Int) /\ p \in Nat \ {0} /\ p - 1 + Len(m) <= Len(a)
      /\ Len(a) \in Nat /\ Len(m) \in Nat /\ Len(b) \in Nat
      /\ \A k \in 1..Len(m) : a[p + k - 1] = m[k]
  BY LenProperties DEF At
<1>2. /\ a \o b \in Seq(Int) /\ Len(a \o b) = Len(a) + Len(b)
      /\ \A i \in 1..Len(a) : (a \o b)[i] = a[i]
  BY <1>1, ConcatProperties
<1>3. ASSUME NEW k \in 1..Len(m) PROVE (a \o b)[p + k - 1] = m[k]
  <2>1. p + k - 1 \in 1..Len(a) BY <1>1
  <2> QED BY <1>1, <1>2, <2>1
<1> QED BY <1>1, <1>2, <1>3 DEF At

\* The second part stands behind the first.
LEMMA AtRight ==
  ASSUME NEW a \in Seq(Int), NEW b \in Seq(Int)
  PROVE  At(a \o b, Len(a) + 1, b)
<1>1. Len(a) \in Nat /\ Len(b) \in Nat BY LenProperties
<1>2. /\ a \o b \in Seq(Int) /\ Len(a \o b) = Len(a) + Len(b)
      /\ \A i \in 1..(Len(a) + Len(b)) : (a \o b)[i] = IF i <= Len(a) THEN a[i] ELSE b[i - Len(a)]
  BY <1>1, ConcatProperties
<1>3. ASSUME NEW k \in 1..Len(b) PROVE (a \o b)[Len(a) + 1 + k - 1] = b[k]
  <2>1. /\ Len(a) + k \in 1..(Len(a) + Len(b)) /\ ~(Len(a) + k <= Len(a))
        /\ Len(a) + k - Len(a) = k /\ Len(a) + 1 + k - 1 = Len(a) + k
    BY <1>1
  <2>2. (a \o b)[Len(a) + k] = b[Len(a) + k - Len(a)] BY <1>2, <2>1
  <2> QED BY <2>1, <2>2
<1> QED BY <1>1, <1>2, <1>3 DEF At

\* A message stands in itself.
LEMMA AtWhole == ASSUME NEW m \in Seq(Int) PROVE At(m, 1, m)
<1>1. Len(m) \in Nat BY LenProperties
<1> QED BY <1>1 DEF At

\* What stands in a part stands in the whole.
LEMMA AtInside ==
  ASSUME NEW w, NEW p, NEW m, NEW q, NEW x, At(w, p, m), At(m, q, x)
  PROVE  At(w, p + q - 1, x)
<1>1. /\ w \in Seq(Int) /\ m \in Seq(Int) /\ x \in Seq(Int) /\ p \in Nat \ {0} /\ q \in Nat \ {0}
      /\ p - 1 + Len(m) <= Len(w) /\ q - 1 + Len(x) <= Len(m)
      /\ Len(w) \in Nat /\ Len(m) \in Nat /\ Len(x) \in Nat
      /\ \A k \in 1..Len(m) : w[p + k - 1] = m[k]
      /\ \A k \in 1..Len(x) : m[q + k - 1] = x[k]
  BY LenProperties DEF At
<1>2. ASSUME NEW k \in 1..Len(x) PROVE w[p + q - 1 + k - 1] = x[k]
  <2>1. q + k - 1 \in 1..Len(m) /\ p + (q + k - 1) - 1 = p + q - 1 + k - 1 BY <1>1
  <2>2. w[p + (q + k - 1) - 1] = m[q + k - 1] BY <1>1, <2>1
  <2> QED BY <1>1, <2>1, <2>2
<1> QED BY <1>1, <1>2 DEF At

\* try_copy_to_slice gives back the part that stands there.
LEMMA GetAt ==
  ASSUME NEW w, NEW p, NEW m, At(w, p, m)
  PROVE  Has(w, p, Len(m)) /\ Get(w, p, Len(m)) = m
<1>1. /\ w \in Seq(Int) /\ m \in Seq(Int) /\ p \in Nat \ {0} /\ p - 1 + Len(m) <= Len(w)
      /\ Len(w) \in Nat /\ Len(m) \in Nat
      /\ \A k \in 1..Len(m) : w[p + k - 1] = m[k]
  BY LenProperties DEF At
<1> DEFINE s == SubSeq(w, p, p + Len(m) - 1)
<1>2. s \in Seq(Int) /\ Len(s) = Len(m) /\ \A k \in 1..Len(m) : s[k] = w[p + k - 1]
  <2>1. \A i \in p..(p + Len(m) - 1) : w[i] \in Int
    <3>1. \A i \in p..(p + Len(m) - 1) : i \in 1..Len(w) BY <1>1
    <3> QED BY <1>1, <3>1, ElementOfSeq
  <2>2. p \in Int /\ p + Len(m) - 1 \in Int BY <1>1
  <2>3. /\ s \in Seq(Int)
        /\ Len(s) = IF p <= p + Len(m) - 1 THEN p + Len(m) - 1 - p + 1 ELSE 0
        /\ \A k \in 1..(p + Len(m) - 1 - p + 1) : s[k] = w[p + k - 1]
    BY <2>1, <2>2, SubSeqProperties
  <2> HIDE DEF s
  <2>4. p + Len(m) - 1 - p + 1 = Len(m) BY <1>1
  <2> QED BY <1>1, <2>3, <2>4
<1>3. \A k \in 1..Len(m) : s[k] = m[k] BY <1>1, <1>2
<1>4. s = m
  <2> HIDE DEF s
  <2> QED BY <1>1, <1>2, <1>3, SeqEqual
<1> QED BY <1>1, <1>4 DEF Has, Get

\* What stands in a stands in w at the same place.
Keeps(w, a) == \A p, m : At(a, p, m) => At(w, p, m)

\* w is a, of i words, and behind it b, of j words.
Joint(w, a, i, b, j) == Words(w, i + j) /\ At(w, i + 1, b) /\ Keeps(w, a)

\* Two parts, one behind the other.
LEMMA Joined ==
  ASSUME NEW a, NEW i, Words(a, i), NEW b, NEW j, Words(b, j), NEW w, w = a \o b
  PROVE  Joint(w, a, i, b, j)
<1>1. a \in Seq(Int) /\ Len(a) = i /\ i \in Nat /\ b \in Seq(Int) /\ Len(b) = j /\ j \in Nat
  BY DEF Words
<1>2. Words(a \o b, i + j)
  <2>1. a \o b \in Seq(Int) /\ Len(a \o b) = Len(a) + Len(b) BY <1>1, ConcatProperties
  <2> QED BY <1>1, <2>1 DEF Words
<1>3. At(a \o b, i + 1, b) BY <1>1, AtRight
<1>4. ASSUME NEW q, NEW m, At(a, q, m) PROVE At(a \o b, q, m) BY <1>1, <1>4, AtLeft
<1> QED BY <1>2, <1>3, <1>4 DEF Keeps, Joint

\* An opaque value.
LEMMA FixedTagWords ==
  ASSUME NEW v \in Int, NEW n \in Int
  PROVE  Words(FixedTag(v, n), IF n < 0 THEN 0 ELSE n)
<1>1. CASE n < 0
  <2>1. 1..n = {} BY <1>1
  <2>2. FixedTag(v, n) = <<>> BY <2>1 DEF FixedTag
  <2> QED BY <1>1, <2>2 DEF Words
<1>2. CASE ~(n < 0)
  <2>1. n \in Nat BY <1>2
  <2>2. FixedTag(v, n) \in Seq(Int) /\ Len(FixedTag(v, n)) = n BY <2>1, IsASeq DEF FixedTag
  <2> QED BY <1>2, <2>1, <2>2 DEF Words
<1> QED BY <1>1, <1>2

\* Header::to_wire: where the offsets and the tags stand.
LEMMA HeaderWords ==
  ASSUME NEW n \in Nat \ {0}, NEW offsets, Words(offsets, n - 1), NEW tags, Words(tags, n)
  PROVE  /\ Words(Header(offsets, tags), 2 * n)
         /\ At(Header(offsets, tags), 1, <<n>>)
         /\ At(Header(offsets, tags), 2, offsets)
         /\ At(Header(offsets, tags), n + 1, tags)
<1>1. Len(tags) = n BY DEF Words
<1>2. Words(<<n>>, 1) BY DEF Words
<1>3. At(<<n>>, 1, <<n>>) BY <1>2, AtWhole DEF Words
<1> DEFINE a == <<n>> \o offsets
           h == a \o tags
<1>4. /\ Words(a, n)
      /\ At(a, 2, offsets) /\ At(a, 1, <<n>>)
  <2>1. Joint(a, <<n>>, 1, offsets, n - 1) BY <1>2, Joined
  <2> HIDE DEF a
  <2>2. Words(a, n) /\ At(a, 2, offsets) BY <2>1 DEF Joint
  <2> QED BY <1>3, <2>1, <2>2 DEF Keeps, Joint
<1>5. Words(h, n + n) /\ At(h, n + 1, tags) /\ Keeps(h, a)
  <2> HIDE DEF a
  <2>1. Joint(h, a, n, tags, n) BY <1>4, Joined
  <2> QED BY <2>1 DEF Joint
<1>6. Header(offsets, tags) = h BY <1>1 DEF Header
<1>7. n + n = 2 * n OBVIOUS
<1> HIDE DEF a, h
<1> QED BY <1>4, <1>5, <1>6, <1>7 DEF Keeps

\* Header::from_wire finds them where Header::to_wire put them.
LEMMA HeaderReads ==
  ASSUME NEW n \in Nat \ {0}, NEW offsets, Words(offsets, n - 1), NEW tags, Words(tags, n),
         NEW b, NEW p, At(b, p, Header(offsets, tags))
  PROVE  /\ Has(b, p, HeaderLen(n)) /\ b[p] = n
         /\ OffsetsAt(b, p, n) = offsets /\ TagsAt(b, p, n) = tags
<1> DEFINE h == Header(offsets, tags)
<1>1. Words(h, 2 * n) /\ At(h, 1, <<n>>) /\ At(h, 2, offsets) /\ At(h, n + 1, tags)
  BY HeaderWords
<1>2. p \in Nat \ {0} /\ At(b, p, h) BY DEF At
<1> HIDE DEF h
<1>3. Len(h) = 2 * n /\ Len(offsets) = n - 1 /\ Len(tags) = n BY <1>1 DEF Words
<1>4. Has(b, p, 2 * n) BY <1>2, <1>3, GetAt
<1>5. At(b, p + 1 - 1, <<n>>) /\ At(b, p + 2 - 1, offsets) /\ At(b, p + (n + 1) - 1, tags)
  BY <1>1, <1>2, AtInside
<1>6. b[p] = n
  <2>1. At(b, p, <<n>>)
    <3>1. p + 1 - 1 = p BY <1>2
    <3> QED BY <1>5, <3>1
  <2>2. 1 \in 1..Len(<<n>>) /\ <<n>>[1] = n /\ p + 1 - 1 = p BY <1>2
  <2>3. b[p + 1 - 1] = <<n>>[1] BY <2>1, <2>2 DEF At
  <2> QED BY <2>2, <2>3
<1>7. Get(b, p + 1, n - 1) = offsets
  <2>1. p + 2 - 1 = p + 1 BY <1>2
  <2> QED BY <1>3, <1>5, <2>1, GetAt
<1>8. Get(b, p + n, n) = tags
  <2>1. p + (n + 1) - 1 = p + n BY <1>2
  <2> QED BY <1>3, <1>5, <2>1, GetAt
<1> QED BY <1>4, <1>6, <1>7, <1>8 DEF HeaderLen, OffsetsAt, TagsAt

\* What Header::from_wire asks of offsets and of tags.
GoodOffsets(offsets) ==
  \A i \in DOMAIN offsets : offsets[i] % 4 = 0 /\ (i > 1 => offsets[i - 1] <= offsets[i])
GoodTags(tags) ==
  \A i \in DOMAIN tags : Known(tags[i]) /\ (i > 1 => tags[i - 1] <= tags[i])

\* A header with ascending, aligned offsets and known, ascending tags is accepted.
LEMMA HeaderAccepted ==
  ASSUME NEW n \in Nat \ {0}, NEW offsets, Words(offsets, n - 1), NEW tags, Words(tags, n),
         NEW b, NEW p, At(b, p, Header(offsets, tags)), GoodOffsets(offsets), GoodTags(tags)
  PROVE  HeaderOk(b, p, n)
<1>1. /\ Has(b, p, HeaderLen(n)) /\ b[p] = n
      /\ OffsetsAt(b, p, n) = offsets /\ TagsAt(b, p, n) = tags
  BY HeaderReads
<1> QED BY <1>1, Zenon DEF HeaderOk, GoodOffsets, GoodTags

\* The numbers of the tags.
LEMMA TagNumbers ==
  /\ Tag.SIG = 4671827 /\ Known(Tag.SIG)
  /\ Tag.VER = 5391702 /\ Known(Tag.VER)
  /\ Tag.SRV = 5657171 /\ Known(Tag.SRV)
  /\ Tag.NONC = 1129205582 /\ Known(Tag.NONC)
  /\ Tag.DELE = 1162364228 /\ Known(Tag.DELE)
  /\ Tag.TYPE = 1162893652 /\ Known(Tag.TYPE)
  /\ Tag.PATH = 1213481296 /\ Known(Tag.PATH)
  /\ Tag.RADI = 1229209938 /\ Known(Tag.RADI)
  /\ Tag.PUBK = 1262638416 /\ Known(Tag.PUBK)
  /\ Tag.MIDP = 1346652493 /\ Known(Tag.MIDP)
  /\ Tag.SREP = 1346720339 /\ Known(Tag.SREP)
  /\ Tag.VERS = 1397900630 /\ Known(Tag.VERS)
  /\ Tag.MINT = 1414416717 /\ Known(Tag.MINT)
  /\ Tag.ROOT = 1414483794 /\ Known(Tag.ROOT)
  /\ Tag.CERT = 1414677827 /\ Known(Tag.CERT)
  /\ Tag.MAXT = 1415070029 /\ Known(Tag.MAXT)
  /\ Tag.INDX = 1480871497 /\ Known(Tag.INDX)
  /\ Tag.ZZZZ = 1515870810 /\ Known(Tag.ZZZZ)
<1>1. Tag.SIG = 4671827 /\ "SIG" \in DOMAIN Tag BY DEF Tag
<1>2. Tag.VER = 5391702 /\ "VER" \in DOMAIN Tag BY DEF Tag
<1>3. Tag.SRV = 5657171 /\ "SRV" \in DOMAIN Tag BY DEF Tag
<1>4. Tag.NONC = 1129205582 /\ "NONC" \in DOMAIN Tag BY DEF Tag
<1>5. Tag.DELE = 1162364228 /\ "DELE" \in DOMAIN Tag BY DEF Tag
<1>6. Tag.TYPE = 1162893652 /\ "TYPE" \in DOMAIN Tag BY DEF Tag
<1>7. Tag.PATH = 1213481296 /\ "PATH" \in DOMAIN Tag BY DEF Tag
<1>8. Tag.RADI = 1229209938 /\ "RADI" \in DOMAIN Tag BY DEF Tag
<1>9. Tag.PUBK = 1262638416 /\ "PUBK" \in DOMAIN Tag BY DEF Tag
<1>10. Tag.MIDP = 1346652493 /\ "MIDP" \in DOMAIN Tag BY DEF Tag
<1>11. Tag.SREP = 1346720339 /\ "SREP" \in DOMAIN Tag BY DEF Tag
<1>12. Tag.VERS = 1397900630 /\ "VERS" \in DOMAIN Tag BY DEF Tag
<1>13. Tag.MINT = 1414416717 /\ "MINT" \in DOMAIN Tag BY DEF Tag
<1>14. Tag.ROOT = 1414483794 /\ "ROOT" \in DOMAIN Tag BY DEF Tag
<1>15. Tag.CERT = 1414677827 /\ "CERT" \in DOMAIN Tag BY DEF Tag
<1>16. Tag.MAXT = 1415070029 /\ "MAXT" \in DOMAIN Tag BY DEF Tag
<1>17. Tag.INDX = 1480871497 /\ "INDX" \in DOMAIN Tag BY DEF Tag
<1>18. Tag.ZZZZ = 1515870810 /\ "ZZZZ" \in DOMAIN Tag BY DEF Tag
<1> QED BY <1>1, <1>2, <1>3, <1>4, <1>5, <1>6, <1>7, <1>8, <1>9, <1>10, <1>11, <1>12, <1>13, <1>14, <1>15, <1>16, <1>17, <1>18 DEF Known

\* The lists of tags are ascending lists of known tags.
LEMMA TagLists ==
  /\ Words(TagsRequestDraft08, 3) /\ GoodTags(TagsRequestDraft08)
  /\ Words(TagsRequestDraft14, 4) /\ GoodTags(TagsRequestDraft14)
  /\ Words(TagsRequestDraft14Srv, 5) /\ GoodTags(TagsRequestDraft14Srv)
  /\ Words(TagsSrep, 5) /\ GoodTags(TagsSrep)
  /\ Words(TagsSrepDraft08, 3) /\ GoodTags(TagsSrepDraft08)
  /\ Words(TagsDele, 3) /\ GoodTags(TagsDele)
  /\ Words(TagsCert, 2) /\ GoodTags(TagsCert)
  /\ Words(TagsResponse, 7) /\ GoodTags(TagsResponse)
  /\ Words(TagsResponseDraft08, 6) /\ GoodTags(TagsResponseDraft08)
<1>1. Words(TagsRequestDraft08, 3) /\ GoodTags(TagsRequestDraft08)
  BY TagNumbers DEF Words, GoodTags, TagsRequestDraft08
<1>2. Words(TagsRequestDraft14, 4) /\ GoodTags(TagsRequestDraft14)
  BY TagNumbers DEF Words, GoodTags, TagsRequestDraft14
<1>3. Words(TagsRequestDraft14Srv, 5) /\ GoodTags(TagsRequestDraft14Srv)
  BY TagNumbers DEF Words, GoodTags, TagsRequestDraft14Srv
<1>4. Words(TagsSrep, 5) /\ GoodTags(TagsSrep)
  BY TagNumbers DEF Words, GoodTags, TagsSrep
<1>5. Words(TagsSrepDraft08, 3) /\ GoodTags(TagsSrepDraft08)
  BY TagNumbers DEF Words, GoodTags, TagsSrepDraft08
<1>6. Words(TagsDele, 3) /\ GoodTags(TagsDele)
  BY TagNumbers DEF Words, GoodTags, TagsDele
<1>7. Words(TagsCert, 2) /\ GoodTags(TagsCert)
  BY TagNumbers DEF Words, GoodTags, TagsCert
<1>8. Words(TagsResponse, 7) /\ GoodTags(TagsResponse)
  BY TagNumbers DEF Words, GoodTags, TagsResponse
<1>9. Words(TagsResponseDraft08, 6) /\ GoodTags(TagsResponseDraft08)
  BY TagNumbers DEF Words, GoodTags, TagsResponseDraft08
<1> QED BY <1>1, <1>2, <1>3, <1>4, <1>5, <1>6, <1>7, <1>8, <1>9

\* x, of n words, is read from position p of b.
Found(b, p, x, n) == At(b, p, x) /\ Has(b, p, n) /\ Get(b, p, n) = x

\* A part is read from where it stands.
LEMMA FoundAt ==
  ASSUME NEW b, NEW p, NEW x, At(b, p, x), NEW n, Words(x, n)
  PROVE  Found(b, p, x, n)
<1>1. Has(b, p, Len(x)) /\ Get(b, p, Len(x)) = x BY GetAt
<1> QED BY <1>1 DEF Found, Words

\* A part of a part is read from where it stands.
LEMMA FoundInside ==
  ASSUME NEW b, NEW p, NEW w, At(b, p, w), NEW q, NEW x, At(w, q, x), NEW n, Words(x, n),
         NEW r, r = p + q - 1
  PROVE  Found(b, r, x, n)
<1>1. At(b, r, x) BY AtInside
<1>2. Has(b, r, Len(x)) /\ Get(b, r, Len(x)) = x BY <1>1, GetAt
<1> QED BY <1>1, <1>2 DEF Found, Words

-----------------------------------------------------------------------------
\* DELE and CERT, as they are made.
IsDele(d) ==
  /\ d = [pubk |-> d.pubk, mint |-> d.mint, maxt |-> d.maxt]
  /\ Words(d.pubk, 8) /\ Words(d.mint, 2) /\ Words(d.maxt, 2)
IsCert(c) == c = [sig |-> c.sig, dele |-> c.dele] /\ Words(c.sig, 16) /\ IsDele(c.dele)

\* Where the values of DELE stand.
LEMMA DeleWords ==
  ASSUME NEW d, IsDele(d)
  PROVE  /\ Words(DeleToWire(d), 18)
         /\ At(DeleToWire(d), 1, Header(<<32, 40>>, TagsDele))
         /\ At(DeleToWire(d), 7, d.pubk)
         /\ At(DeleToWire(d), 15, d.mint)
         /\ At(DeleToWire(d), 17, d.maxt)
<1>1. PICK h : h = Header(<<32, 40>>, TagsDele) OBVIOUS
<1>2. Words(h, 6) /\ At(h, 1, h)
  <2>1. 3 \in Nat \ {0} /\ Words(TagsDele, 3) BY TagLists
  <2>2. Words(<<32, 40>>, 3 - 1) BY DEF Words
  <2>3. Words(h, 2 * 3) BY <1>1, <2>1, <2>2, HeaderWords
  <2>4. At(h, 1, h) BY <2>3, AtWhole DEF Words
  <2> QED BY <2>3, <2>4
<1>3. /\ Words(d.pubk, 8)
      /\ Words(d.mint, 2)
      /\ Words(d.maxt, 2)
  BY DEF IsDele
<1>4. PICK w1 : w1 = h \o d.pubk OBVIOUS
<1>5. Words(w1, 14) /\ At(w1, 7, d.pubk) /\ Keeps(w1, h)
  <2>1. Joint(w1, h, 6, d.pubk, 8) BY <1>3, <1>2, <1>4, Joined
  <2>2. 6 + 8 = 14 /\ 6 + 1 = 7 OBVIOUS
  <2> QED BY <2>1, <2>2, Zenon DEF Joint
<1>6. PICK w2 : w2 = w1 \o d.mint OBVIOUS
<1>7. Words(w2, 16) /\ At(w2, 15, d.mint) /\ Keeps(w2, w1)
  <2>1. Joint(w2, w1, 14, d.mint, 2) BY <1>3, <1>5, <1>6, Joined
  <2>2. 14 + 2 = 16 /\ 14 + 1 = 15 OBVIOUS
  <2> QED BY <2>1, <2>2, Zenon DEF Joint
<1>8. PICK w3 : w3 = w2 \o d.maxt OBVIOUS
<1>9. Words(w3, 18) /\ At(w3, 17, d.maxt) /\ Keeps(w3, w2)
  <2>1. Joint(w3, w2, 16, d.maxt, 2) BY <1>3, <1>7, <1>8, Joined
  <2>2. 16 + 2 = 18 /\ 16 + 1 = 17 OBVIOUS
  <2> QED BY <2>1, <2>2, Zenon DEF Joint
<1>10. w3 = DeleToWire(d)
  BY <1>1, <1>4, <1>6, <1>8, Zenon DEF DeleToWire
<1>11. /\ At(w3, 1, h) /\ At(w3, 7, d.pubk)
      /\ At(w3, 15, d.mint) /\ At(w3, 17, d.maxt)
  BY <1>2, <1>5, <1>7, <1>9, Zenon DEF Keeps
<1> QED BY <1>1, <1>9, <1>10, <1>11, Zenon

\* Where the values of CERT stand.
LEMMA CertWords ==
  ASSUME NEW c, IsCert(c)
  PROVE  /\ Words(CertToWire(c), 38)
         /\ At(CertToWire(c), 1, Header(<<64>>, TagsCert))
         /\ At(CertToWire(c), 5, c.sig)
         /\ At(CertToWire(c), 21, DeleToWire(c.dele))
<1>1. PICK h : h = Header(<<64>>, TagsCert) OBVIOUS
<1>2. Words(h, 4) /\ At(h, 1, h)
  <2>1. 2 \in Nat \ {0} /\ Words(TagsCert, 2) BY TagLists
  <2>2. Words(<<64>>, 2 - 1) BY DEF Words
  <2>3. Words(h, 2 * 2) BY <1>1, <2>1, <2>2, HeaderWords
  <2>4. At(h, 1, h) BY <2>3, AtWhole DEF Words
  <2> QED BY <2>3, <2>4
<1>3. /\ Words(c.sig, 16)
      /\ Words(DeleToWire(c.dele), 18)
  BY DeleWords DEF IsCert
<1>4. PICK w1 : w1 = h \o c.sig OBVIOUS
<1>5. Words(w1, 20) /\ At(w1, 5, c.sig) /\ Keeps(w1, h)
  <2>1. Joint(w1, h, 4, c.sig, 16) BY <1>3, <1>2, <1>4, Joined
  <2>2. 4 + 16 = 20 /\ 4 + 1 = 5 OBVIOUS
  <2> QED BY <2>1, <2>2, Zenon DEF Joint
<1>6. PICK w2 : w2 = w1 \o DeleToWire(c.dele) OBVIOUS
<1>7. Words(w2, 38) /\ At(w2, 21, DeleToWire(c.dele)) /\ Keeps(w2, w1)
  <2>1. Joint(w2, w1, 20, DeleToWire(c.dele), 18) BY <1>3, <1>5, <1>6, Joined
  <2>2. 20 + 18 = 38 /\ 20 + 1 = 21 OBVIOUS
  <2> QED BY <2>1, <2>2, Zenon DEF Joint
<1>8. w2 = CertToWire(c)
  BY <1>1, <1>4, <1>6, Zenon DEF CertToWire
<1>9. /\ At(w2, 1, h) /\ At(w2, 5, c.sig)
      /\ At(w2, 21, DeleToWire(c.dele))
  BY <1>2, <1>5, <1>7, Zenon DEF Keeps
<1> QED BY <1>1, <1>7, <1>8, <1>9, Zenon

\* from_wire of DELE gives back what to_wire was given.
LEMMA DeleReads ==
  ASSUME NEW d, IsDele(d), NEW b, NEW p, At(b, p, DeleToWire(d))
  PROVE  DeleOk(b, p) /\ DeleFrom(b, p) = d
<1>1. PICK w : w = DeleToWire(d) OBVIOUS
<1>2. PICK h : h = Header(<<32, 40>>, TagsDele) OBVIOUS
<1>3. /\ Words(w, 18) /\ At(w, 1, h) /\ At(w, 7, d.pubk) /\ At(w, 15, d.mint) /\ At(w, 17, d.maxt)
      /\ At(b, p, w) /\ At(w, 1, w)
  BY <1>1, <1>2, DeleWords, AtWhole DEF Words
<1>4. Words(d.pubk, 8) /\ Words(d.mint, 2) /\ Words(d.maxt, 2) /\ p \in Nat \ {0}
  BY DEF IsDele, At
<1>5. Found(b, p, w, 18)
  <2>1. p = p + 1 - 1 BY <1>4
  <2> QED BY <1>3, <2>1, FoundInside
<1>6. Found(b, p + 6, d.pubk, 8)
  <2>1. p + 6 = p + 7 - 1 BY <1>4
  <2> QED BY <1>3, <1>4, <2>1, FoundInside
<1>7. Found(b, p + 14, d.mint, 2)
  <2>1. p + 14 = p + 15 - 1 BY <1>4
  <2> QED BY <1>3, <1>4, <2>1, FoundInside
<1>8. Found(b, p + 16, d.maxt, 2)
  <2>1. p + 16 = p + 17 - 1 BY <1>4
  <2> QED BY <1>3, <1>4, <2>1, FoundInside
<1>9. HeaderOk(b, p, 3) /\ OffsetsAt(b, p, 3) = <<32, 40>> /\ TagsAt(b, p, 3) = TagsDele
  <2>1. At(b, p, h)
    <3>1. p = p + 1 - 1 BY <1>4
    <3> QED BY <1>3, <3>1, AtInside
  <2>2. 3 \in Nat \ {0} /\ Words(TagsDele, 3) /\ GoodTags(TagsDele) BY TagLists
  <2>3. Words(<<32, 40>>, 3 - 1) /\ GoodOffsets(<<32, 40>>) BY DEF Words, GoodOffsets
  <2> QED BY <1>2, <2>1, <2>2, <2>3, HeaderReads, HeaderAccepted
<1>10. DeleOk(b, p) BY <1>5, <1>9 DEF DeleOk, Found
<1>11. DeleFrom(b, p) = d BY <1>6, <1>7, <1>8 DEF DeleFrom, Found, IsDele
<1> QED BY <1>10, <1>11

\* The same for CERT.
LEMMA CertReads ==
  ASSUME NEW c, IsCert(c), NEW b, NEW p, At(b, p, CertToWire(c))
  PROVE  CertOk(b, p) /\ CertFrom(b, p) = c
<1>1. PICK w : w = CertToWire(c) OBVIOUS
<1>2. PICK h : h = Header(<<64>>, TagsCert) OBVIOUS
<1>3. /\ Words(w, 38) /\ At(w, 1, h) /\ At(w, 5, c.sig) /\ At(w, 21, DeleToWire(c.dele))
      /\ At(b, p, w)
  BY <1>1, <1>2, CertWords
<1>4. Words(c.sig, 16) /\ IsDele(c.dele) /\ p \in Nat \ {0} BY DEF IsCert, At
<1>5. Found(b, p + 4, c.sig, 16)
  <2>1. p + 4 = p + 5 - 1 BY <1>4
  <2> QED BY <1>3, <1>4, <2>1, FoundInside
<1>6. DeleOk(b, p + 20) /\ DeleFrom(b, p + 20) = c.dele
  <2>1. p + 20 = p + 21 - 1 BY <1>4
  <2>2. At(b, p + 20, DeleToWire(c.dele)) BY <1>3, <2>1, AtInside
  <2> QED BY <1>4, <2>2, DeleReads
<1>7. HeaderOk(b, p, 2) /\ OffsetsAt(b, p, 2) = <<64>> /\ TagsAt(b, p, 2) = TagsCert
  <2>1. At(b, p, h)
    <3>1. p = p + 1 - 1 BY <1>4
    <3> QED BY <1>3, <3>1, AtInside
  <2>2. 2 \in Nat \ {0} /\ Words(TagsCert, 2) /\ GoodTags(TagsCert) BY TagLists
  <2>3. Words(<<64>>, 2 - 1) /\ GoodOffsets(<<64>>) BY DEF Words, GoodOffsets
  <2> QED BY <1>2, <2>1, <2>2, <2>3, HeaderReads, HeaderAccepted
<1>8. CertOk(b, p) BY <1>5, <1>6, <1>7 DEF CertOk, Found
<1>9. CertFrom(b, p) = c BY <1>5, <1>6 DEF CertFrom, Found, IsCert
<1> QED BY <1>8, <1>9

-----------------------------------------------------------------------------
\* A list of n versions, ascending.
Versions(v, n) ==
  /\ Words(v, n) /\ n <= MAX_VERSIONS
  /\ \A i \in 1..n : v[i] \in {RfcDraft08, RfcDraft14} /\ (i > 1 => v[i - 1] <= v[i])

\* SREP as it is made: the offset of ROOT goes with the length of VERS.
IsSrep(s, n) ==
  /\ s = [ver |-> s.ver, radi |-> s.radi, midp |-> s.midp, vers |-> s.vers, root |-> s.root,
          offsets |-> s.offsets]
  /\ s.offsets = <<4, 8, 16, 16 + 4 * n>>
  /\ s.ver \in {RfcDraft08, RfcDraft14} /\ s.radi \in Int
  /\ Words(s.midp, 2) /\ Words(s.root, 8) /\ Versions(s.vers, n) /\ n # 0
IsSrepDraft08(s) ==
  /\ s = [radi |-> s.radi, midp |-> s.midp, root |-> s.root, offsets |-> s.offsets]
  /\ s.offsets = <<4, 12>>
  /\ s.radi \in Int /\ Words(s.midp, 2) /\ Words(s.root, 8)

\* A path of k words: whole hashes, at most 32 of them.
IsPath(path, k) == Words(path, k) /\ k % 8 = 0 /\ k <= 256

\* A response as it is made, with a path of k words and n versions in SREP: all
\* offsets go with the lengths of the values.
IsResponse(r, k, n) ==
  /\ r = [sig |-> r.sig, nonc |-> r.nonc, path |-> r.path, srep |-> r.srep, cert |-> r.cert,
          indx |-> r.indx, offsets |-> r.offsets]
  /\ r.offsets = <<64, 96, 100, 100 + 4 * k, 188 + 4 * k + 4 * n, 340 + 4 * k + 4 * n>>
  /\ Words(r.sig, 16) /\ Words(r.nonc, 8) /\ IsPath(r.path, k)
  /\ IsSrep(r.srep, n) /\ IsCert(r.cert) /\ r.indx \in Int
IsResponseDraft08(r, k) ==
  /\ r = [sig |-> r.sig, ver |-> r.ver, path |-> r.path, srep |-> r.srep, cert |-> r.cert,
          indx |-> r.indx, offsets |-> r.offsets]
  /\ r.offsets = <<64, 68, 68 + 4 * k, 136 + 4 * k, 288 + 4 * k>>
  /\ Words(r.sig, 16) /\ r.ver \in {RfcDraft08, RfcDraft14} /\ IsPath(r.path, k)
  /\ IsSrepDraft08(r.srep) /\ IsCert(r.cert) /\ r.indx \in Int

\* Where the values of SREP stand.
LEMMA SrepWords ==
  ASSUME NEW s, NEW n, IsSrep(s, n)
  PROVE  /\ Words(SrepToWire(s), 22 + n)
         /\ At(SrepToWire(s), 1, Header(s.offsets, TagsSrep))
         /\ At(SrepToWire(s), 11, <<s.ver, s.radi>>)
         /\ At(SrepToWire(s), 13, s.midp)
         /\ At(SrepToWire(s), 15, s.vers)
         /\ At(SrepToWire(s), 15 + n, s.root)
<1>1. PICK h : h = Header(s.offsets, TagsSrep) OBVIOUS
<1>2. Words(h, 10) /\ At(h, 1, h)
  <2>1. 5 \in Nat \ {0} /\ Words(TagsSrep, 5) BY TagLists
  <2>2. Words(s.offsets, 5 - 1) 
    <3>1. n \in Nat /\ s.offsets = <<4, 8, 16, 16 + 4 * n>> BY DEF IsSrep, Versions, Words
    <3> QED BY <3>1 DEF Words
  <2>3. Words(h, 2 * 5) BY <1>1, <2>1, <2>2, HeaderWords
  <2>4. At(h, 1, h) BY <2>3, AtWhole DEF Words
  <2> QED BY <2>3, <2>4
<1>3. /\ Words(<<s.ver, s.radi>>, 2)
      /\ Words(s.midp, 2)
      /\ Words(s.vers, n)
      /\ Words(s.root, 8)
      /\ n \in Nat
  <2>1. s.ver \in Int /\ s.radi \in Int BY DEF IsSrep, RfcDraft08, RfcDraft14
  <2>2. Words(<<s.ver, s.radi>>, 2) BY <2>1 DEF Words
  <2>3. Words(s.midp, 2) /\ Words(s.vers, n) /\ Words(s.root, 8) BY DEF IsSrep, Versions
  <2> QED BY <2>2, <2>3 DEF Words
<1>4. PICK w1 : w1 = h \o <<s.ver, s.radi>> OBVIOUS
<1>5. Words(w1, 12) /\ At(w1, 11, <<s.ver, s.radi>>) /\ Keeps(w1, h)
  <2>1. Joint(w1, h, 10, <<s.ver, s.radi>>, 2) BY <1>3, <1>2, <1>4, Joined
  <2>2. 10 + 2 = 12 /\ 10 + 1 = 11 BY <1>3
  <2> QED BY <2>1, <2>2, Zenon DEF Joint
<1>6. PICK w2 : w2 = w1 \o s.midp OBVIOUS
<1>7. Words(w2, 14) /\ At(w2, 13, s.midp) /\ Keeps(w2, w1)
  <2>1. Joint(w2, w1, 12, s.midp, 2) BY <1>3, <1>5, <1>6, Joined
  <2>2. 12 + 2 = 14 /\ 12 + 1 = 13 BY <1>3
  <2> QED BY <2>1, <2>2, Zenon DEF Joint
<1>8. PICK w3 : w3 = w2 \o s.vers OBVIOUS
<1>9. Words(w3, 14 + n) /\ At(w3, 15, s.vers) /\ Keeps(w3, w2)
  <2>1. Joint(w3, w2, 14, s.vers, n) BY <1>3, <1>7, <1>8, Joined
  <2>2. 14 + 1 = 15 BY <1>3
  <2> QED BY <2>1, <2>2, Zenon DEF Joint
<1>10. PICK w4 : w4 = w3 \o s.root OBVIOUS
<1>11. Words(w4, 22 + n) /\ At(w4, 15 + n, s.root) /\ Keeps(w4, w3)
  <2>1. Joint(w4, w3, 14 + n, s.root, 8) BY <1>3, <1>9, <1>10, Joined
  <2>2. 14 + n + 8 = 22 + n /\ 14 + n + 1 = 15 + n BY <1>3
  <2> QED BY <2>1, <2>2, Zenon DEF Joint
<1>12. w4 = SrepToWire(s)
  BY <1>1, <1>4, <1>6, <1>8, <1>10, Zenon DEF SrepToWire
<1>13. /\ At(w4, 1, h) /\ At(w4, 11, <<s.ver, s.radi>>)
      /\ At(w4, 13, s.midp) /\ At(w4, 15, s.vers)
      /\ At(w4, 15 + n, s.root)
  BY <1>2, <1>5, <1>7, <1>9, <1>11, Zenon DEF Keeps
<1> QED BY <1>1, <1>11, <1>12, <1>13, Zenon

\* The same for draft 8.
LEMMA SrepDraft08Words ==
  ASSUME NEW s, IsSrepDraft08(s)
  PROVE  /\ Words(SrepDraft08ToWire(s), 17)
         /\ At(SrepDraft08ToWire(s), 1, Header(s.offsets, TagsSrepDraft08))
         /\ At(SrepDraft08ToWire(s), 7, <<s.radi>>)
         /\ At(SrepDraft08ToWire(s), 8, s.midp)
         /\ At(SrepDraft08ToWire(s), 10, s.root)
<1>1. PICK h : h = Header(s.offsets, TagsSrepDraft08) OBVIOUS
<1>2. Words(h, 6) /\ At(h, 1, h)
  <2>1. 3 \in Nat \ {0} /\ Words(TagsSrepDraft08, 3) BY TagLists
  <2>2. Words(s.offsets, 3 - 1) 
    <3>1. s.offsets = <<4, 12>> BY DEF IsSrepDraft08
    <3> QED BY <3>1 DEF Words
  <2>3. Words(h, 2 * 3) BY <1>1, <2>1, <2>2, HeaderWords
  <2>4. At(h, 1, h) BY <2>3, AtWhole DEF Words
  <2> QED BY <2>3, <2>4
<1>3. /\ Words(<<s.radi>>, 1)
      /\ Words(s.midp, 2)
      /\ Words(s.root, 8)
  <2>1. s.radi \in Int BY DEF IsSrepDraft08
  <2>2. Words(<<s.radi>>, 1) BY <2>1 DEF Words
  <2> QED BY <2>2 DEF IsSrepDraft08
<1>4. PICK w1 : w1 = h \o <<s.radi>> OBVIOUS
<1>5. Words(w1, 7) /\ At(w1, 7, <<s.radi>>) /\ Keeps(w1, h)
  <2>1. Joint(w1, h, 6, <<s.radi>>, 1) BY <1>3, <1>2, <1>4, Joined
  <2>2. 6 + 1 = 7 /\ 6 + 1 = 7 OBVIOUS
  <2> QED BY <2>1, <2>2, Zenon DEF Joint
<1>6. PICK w2 : w2 = w1 \o s.midp OBVIOUS
<1>7. Words(w2, 9) /\ At(w2, 8, s.midp) /\ Keeps(w2, w1)
  <2>1. Joint(w2, w1, 7, s.midp, 2) BY <1>3, <1>5, <1>6, Joined
  <2>2. 7 + 2 = 9 /\ 7 + 1 = 8 OBVIOUS
  <2> QED BY <2>1, <2>2, Zenon DEF Joint
<1>8. PICK w3 : w3 = w2 \o s.root OBVIOUS
<1>9. Words(w3, 17) /\ At(w3, 10, s.root) /\ Keeps(w3, w2)
  <2>1. Joint(w3, w2, 9, s.root, 8) BY <1>3, <1>7, <1>8, Joined
  <2>2. 9 + 8 = 17 /\ 9 + 1 = 10 OBVIOUS
  <2> QED BY <2>1, <2>2, Zenon DEF Joint
<1>10. w3 = SrepDraft08ToWire(s)
  BY <1>1, <1>4, <1>6, <1>8, Zenon DEF SrepDraft08ToWire
<1>11. /\ At(w3, 1, h) /\ At(w3, 7, <<s.radi>>)
      /\ At(w3, 8, s.midp) /\ At(w3, 10, s.root)
  BY <1>2, <1>5, <1>7, <1>9, Zenon DEF Keeps
<1> QED BY <1>1, <1>9, <1>10, <1>11, Zenon

\* Where the values of a response stand.
LEMMA ResponseLayout ==
  ASSUME NEW r, NEW k, NEW n, IsResponse(r, k, n)
  PROVE  /\ Words(ResponseToWire(r), 100 + k + n)
         /\ At(ResponseToWire(r), 1, Header(r.offsets, TagsResponse))
         /\ At(ResponseToWire(r), 15, r.sig)
         /\ At(ResponseToWire(r), 31, r.nonc)
         /\ At(ResponseToWire(r), 39, <<MessageTypeResponse>>)
         /\ At(ResponseToWire(r), 40, r.path)
         /\ At(ResponseToWire(r), 40 + k, SrepToWire(r.srep))
         /\ At(ResponseToWire(r), 62 + k + n, CertToWire(r.cert))
         /\ At(ResponseToWire(r), 100 + k + n, <<r.indx>>)
<1>1. PICK h : h = Header(r.offsets, TagsResponse) OBVIOUS
<1>2. Words(h, 14) /\ At(h, 1, h)
  <2>1. 7 \in Nat \ {0} /\ Words(TagsResponse, 7) BY TagLists
  <2>2. Words(r.offsets, 7 - 1) 
    <3>1. k \in Nat /\ n \in Nat BY DEF IsResponse, IsPath, IsSrep, Versions, Words
    <3>2. r.offsets = <<64, 96, 100, 100 + 4 * k, 188 + 4 * k + 4 * n, 340 + 4 * k + 4 * n>>
      BY DEF IsResponse
    <3> QED BY <3>1, <3>2 DEF Words
  <2>3. Words(h, 2 * 7) BY <1>1, <2>1, <2>2, HeaderWords
  <2>4. At(h, 1, h) BY <2>3, AtWhole DEF Words
  <2> QED BY <2>3, <2>4
<1>3. /\ Words(r.sig, 16)
      /\ Words(r.nonc, 8)
      /\ Words(<<MessageTypeResponse>>, 1)
      /\ Words(r.path, k)
      /\ Words(SrepToWire(r.srep), 22 + n)
      /\ Words(CertToWire(r.cert), 38)
      /\ Words(<<r.indx>>, 1)
      /\ k \in Nat /\ n \in Nat
  <2>1. k \in Nat /\ n \in Nat BY DEF IsResponse, IsPath, IsSrep, Versions, Words
  <2>2. Words(r.sig, 16) /\ Words(r.nonc, 8) /\ Words(r.path, k) BY DEF IsResponse, IsPath
  <2>3. r.indx \in Int BY DEF IsResponse
  <2>4. Words(<<r.indx>>, 1) /\ Words(<<MessageTypeResponse>>, 1)
    BY <2>3 DEF Words, MessageTypeResponse
  <2>5. Words(SrepToWire(r.srep), 22 + n) BY SrepWords DEF IsResponse
  <2>6. Words(CertToWire(r.cert), 38) BY CertWords DEF IsResponse
  <2> QED BY <2>1, <2>2, <2>4, <2>5, <2>6
<1>4. PICK w1 : w1 = h \o r.sig OBVIOUS
<1>5. Words(w1, 30) /\ At(w1, 15, r.sig) /\ Keeps(w1, h)
  <2>1. Joint(w1, h, 14, r.sig, 16) BY <1>3, <1>2, <1>4, Joined
  <2>2. 14 + 16 = 30 /\ 14 + 1 = 15 BY <1>3
  <2> QED BY <2>1, <2>2, Zenon DEF Joint
<1>6. PICK w2 : w2 = w1 \o r.nonc OBVIOUS
<1>7. Words(w2, 38) /\ At(w2, 31, r.nonc) /\ Keeps(w2, w1)
  <2>1. Joint(w2, w1, 30, r.nonc, 8) BY <1>3, <1>5, <1>6, Joined
  <2>2. 30 + 8 = 38 /\ 30 + 1 = 31 BY <1>3
  <2> QED BY <2>1, <2>2, Zenon DEF Joint
<1>8. PICK w3 : w3 = w2 \o <<MessageTypeResponse>> OBVIOUS
<1>9. Words(w3, 39) /\ At(w3, 39, <<MessageTypeResponse>>) /\ Keeps(w3, w2)
  <2>1. Joint(w3, w2, 38, <<MessageTypeResponse>>, 1) BY <1>3, <1>7, <1>8, Joined
  <2>2. 38 + 1 = 39 /\ 38 + 1 = 39 BY <1>3
  <2> QED BY <2>1, <2>2, Zenon DEF Joint
<1>10. PICK w4 : w4 = w3 \o r.path OBVIOUS
<1>11. Words(w4, 39 + k) /\ At(w4, 40, r.path) /\ Keeps(w4, w3)
  <2>1. Joint(w4, w3, 39, r.path, k) BY <1>3, <1>9, <1>10, Joined
  <2>2. 39 + 1 = 40 BY <1>3
  <2> QED BY <2>1, <2>2, Zenon DEF Joint
<1>12. PICK w5 : w5 = w4 \o SrepToWire(r.srep) OBVIOUS
<1>13. Words(w5, 61 + k + n) /\ At(w5, 40 + k, SrepToWire(r.srep)) /\ Keeps(w5, w4)
  <2>1. Joint(w5, w4, 39 + k, SrepToWire(r.srep), 22 + n) BY <1>3, <1>11, <1>12, Joined
  <2>2. 39 + k + (22 + n) = 61 + k + n /\ 39 + k + 1 = 40 + k BY <1>3
  <2> QED BY <2>1, <2>2, Zenon DEF Joint
<1>14. PICK w6 : w6 = w5 \o CertToWire(r.cert) OBVIOUS
<1>15. Words(w6, 99 + k + n) /\ At(w6, 62 + k + n, CertToWire(r.cert)) /\ Keeps(w6, w5)
  <2>1. Joint(w6, w5, 61 + k + n, CertToWire(r.cert), 38) BY <1>3, <1>13, <1>14, Joined
  <2>2. 61 + k + n + 38 = 99 + k + n /\ 61 + k + n + 1 = 62 + k + n BY <1>3
  <2> QED BY <2>1, <2>2, Zenon DEF Joint
<1>16. PICK w7 : w7 = w6 \o <<r.indx>> OBVIOUS
<1>17. Words(w7, 100 + k + n) /\ At(w7, 100 + k + n, <<r.indx>>) /\ Keeps(w7, w6)
  <2>1. Joint(w7, w6, 99 + k + n, <<r.indx>>, 1) BY <1>3, <1>15, <1>16, Joined
  <2>2. 99 + k + n + 1 = 100 + k + n /\ 99 + k + n + 1 = 100 + k + n BY <1>3
  <2> QED BY <2>1, <2>2, Zenon DEF Joint
<1>18. w7 = ResponseToWire(r)
  BY <1>1, <1>4, <1>6, <1>8, <1>10, <1>12, <1>14, <1>16, Zenon DEF ResponseToWire
<1>19. /\ At(w7, 1, h) /\ At(w7, 15, r.sig)
      /\ At(w7, 31, r.nonc) /\ At(w7, 39, <<MessageTypeResponse>>)
      /\ At(w7, 40, r.path) /\ At(w7, 40 + k, SrepToWire(r.srep))
      /\ At(w7, 62 + k + n, CertToWire(r.cert)) /\ At(w7, 100 + k + n, <<r.indx>>)
  BY <1>2, <1>5, <1>7, <1>9, <1>11, <1>13, <1>15, <1>17, Zenon DEF Keeps
<1> QED BY <1>1, <1>17, <1>18, <1>19, Zenon

\* The same for draft 8.
LEMMA ResponseDraft08Layout ==
  ASSUME NEW r, NEW k, IsResponseDraft08(r, k)
  PROVE  /\ Words(ResponseDraft08ToWire(r), 85 + k)
         /\ At(ResponseDraft08ToWire(r), 1, Header(r.offsets, TagsResponseDraft08))
         /\ At(ResponseDraft08ToWire(r), 13, r.sig)
         /\ At(ResponseDraft08ToWire(r), 29, <<r.ver>>)
         /\ At(ResponseDraft08ToWire(r), 30, r.path)
         /\ At(ResponseDraft08ToWire(r), 30 + k, SrepDraft08ToWire(r.srep))
         /\ At(ResponseDraft08ToWire(r), 47 + k, CertToWire(r.cert))
         /\ At(ResponseDraft08ToWire(r), 85 + k, <<r.indx>>)
<1>1. PICK h : h = Header(r.offsets, TagsResponseDraft08) OBVIOUS
<1>2. Words(h, 12) /\ At(h, 1, h)
  <2>1. 6 \in Nat \ {0} /\ Words(TagsResponseDraft08, 6) BY TagLists
  <2>2. Words(r.offsets, 6 - 1) 
    <3>1. k \in Nat BY DEF IsResponseDraft08, IsPath, Words
    <3>2. r.offsets = <<64, 68, 68 + 4 * k, 136 + 4 * k, 288 + 4 * k>> BY DEF IsResponseDraft08
    <3> QED BY <3>1, <3>2 DEF Words
  <2>3. Words(h, 2 * 6) BY <1>1, <2>1, <2>2, HeaderWords
  <2>4. At(h, 1, h) BY <2>3, AtWhole DEF Words
  <2> QED BY <2>3, <2>4
<1>3. /\ Words(r.sig, 16)
      /\ Words(<<r.ver>>, 1)
      /\ Words(r.path, k)
      /\ Words(SrepDraft08ToWire(r.srep), 17)
      /\ Words(CertToWire(r.cert), 38)
      /\ Words(<<r.indx>>, 1)
      /\ k \in Nat
  <2>1. k \in Nat BY DEF IsResponseDraft08, IsPath, Words
  <2>2. Words(r.sig, 16) /\ Words(r.path, k) BY DEF IsResponseDraft08, IsPath
  <2>3. r.ver \in Int /\ r.indx \in Int BY DEF IsResponseDraft08, RfcDraft08, RfcDraft14
  <2>4. Words(<<r.indx>>, 1) /\ Words(<<r.ver>>, 1) BY <2>3 DEF Words
  <2>5. Words(SrepDraft08ToWire(r.srep), 17) BY SrepDraft08Words DEF IsResponseDraft08
  <2>6. Words(CertToWire(r.cert), 38) BY CertWords DEF IsResponseDraft08
  <2> QED BY <2>1, <2>2, <2>4, <2>5, <2>6
<1>4. PICK w1 : w1 = h \o r.sig OBVIOUS
<1>5. Words(w1, 28) /\ At(w1, 13, r.sig) /\ Keeps(w1, h)
  <2>1. Joint(w1, h, 12, r.sig, 16) BY <1>3, <1>2, <1>4, Joined
  <2>2. 12 + 16 = 28 /\ 12 + 1 = 13 BY <1>3
  <2> QED BY <2>1, <2>2, Zenon DEF Joint
<1>6. PICK w2 : w2 = w1 \o <<r.ver>> OBVIOUS
<1>7. Words(w2, 29) /\ At(w2, 29, <<r.ver>>) /\ Keeps(w2, w1)
  <2>1. Joint(w2, w1, 28, <<r.ver>>, 1) BY <1>3, <1>5, <1>6, Joined
  <2>2. 28 + 1 = 29 /\ 28 + 1 = 29 BY <1>3
  <2> QED BY <2>1, <2>2, Zenon DEF Joint
<1>8. PICK w3 : w3 = w2 \o r.path OBVIOUS
<1>9. Words(w3, 29 + k) /\ At(w3, 30, r.path) /\ Keeps(w3, w2)
  <2>1. Joint(w3, w2, 29, r.path, k) BY <1>3, <1>7, <1>8, Joined
  <2>2. 29 + 1 = 30 BY <1>3
  <2> QED BY <2>1, <2>2, Zenon DEF Joint
<1>10. PICK w4 : w4 = w3 \o SrepDraft08ToWire(r.srep) OBVIOUS
<1>11. Words(w4, 46 + k) /\ At(w4, 30 + k, SrepDraft08ToWire(r.srep)) /\ Keeps(w4, w3)
  <2>1. Joint(w4, w3, 29 + k, SrepDraft08ToWire(r.srep), 17) BY <1>3, <1>9, <1>10, Joined
  <2>2. 29 + k + 17 = 46 + k /\ 29 + k + 1 = 30 + k BY <1>3
  <2> QED BY <2>1, <2>2, Zenon DEF Joint
<1>12. PICK w5 : w5 = w4 \o CertToWire(r.cert) OBVIOUS
<1>13. Words(w5, 84 + k) /\ At(w5, 47 + k, CertToWire(r.cert)) /\ Keeps(w5, w4)
  <2>1. Joint(w5, w4, 46 + k, CertToWire(r.cert), 38) BY <1>3, <1>11, <1>12, Joined
  <2>2. 46 + k + 38 = 84 + k /\ 46 + k + 1 = 47 + k BY <1>3
  <2> QED BY <2>1, <2>2, Zenon DEF Joint
<1>14. PICK w6 : w6 = w5 \o <<r.indx>> OBVIOUS
<1>15. Words(w6, 85 + k) /\ At(w6, 85 + k, <<r.indx>>) /\ Keeps(w6, w5)
  <2>1. Joint(w6, w5, 84 + k, <<r.indx>>, 1) BY <1>3, <1>13, <1>14, Joined
  <2>2. 84 + k + 1 = 85 + k /\ 84 + k + 1 = 85 + k BY <1>3
  <2> QED BY <2>1, <2>2, Zenon DEF Joint
<1>16. w6 = ResponseDraft08ToWire(r)
  BY <1>1, <1>4, <1>6, <1>8, <1>10, <1>12, <1>14, Zenon DEF ResponseDraft08ToWire
<1>17. /\ At(w6, 1, h) /\ At(w6, 13, r.sig)
      /\ At(w6, 29, <<r.ver>>) /\ At(w6, 30, r.path)
      /\ At(w6, 30 + k, SrepDraft08ToWire(r.srep)) /\ At(w6, 47 + k, CertToWire(r.cert))
      /\ At(w6, 85 + k, <<r.indx>>)
  BY <1>2, <1>5, <1>7, <1>9, <1>11, <1>13, <1>15, Zenon DEF Keeps
<1> QED BY <1>1, <1>15, <1>16, <1>17, Zenon

\* VersionList::from_wire_n gives back versions none of which is the old name 0.
LEMMA VersionsReads ==
  ASSUME NEW v, NEW n, Words(v, n), n <= MAX_VERSIONS, \A i \in 1..n : v[i] # 0,
         NEW b, NEW p, At(b, p, v)
  PROVE  /\ VersionsRead(n) = n /\ VersionsAt(b, p, n) = v
         /\ \A i \in 1..n : b[p + i - 1] = v[i]
<1>1. v \in Seq(Int) /\ Len(v) = n /\ n \in Nat BY DEF Words
<1>2. VersionsRead(n) = n BY <1>1 DEF VersionsRead, MAX_VERSIONS
<1>3. \A i \in 1..n : b[p + i - 1] = v[i] BY <1>1 DEF At
<1>4. VersionsAt(b, p, n) = [i \in 1..n |-> v[i]]
  <2>1. \A i \in 1..n : VersionOf(b[p + i - 1]) = v[i] BY <1>3 DEF VersionOf
  <2>2. VersionsAt(b, p, n) = [i \in 1..n |-> VersionOf(b[p + i - 1])]
    BY <1>2, Zenon DEF VersionsAt
  <2> QED BY <2>1, <2>2, Zenon
<1>5. v = [i \in 1..n |-> v[i]] BY <1>1
<1> QED BY <1>2, <1>3, <1>4, <1>5, Zenon

\* A list of at most 32 supported versions is read whole.
LEMMA VersionsAccepted ==
  ASSUME NEW v, NEW n, Versions(v, n), NEW b, NEW p, At(b, p, v)
  PROVE  /\ VersionsRead(n) = n /\ VersionsAt(b, p, n) = v /\ VersionsOk(b, p, n)
<1>1. Words(v, n) /\ n <= MAX_VERSIONS BY DEF Versions
<1>2. \A i \in 1..n : v[i] \in {RfcDraft08, RfcDraft14} /\ (i > 1 => v[i - 1] <= v[i])
  BY DEF Versions
<1>3. \A i \in 1..n : v[i] # 0 BY <1>2 DEF RfcDraft08, RfcDraft14
<1>4. /\ VersionsRead(n) = n /\ VersionsAt(b, p, n) = v
      /\ \A i \in 1..n : b[p + i - 1] = v[i]
  BY <1>1, <1>3, VersionsReads
<1>5. Has(b, p, n) BY <1>1, GetAt DEF Words
<1>6. \A i \in 1..n : VersionOk(b[p + i - 1]) BY <1>2, <1>4 DEF VersionOk
<1>7. \A i \in 2..Len(v) : v[i - 1] <= v[i]
  <2>1. Len(v) = n /\ n \in Nat BY <1>1 DEF Words
  <2>2. \A i \in 2..n : i \in 1..n /\ i > 1 BY <2>1
  <2> QED BY <1>2, <2>1, <2>2
<1> QED BY <1>4, <1>5, <1>6, <1>7, Zenon DEF VersionsOk

\* from_wire of SREP.
LEMMA SrepReads ==
  ASSUME NEW s, NEW n, IsSrep(s, n), NEW b, NEW p, At(b, p, SrepToWire(s))
  PROVE  SrepOk(b, p) /\ SrepFrom(b, p) = s /\ SrepLen(b, p) = 22 + n
<1>1. PICK w : w = SrepToWire(s) OBVIOUS
<1>2. PICK h : h = Header(s.offsets, TagsSrep) OBVIOUS
<1>3. /\ Words(w, 22 + n) /\ At(w, 1, h) /\ At(w, 11, <<s.ver, s.radi>>) /\ At(w, 13, s.midp)
      /\ At(w, 15, s.vers) /\ At(w, 15 + n, s.root) /\ At(b, p, w)
  BY <1>1, <1>2, SrepWords
<1>4. /\ Words(s.midp, 2) /\ Words(s.root, 8) /\ Versions(s.vers, n) /\ Words(s.vers, n)
      /\ s.offsets = <<4, 8, 16, 16 + 4 * n>> /\ n # 0
      /\ s.ver \in {RfcDraft08, RfcDraft14} /\ s.radi \in Int
  BY DEF IsSrep, Versions
<1>5. p \in Nat \ {0} /\ n \in Nat /\ s.ver \in Int
  BY <1>4 DEF At, Words, RfcDraft08, RfcDraft14
<1>6. Has(b, p, 22 + n) BY <1>3, GetAt DEF Words
<1>7. b[p + 10] = s.ver /\ b[p + 11] = s.radi /\ Has(b, p + 10, 4)
  <2>1. p + 10 = p + 11 - 1 BY <1>5
  <2>2. At(b, p + 10, <<s.ver, s.radi>>) BY <1>3, <2>1, AtInside
  <2>3. b[p + 10 + 1 - 1] = s.ver /\ b[p + 10 + 2 - 1] = s.radi
    <3>1. PICK m : m = <<s.ver, s.radi>> OBVIOUS
    <3>2. 1 \in 1..Len(m) /\ 2 \in 1..Len(m) /\ m[1] = s.ver /\ m[2] = s.radi BY <3>1
    <3>3. \A k \in 1..Len(m) : b[p + 10 + k - 1] = m[k] BY <2>2, <3>1 DEF At
    <3> QED BY <3>2, <3>3, Zenon
  <2>4. p + 10 + 1 - 1 = p + 10 /\ p + 10 + 2 - 1 = p + 11 BY <1>5
  <2>5. Has(b, p + 10, 4)
    <3>1. Len(b) \in Nat BY <2>2, LenProperties DEF At
    <3> QED BY <1>5, <1>6, <3>1 DEF Has
  <2> QED BY <2>3, <2>4, <2>5
<1>8. Found(b, p + 12, s.midp, 2)
  <2>1. p + 12 = p + 13 - 1 BY <1>5
  <2> QED BY <1>3, <1>4, <2>1, FoundInside
<1>9. /\ VersionsRead(n) = n /\ VersionsAt(b, p + 14, n) = s.vers /\ VersionsOk(b, p + 14, n)
  <2>1. p + 14 = p + 15 - 1 BY <1>5
  <2>2. At(b, p + 14, s.vers) BY <1>3, <2>1, AtInside
  <2> QED BY <1>4, <2>2, VersionsAccepted
<1>10. Found(b, p + (22 + n) - 8, s.root, 8)
  <2>1. p + (22 + n) - 8 = p + (15 + n) - 1 BY <1>5
  <2> QED BY <1>3, <1>4, <2>1, FoundInside
<1>11. HeaderOk(b, p, 5) /\ OffsetsAt(b, p, 5) = s.offsets /\ TagsAt(b, p, 5) = TagsSrep
  <2>1. At(b, p, h)
    <3>1. p = p + 1 - 1 BY <1>5
    <3> QED BY <1>3, <3>1, AtInside
  <2>2. 5 \in Nat \ {0} /\ Words(TagsSrep, 5) /\ GoodTags(TagsSrep) BY TagLists
  <2>3. Words(s.offsets, 5 - 1) /\ GoodOffsets(s.offsets)
    <3>1. (16 + 4 * n) % 4 = 0 /\ 16 <= 16 + 4 * n BY <1>5
    <3> QED BY SMTT(40), <1>4, <1>5, <3>1 DEF Words, GoodOffsets
  <2> QED BY <1>2, <2>1, <2>2, <2>3, HeaderReads, HeaderAccepted
<1>12. VersWords(b, p) = n
  <2>1. OffsetsAt(b, p, 5)[4] = 16 + 4 * n /\ OffsetsAt(b, p, 5)[3] = 16 BY <1>4, <1>11
  <2>2. PICK x, y : x = OffsetsAt(b, p, 5)[4] /\ y = OffsetsAt(b, p, 5)[3] OBVIOUS
  <2>3. x - y = 4 * n BY <1>5, <2>1, <2>2
  <2>4. (4 * n) \div 4 = n BY <1>5
  <2>5. VersWords(b, p) = (x - y) \div 4 BY <2>2 DEF VersWords
  <2> QED BY <2>3, <2>4, <2>5
<1>13. SrepLen(b, p) = 22 + n BY <1>9, <1>12 DEF SrepLen
<1>14. check_offset_bounds(b, p, 5)
  <2>1. Len(b) \in Nat BY LenProperties DEF At
  <2>2. 16 + 4 * n <= 4 * (Len(b) - (p + 10 - 1)) BY <1>5, <1>6, <2>1 DEF Has
  <2>3. \A i \in 1..4 : s.offsets[i] <= 4 * (Len(b) - (p + 10 - 1)) BY <1>4, <1>5, <2>1, <2>2
  <2>4. HeaderLen(5) = 10 /\ 5 - 1 = 4 BY DEF HeaderLen
  <2> QED BY <1>11, <2>3, <2>4 DEF check_offset_bounds
<1>15. Get(b, p + 1, 3) = <<4, 8, 16>>
  <2>1. At(b, p + 1, <<4, 8, 16>>)
    <3>1. At(h, 2, s.offsets)
      <4>1. 5 \in Nat \ {0} /\ Words(TagsSrep, 5) BY TagLists
      <4>2. Words(s.offsets, 5 - 1) BY <1>4, <1>5 DEF Words
      <4> QED BY <1>2, <4>1, <4>2, HeaderWords
    <3>2. At(b, p, h)
      <4>1. p = p + 1 - 1 BY <1>5
      <4> QED BY <1>3, <4>1, AtInside
    <3>3. At(b, p + 1, s.offsets)
      <4>1. p + 1 = p + 2 - 1 BY <1>5
      <4> QED BY <3>1, <3>2, <4>1, AtInside
    <3>4. At(s.offsets, 1, <<4, 8, 16>>) BY <1>4, <1>5 DEF At
    <3>5. p + 1 = (p + 1) + 1 - 1 BY <1>5
    <3> QED BY <3>3, <3>4, <3>5, AtInside
  <2>2. Len(<<4, 8, 16>>) = 3 OBVIOUS
  <2> QED BY <2>1, <2>2, GetAt
<1>16. SrepOk(b, p)
  <2>1. VersionOk(b[p + 10]) BY <1>4, <1>7 DEF VersionOk
  <2> QED BY <1>4, <1>6, <1>7, <1>9, <1>11, <1>12, <1>13, <1>14, <1>15, <2>1, Zenon DEF SrepOk
<1>17. SrepFrom(b, p) = s
  <2>1. VersionOf(b[p + 10]) = s.ver BY <1>4, <1>7 DEF VersionOf, RfcDraft08, RfcDraft14
  <2>2. Get(b, p + SrepLen(b, p) - 8, 8) = s.root BY <1>10, <1>13, Zenon DEF Found
  <2>3. Get(b, p + 12, 2) = s.midp BY <1>8 DEF Found
  <2> QED BY <1>7, <1>9, <1>11, <1>12, <2>1, <2>2, <2>3, Zenon DEF SrepFrom, IsSrep
<1> QED BY <1>13, <1>16, <1>17

\* The signed part of a draft 8 response is read as it was written.
LEMMA SrepDraft08Reads ==
  ASSUME NEW s, IsSrepDraft08(s), NEW b, NEW p, At(b, p, SrepDraft08ToWire(s))
  PROVE  SrepDraft08Ok(b, p) /\ SrepDraft08From(b, p) = s
<1>1. PICK w : w = SrepDraft08ToWire(s) OBVIOUS
<1>2. PICK h : h = Header(s.offsets, TagsSrepDraft08) OBVIOUS
<1>3. /\ Words(w, 17) /\ At(w, 1, h) /\ At(w, 7, <<s.radi>>) /\ At(w, 8, s.midp)
      /\ At(w, 10, s.root) /\ At(b, p, w)
  BY <1>1, <1>2, SrepDraft08Words
<1>4. /\ Words(s.midp, 2) /\ Words(s.root, 8) /\ s.offsets = <<4, 12>> /\ s.radi \in Int
  BY DEF IsSrepDraft08
<1>5. p \in Nat \ {0} BY DEF At
<1>6. Has(b, p, 17) BY <1>3, GetAt DEF Words
<1>7. b[p + 6] = s.radi
  <2>1. p + 6 = p + 7 - 1 BY <1>5
  <2>2. At(b, p + 6, <<s.radi>>) BY <1>3, <2>1, AtInside
  <2>3. b[p + 6 + 1 - 1] = <<s.radi>>[1] BY <2>2 DEF At
  <2>4. p + 6 + 1 - 1 = p + 6 BY <1>5
  <2> QED BY <2>3, <2>4
<1>8. Found(b, p + 7, s.midp, 2)
  <2>1. p + 7 = p + 8 - 1 BY <1>5
  <2> QED BY <1>3, <1>4, <2>1, FoundInside
<1>9. Found(b, p + 9, s.root, 8)
  <2>1. p + 9 = p + 10 - 1 BY <1>5
  <2> QED BY <1>3, <1>4, <2>1, FoundInside
<1>10. HeaderOk(b, p, 3) /\ OffsetsAt(b, p, 3) = s.offsets /\ TagsAt(b, p, 3) = TagsSrepDraft08
  <2>1. At(b, p, h)
    <3>1. p = p + 1 - 1 BY <1>5
    <3> QED BY <1>3, <3>1, AtInside
  <2>2. 3 \in Nat \ {0} /\ Words(TagsSrepDraft08, 3) /\ GoodTags(TagsSrepDraft08) BY TagLists
  <2>3. Words(s.offsets, 3 - 1) /\ GoodOffsets(s.offsets) BY <1>4 DEF Words, GoodOffsets
  <2> QED BY <1>2, <2>1, <2>2, <2>3, HeaderReads, HeaderAccepted
<1>11. check_offset_bounds(b, p, 3)
  <2>1. Len(b) \in Nat BY LenProperties DEF At
  <2>2. 12 <= 4 * (Len(b) - (p + 6 - 1)) BY <1>5, <1>6, <2>1 DEF Has
  <2>3. \A i \in 1..2 : s.offsets[i] <= 4 * (Len(b) - (p + 6 - 1)) BY <1>4, <1>5, <2>1, <2>2
  <2>4. HeaderLen(3) = 6 /\ 3 - 1 = 2 BY DEF HeaderLen
  <2> QED BY <1>10, <2>3, <2>4 DEF check_offset_bounds
<1>12. SrepDraft08Ok(b, p) BY <1>6, <1>10, <1>11 DEF SrepDraft08Ok
<1>13. SrepDraft08From(b, p) = s
  BY <1>7, <1>8, <1>9, <1>10, Zenon DEF SrepDraft08From, Found, IsSrepDraft08
<1> QED BY <1>12, <1>13

\* Response::from_wire gives back the response that to_wire was given.
THEOREM ResponseRoundTrip ==
  ASSUME NEW r, NEW k, NEW n, IsResponse(r, k, n), NEW w, w = ResponseToWire(r)
  PROVE  /\ ResponseOk(w) /\ ResponseFrom(w) = r /\ Words(w, 100 + k + n)
         /\ At(w, 40 + k, SrepToWire(r.srep)) /\ w[1] = 7
<1>1. PICK h : h = Header(r.offsets, TagsResponse) OBVIOUS
<1>2. /\ Words(w, 100 + k + n) /\ At(w, 1, h) /\ At(w, 15, r.sig) /\ At(w, 31, r.nonc)
      /\ At(w, 39, <<MessageTypeResponse>>) /\ At(w, 40, r.path)
      /\ At(w, 40 + k, SrepToWire(r.srep)) /\ At(w, 62 + k + n, CertToWire(r.cert))
      /\ At(w, 100 + k + n, <<r.indx>>)
  BY <1>1, ResponseLayout
<1>3. /\ Words(r.sig, 16) /\ Words(r.nonc, 8) /\ Words(r.path, k) /\ k % 8 = 0 /\ k <= 256
      /\ IsSrep(r.srep, n) /\ IsCert(r.cert) /\ r.indx \in Int
      /\ r.offsets = <<64, 96, 100, 100 + 4 * k, 188 + 4 * k + 4 * n, 340 + 4 * k + 4 * n>>
  BY DEF IsResponse, IsPath
<1>4. k \in Nat /\ n \in Nat /\ Len(w) = 100 + k + n
  BY <1>2, <1>3 DEF IsSrep, Versions, Words
<1>5. /\ HeaderOk(w, 1, 7) /\ OffsetsAt(w, 1, 7) = r.offsets /\ TagsAt(w, 1, 7) = TagsResponse
      /\ w[1] = 7
  <2>1. 7 \in Nat \ {0} /\ Words(TagsResponse, 7) /\ GoodTags(TagsResponse) BY TagLists
  <2>2. Words(r.offsets, 7 - 1) /\ GoodOffsets(r.offsets)
    <3>1. /\ (100 + 4 * k) % 4 = 0 /\ (188 + 4 * k + 4 * n) % 4 = 0
          /\ (340 + 4 * k + 4 * n) % 4 = 0
      BY <1>4
    <3>2. /\ 100 <= 100 + 4 * k /\ 100 + 4 * k <= 188 + 4 * k + 4 * n
          /\ 188 + 4 * k + 4 * n <= 340 + 4 * k + 4 * n
      BY <1>4
    <3>3. PICK x, y, z : x = 100 + 4 * k /\ y = 188 + 4 * k + 4 * n /\ z = 340 + 4 * k + 4 * n
      OBVIOUS
    <3>4. x \in Int /\ y \in Int /\ z \in Int BY <1>4, <3>3
    <3>5. r.offsets = <<64, 96, 100, x, y, z>> BY <1>3, <3>3
    <3>6. /\ x % 4 = 0 /\ y % 4 = 0 /\ z % 4 = 0 /\ 100 <= x /\ x <= y /\ y <= z
      BY <3>1, <3>2, <3>3
    <3> QED BY <3>4, <3>5, <3>6 DEF Words, GoodOffsets
  <2>3. HeaderOk(w, 1, 7) BY <1>1, <1>2, <2>1, <2>2, HeaderAccepted
  <2> QED BY <1>1, <1>2, <2>1, <2>2, <2>3, HeaderReads
<1>6. PathBytes(w) = 4 * k /\ PathBytes(w) \div 4 = k
  <2>1. PICK x, y : x = OffsetsAt(w, 1, 7)[4] /\ y = OffsetsAt(w, 1, 7)[3] OBVIOUS
  <2>2. x = 100 + 4 * k /\ y = 100 BY <1>3, <1>5, <2>1
  <2>3. PathBytes(w) = x - y BY <2>1 DEF PathBytes
  <2>4. x - y = 4 * k BY <1>4, <2>2
  <2>5. (4 * k) \div 4 = k BY <1>4
  <2> QED BY <2>3, <2>4, <2>5
<1>7. SrepAt(w) = 40 + k BY <1>6 DEF SrepAt
<1>8. /\ SrepOk(w, 40 + k) /\ SrepFrom(w, 40 + k) = r.srep /\ SrepLen(w, 40 + k) = 22 + n
  BY <1>2, <1>3, SrepReads
<1>9. CertAt(w) = 62 + k + n
  <2>1. CertAt(w) = (40 + k) + (22 + n) BY <1>7, <1>8 DEF CertAt
  <2> QED BY <1>4, <2>1
<1>10. CertOk(w, 62 + k + n) /\ CertFrom(w, 62 + k + n) = r.cert BY <1>2, <1>3, CertReads
<1>11. w[39] = MessageTypeResponse
  <2>1. PICK m : m = <<MessageTypeResponse>> OBVIOUS
  <2>2. 1 \in 1..Len(m) /\ m[1] = MessageTypeResponse /\ 39 + 1 - 1 = 39 BY <2>1
  <2>3. w[39 + 1 - 1] = m[1] BY <1>2, <2>1, <2>2 DEF At
  <2> QED BY <2>2, <2>3
<1>12. w[62 + k + n + 38] = r.indx /\ Has(w, 62 + k + n + 38, 1)
  <2>1. PICK m : m = <<r.indx>> OBVIOUS
  <2>2. 1 \in 1..Len(m) /\ m[1] = r.indx /\ 100 + k + n + 1 - 1 = 62 + k + n + 38 BY <1>4, <2>1
  <2>3. w[100 + k + n + 1 - 1] = m[1] BY <1>2, <2>1, <2>2 DEF At
  <2> QED BY <1>4, <2>2, <2>3 DEF Has
<1>13. /\ Get(w, 15, 16) = r.sig /\ Get(w, 31, 8) = r.nonc /\ Get(w, 40, k) = r.path
       /\ Has(w, 40, k) /\ Has(w, 15, 25)
  <2>2. Has(w, 15, 25) BY <1>4 DEF Has
  <2>3. Found(w, 15, r.sig, 16) BY <1>2, <1>3, FoundAt
  <2>4. Found(w, 31, r.nonc, 8) BY <1>2, <1>3, FoundAt
  <2>5. Found(w, 40, r.path, k) BY <1>2, <1>3, FoundAt
  <2> QED BY <2>2, <2>3, <2>4, <2>5 DEF Found
<1>14. check_offset_bounds(w, 1, 7)
  <2>1. 4 * (Len(w) - (1 + HeaderLen(7) - 1)) = 344 + 4 * k + 4 * n BY <1>4 DEF HeaderLen
  <2>2. \A i \in 1..6 : r.offsets[i] <= 344 + 4 * k + 4 * n
    <3>1. PICK x, y, z, l : /\ x = 100 + 4 * k /\ y = 188 + 4 * k + 4 * n
                            /\ z = 340 + 4 * k + 4 * n /\ l = 344 + 4 * k + 4 * n
      OBVIOUS
    <3>2. 100 <= l /\ x <= l /\ y <= l /\ z <= l BY <1>4, <3>1
    <3>3. l \in Int BY <1>4, <3>1
    <3>4. r.offsets = <<64, 96, 100, x, y, z>> BY <1>3, <3>1
    <3>5. \A i \in 1..6 : r.offsets[i] <= l BY <3>2, <3>3, <3>4
    <3> QED BY <3>1, <3>5
  <2>3. 7 - 1 = 6 OBVIOUS
  <2> QED BY <1>5, <2>1, <2>2, <2>3 DEF check_offset_bounds
<1>15. PathOk(w, 40, PathBytes(w))
  <2>1. 4 * k <= 1024 /\ (4 * k) % 32 = 0 BY <1>3, <1>4
  <2> QED BY <1>6, <1>13, <2>1 DEF PathOk
<1>16. ResponseOk(w)
  BY <1>5, <1>7, <1>8, <1>9, <1>10, <1>11, <1>12, <1>13, <1>14, <1>15, Zenon DEF ResponseOk
<1>17. ResponseFrom(w) = r
  <2>1. ResponseFrom(w) = [sig |-> r.sig, nonc |-> r.nonc, path |-> r.path, srep |-> r.srep,
                           cert |-> r.cert, indx |-> r.indx, offsets |-> r.offsets]
    BY <1>5, <1>6, <1>7, <1>8, <1>9, <1>10, <1>12, <1>13, Zenon DEF ResponseFrom
  <2> QED BY <2>1 DEF IsResponse
<1> QED BY <1>2, <1>5, <1>16, <1>17

\* ResponseDraft08::from_wire gives back the response that to_wire was given.
THEOREM ResponseDraft08RoundTrip ==
  ASSUME NEW r, NEW k, IsResponseDraft08(r, k), NEW w, w = ResponseDraft08ToWire(r)
  PROVE  /\ ResponseDraft08Ok(w) /\ ResponseDraft08From(w) = r /\ Words(w, 85 + k)
         /\ At(w, 30 + k, SrepDraft08ToWire(r.srep)) /\ w[1] = 6
<1>1. PICK h : h = Header(r.offsets, TagsResponseDraft08) OBVIOUS
<1>2. /\ Words(w, 85 + k) /\ At(w, 1, h) /\ At(w, 13, r.sig) /\ At(w, 29, <<r.ver>>)
      /\ At(w, 30, r.path) /\ At(w, 30 + k, SrepDraft08ToWire(r.srep))
      /\ At(w, 47 + k, CertToWire(r.cert)) /\ At(w, 85 + k, <<r.indx>>)
  BY <1>1, ResponseDraft08Layout
<1>3. /\ Words(r.sig, 16) /\ Words(r.path, k) /\ k % 8 = 0 /\ k <= 256
      /\ r.ver \in {RfcDraft08, RfcDraft14}
      /\ IsSrepDraft08(r.srep) /\ IsCert(r.cert) /\ r.indx \in Int
      /\ r.offsets = <<64, 68, 68 + 4 * k, 136 + 4 * k, 288 + 4 * k>>
  BY DEF IsResponseDraft08, IsPath
<1>4. k \in Nat /\ Len(w) = 85 + k BY <1>2, <1>3 DEF Words
<1>5. /\ HeaderOk(w, 1, 6) /\ OffsetsAt(w, 1, 6) = r.offsets
      /\ TagsAt(w, 1, 6) = TagsResponseDraft08 /\ w[1] = 6
  <2>1. 6 \in Nat \ {0} /\ Words(TagsResponseDraft08, 6) /\ GoodTags(TagsResponseDraft08)
    BY TagLists
  <2>2. Words(r.offsets, 6 - 1) /\ GoodOffsets(r.offsets)
    <3>1. (68 + 4 * k) % 4 = 0 /\ (136 + 4 * k) % 4 = 0 /\ (288 + 4 * k) % 4 = 0 BY <1>4
    <3>2. 68 <= 68 + 4 * k /\ 68 + 4 * k <= 136 + 4 * k /\ 136 + 4 * k <= 288 + 4 * k BY <1>4
    <3>3. PICK x, y, z : x = 68 + 4 * k /\ y = 136 + 4 * k /\ z = 288 + 4 * k OBVIOUS
    <3>4. x \in Int /\ y \in Int /\ z \in Int BY <1>4, <3>3
    <3>5. r.offsets = <<64, 68, x, y, z>> BY <1>3, <3>3
    <3>6. /\ x % 4 = 0 /\ y % 4 = 0 /\ z % 4 = 0 /\ 68 <= x /\ x <= y /\ y <= z
      BY <3>1, <3>2, <3>3
    <3> QED BY <3>4, <3>5, <3>6 DEF Words, GoodOffsets
  <2>3. HeaderOk(w, 1, 6) BY <1>1, <1>2, <2>1, <2>2, HeaderAccepted
  <2> QED BY <1>1, <1>2, <2>1, <2>2, <2>3, HeaderReads
<1>6. PathBytesDraft08(w) = 4 * k /\ PathBytesDraft08(w) \div 4 = k
  <2>1. PICK x, y : x = OffsetsAt(w, 1, 6)[3] /\ y = OffsetsAt(w, 1, 6)[2] OBVIOUS
  <2>2. x = 68 + 4 * k /\ y = 68 BY <1>3, <1>5, <2>1
  <2>3. PathBytesDraft08(w) = x - y BY <2>1 DEF PathBytesDraft08
  <2>4. x - y = 4 * k BY <1>4, <2>2
  <2>5. (4 * k) \div 4 = k BY <1>4
  <2> QED BY <2>3, <2>4, <2>5
<1>7. SrepAtDraft08(w) = 30 + k BY <1>6 DEF SrepAtDraft08
<1>8. SrepDraft08Ok(w, 30 + k) /\ SrepDraft08From(w, 30 + k) = r.srep
  BY <1>2, <1>3, SrepDraft08Reads
<1>9. CertAtDraft08(w) = 47 + k
  <2>1. CertAtDraft08(w) = (30 + k) + 17 BY <1>7 DEF CertAtDraft08
  <2> QED BY <1>4, <2>1
<1>10. CertOk(w, 47 + k) /\ CertFrom(w, 47 + k) = r.cert BY <1>2, <1>3, CertReads
<1>11. w[29] = r.ver
  <2>1. PICK m : m = <<r.ver>> OBVIOUS
  <2>2. 1 \in 1..Len(m) /\ m[1] = r.ver /\ 29 + 1 - 1 = 29 BY <2>1
  <2>3. w[29 + 1 - 1] = m[1] BY <1>2, <2>1, <2>2 DEF At
  <2> QED BY <2>2, <2>3
<1>12. w[47 + k + 38] = r.indx /\ Has(w, 47 + k + 38, 1)
  <2>1. PICK m : m = <<r.indx>> OBVIOUS
  <2>2. 1 \in 1..Len(m) /\ m[1] = r.indx /\ 85 + k + 1 - 1 = 47 + k + 38 BY <1>4, <2>1
  <2>3. w[85 + k + 1 - 1] = m[1] BY <1>2, <2>1, <2>2 DEF At
  <2> QED BY <1>4, <2>2, <2>3 DEF Has
<1>13. /\ Get(w, 13, 16) = r.sig /\ Get(w, 30, k) = r.path
       /\ Has(w, 30, k) /\ Has(w, 13, 17)
  <2>2. Has(w, 13, 17) BY <1>4 DEF Has
  <2>3. Found(w, 13, r.sig, 16) BY <1>2, <1>3, FoundAt
  <2>4. Found(w, 30, r.path, k) BY <1>2, <1>3, FoundAt
  <2> QED BY <2>2, <2>3, <2>4 DEF Found
<1>14. check_offset_bounds(w, 1, 6)
  <2>1. 4 * (Len(w) - (1 + HeaderLen(6) - 1)) = 292 + 4 * k BY <1>4 DEF HeaderLen
  <2>2. \A i \in 1..5 : r.offsets[i] <= 292 + 4 * k
    <3>1. PICK o : o = r.offsets OBVIOUS
    <3>2. o = <<64, 68, 68 + 4 * k, 136 + 4 * k, 288 + 4 * k>> BY <1>3, <3>1
    <3>3. /\ o[1] <= 292 + 4 * k /\ o[2] <= 292 + 4 * k /\ o[3] <= 292 + 4 * k
          /\ o[4] <= 292 + 4 * k /\ o[5] <= 292 + 4 * k
      BY ONLY <1>4, <3>2
    <3> QED BY ONLY <3>1, <3>3
  <2>3. 6 - 1 = 5 OBVIOUS
  <2> QED BY <1>5, <2>1, <2>2, <2>3 DEF check_offset_bounds
<1>15. PathOk(w, 30, PathBytesDraft08(w))
  <2>1. 4 * k <= 1024 /\ (4 * k) % 32 = 0 BY <1>3, <1>4
  <2> QED BY <1>6, <1>13, <2>1 DEF PathOk
<1>16. VersionOk(w[29]) /\ VersionOf(w[29]) = r.ver
  BY <1>3, <1>11 DEF VersionOk, VersionOf, RfcDraft08, RfcDraft14
<1>17. ResponseDraft08Ok(w)
  BY <1>5, <1>7, <1>8, <1>9, <1>10, <1>12, <1>13, <1>14, <1>15, <1>16, Zenon
     DEF ResponseDraft08Ok
<1>18. ResponseDraft08From(w) = r
  <2>1. ResponseDraft08From(w) = [sig |-> r.sig, ver |-> r.ver, path |-> r.path, srep |-> r.srep,
                                  cert |-> r.cert, indx |-> r.indx, offsets |-> r.offsets]
    BY <1>5, <1>6, <1>7, <1>8, <1>9, <1>10, <1>12, <1>13, <1>16, Zenon DEF ResponseDraft08From
  <2> QED BY <2>1 DEF IsResponseDraft08
<1> QED BY <1>2, <1>5, <1>17, <1>18

-----------------------------------------------------------------------------
\* Requests as clients make them: v versions, none of them by the old name 0, and a
\* first offset that goes with them.
IsRequest(r, v, variant, n) ==
  /\ r.variant = variant /\ Words(r.offsets, n - 1) /\ r.offsets[1] = 4 * v
  /\ Words(r.ver, v) /\ v <= MAX_VERSIONS /\ (\A i \in 1..v : r.ver[i] # 0)
  /\ Words(r.nonc, 8) /\ r.pad \in Int

\* What a request says is found in another.
SameRequest(q, r) ==
  q.nonc = r.nonc /\ q.ver = r.ver /\ q.srv = r.srv /\ q.variant = r.variant

\* Where the values of a request stand.
LEMMA RequestDraft08Layout ==
  ASSUME NEW r, NEW v, IsRequest(r, v, "Draft08", 3), NEW m, Words(FixedTag(0, r.pad), m)
  PROVE  /\ Words(RequestDraft08ToWire(r), 14 + v + m)
         /\ At(RequestDraft08ToWire(r), 1, Header(r.offsets, TagsRequestDraft08))
         /\ At(RequestDraft08ToWire(r), 7, r.ver)
         /\ At(RequestDraft08ToWire(r), 7 + v, r.nonc)
         /\ At(RequestDraft08ToWire(r), 15 + v, FixedTag(0, r.pad))
<1>1. PICK h : h = Header(r.offsets, TagsRequestDraft08) OBVIOUS
<1>2. Words(h, 6) /\ At(h, 1, h)
  <2>1. 3 \in Nat \ {0} /\ Words(TagsRequestDraft08, 3) BY TagLists
  <2>2. Words(r.offsets, 3 - 1) BY DEF IsRequest
  <2>3. Words(h, 2 * 3) BY <1>1, <2>1, <2>2, HeaderWords
  <2>4. At(h, 1, h) BY <2>3, AtWhole DEF Words
  <2> QED BY <2>3, <2>4
<1>3. /\ Words(r.ver, v)
      /\ Words(r.nonc, 8)
      /\ Words(FixedTag(0, r.pad), m)
      /\ v \in Nat /\ m \in Nat
  <2>1. Words(r.ver, v) /\ Words(r.nonc, 8) BY DEF IsRequest
  <2> QED BY <2>1 DEF Words
<1>4. PICK w1 : w1 = h \o r.ver OBVIOUS
<1>5. Words(w1, 6 + v) /\ At(w1, 7, r.ver) /\ Keeps(w1, h)
  <2>1. Joint(w1, h, 6, r.ver, v) BY <1>3, <1>2, <1>4, Joined
  <2>2. 6 + 1 = 7 BY <1>3
  <2> QED BY <2>1, <2>2, Zenon DEF Joint
<1>6. PICK w2 : w2 = w1 \o r.nonc OBVIOUS
<1>7. Words(w2, 14 + v) /\ At(w2, 7 + v, r.nonc) /\ Keeps(w2, w1)
  <2>1. Joint(w2, w1, 6 + v, r.nonc, 8) BY <1>3, <1>5, <1>6, Joined
  <2>2. 6 + v + 8 = 14 + v /\ 6 + v + 1 = 7 + v BY <1>3
  <2> QED BY <2>1, <2>2, Zenon DEF Joint
<1>8. PICK w3 : w3 = w2 \o FixedTag(0, r.pad) OBVIOUS
<1>9. Words(w3, 14 + v + m) /\ At(w3, 15 + v, FixedTag(0, r.pad)) /\ Keeps(w3, w2)
  <2>1. Joint(w3, w2, 14 + v, FixedTag(0, r.pad), m) BY <1>3, <1>7, <1>8, Joined
  <2>2. 14 + v + 1 = 15 + v BY <1>3
  <2> QED BY <2>1, <2>2, Zenon DEF Joint
<1>10. w3 = RequestDraft08ToWire(r)
  BY <1>1, <1>4, <1>6, <1>8, Zenon DEF RequestDraft08ToWire
<1>11. /\ At(w3, 1, h) /\ At(w3, 7, r.ver)
      /\ At(w3, 7 + v, r.nonc) /\ At(w3, 15 + v, FixedTag(0, r.pad))
  BY <1>2, <1>5, <1>7, <1>9, Zenon DEF Keeps
<1> QED BY <1>1, <1>9, <1>10, <1>11, Zenon

\* The same for draft 14.
LEMMA RequestDraft14Layout ==
  ASSUME NEW r, NEW v, IsRequest(r, v, "Draft14", 4), NEW m, Words(FixedTag(0, r.pad), m)
  PROVE  /\ Words(RequestDraft14ToWire(r), 17 + v + m)
         /\ At(RequestDraft14ToWire(r), 1, Header(r.offsets, TagsRequestDraft14))
         /\ At(RequestDraft14ToWire(r), 9, r.ver)
         /\ At(RequestDraft14ToWire(r), 9 + v, r.nonc)
         /\ At(RequestDraft14ToWire(r), 17 + v, <<MessageTypeRequest>>)
         /\ At(RequestDraft14ToWire(r), 18 + v, FixedTag(0, r.pad))
<1>1. PICK h : h = Header(r.offsets, TagsRequestDraft14) OBVIOUS
<1>2. Words(h, 8) /\ At(h, 1, h)
  <2>1. 4 \in Nat \ {0} /\ Words(TagsRequestDraft14, 4) BY TagLists
  <2>2. Words(r.offsets, 4 - 1) BY DEF IsRequest
  <2>3. Words(h, 2 * 4) BY <1>1, <2>1, <2>2, HeaderWords
  <2>4. At(h, 1, h) BY <2>3, AtWhole DEF Words
  <2> QED BY <2>3, <2>4
<1>3. /\ Words(r.ver, v)
      /\ Words(r.nonc, 8)
      /\ Words(<<MessageTypeRequest>>, 1)
      /\ Words(FixedTag(0, r.pad), m)
      /\ v \in Nat /\ m \in Nat
  <2>1. Words(r.ver, v) /\ Words(r.nonc, 8) BY DEF IsRequest
  <2>2. Words(<<MessageTypeRequest>>, 1) BY DEF Words, MessageTypeRequest
  <2> QED BY <2>1, <2>2 DEF Words
<1>4. PICK w1 : w1 = h \o r.ver OBVIOUS
<1>5. Words(w1, 8 + v) /\ At(w1, 9, r.ver) /\ Keeps(w1, h)
  <2>1. Joint(w1, h, 8, r.ver, v) BY <1>3, <1>2, <1>4, Joined
  <2>2. 8 + 1 = 9 BY <1>3
  <2> QED BY <2>1, <2>2, Zenon DEF Joint
<1>6. PICK w2 : w2 = w1 \o r.nonc OBVIOUS
<1>7. Words(w2, 16 + v) /\ At(w2, 9 + v, r.nonc) /\ Keeps(w2, w1)
  <2>1. Joint(w2, w1, 8 + v, r.nonc, 8) BY <1>3, <1>5, <1>6, Joined
  <2>2. 8 + v + 8 = 16 + v /\ 8 + v + 1 = 9 + v BY <1>3
  <2> QED BY <2>1, <2>2, Zenon DEF Joint
<1>8. PICK w3 : w3 = w2 \o <<MessageTypeRequest>> OBVIOUS
<1>9. Words(w3, 17 + v) /\ At(w3, 17 + v, <<MessageTypeRequest>>) /\ Keeps(w3, w2)
  <2>1. Joint(w3, w2, 16 + v, <<MessageTypeRequest>>, 1) BY <1>3, <1>7, <1>8, Joined
  <2>2. 16 + v + 1 = 17 + v /\ 16 + v + 1 = 17 + v BY <1>3
  <2> QED BY <2>1, <2>2, Zenon DEF Joint
<1>10. PICK w4 : w4 = w3 \o FixedTag(0, r.pad) OBVIOUS
<1>11. Words(w4, 17 + v + m) /\ At(w4, 18 + v, FixedTag(0, r.pad)) /\ Keeps(w4, w3)
  <2>1. Joint(w4, w3, 17 + v, FixedTag(0, r.pad), m) BY <1>3, <1>9, <1>10, Joined
  <2>2. 17 + v + 1 = 18 + v BY <1>3
  <2> QED BY <2>1, <2>2, Zenon DEF Joint
<1>12. w4 = RequestDraft14ToWire(r)
  BY <1>1, <1>4, <1>6, <1>8, <1>10, Zenon DEF RequestDraft14ToWire
<1>13. /\ At(w4, 1, h) /\ At(w4, 9, r.ver)
      /\ At(w4, 9 + v, r.nonc) /\ At(w4, 17 + v, <<MessageTypeRequest>>)
      /\ At(w4, 18 + v, FixedTag(0, r.pad))
  BY <1>2, <1>5, <1>7, <1>9, <1>11, Zenon DEF Keeps
<1> QED BY <1>1, <1>11, <1>12, <1>13, Zenon

\* The same with SRV.
LEMMA RequestDraft14SrvLayout ==
  ASSUME NEW r, NEW v, IsRequest(r, v, "Draft14Srv", 5), NEW m, Words(FixedTag(0, r.pad), m),
         Words(r.srv, 8)
  PROVE  /\ Words(RequestDraft14SrvToWire(r), 27 + v + m)
         /\ At(RequestDraft14SrvToWire(r), 1, Header(r.offsets, TagsRequestDraft14Srv))
         /\ At(RequestDraft14SrvToWire(r), 11, r.ver)
         /\ At(RequestDraft14SrvToWire(r), 11 + v, r.srv)
         /\ At(RequestDraft14SrvToWire(r), 19 + v, r.nonc)
         /\ At(RequestDraft14SrvToWire(r), 27 + v, <<MessageTypeRequest>>)
         /\ At(RequestDraft14SrvToWire(r), 28 + v, FixedTag(0, r.pad))
<1>1. PICK h : h = Header(r.offsets, TagsRequestDraft14Srv) OBVIOUS
<1>2. Words(h, 10) /\ At(h, 1, h)
  <2>1. 5 \in Nat \ {0} /\ Words(TagsRequestDraft14Srv, 5) BY TagLists
  <2>2. Words(r.offsets, 5 - 1) BY DEF IsRequest
  <2>3. Words(h, 2 * 5) BY <1>1, <2>1, <2>2, HeaderWords
  <2>4. At(h, 1, h) BY <2>3, AtWhole DEF Words
  <2> QED BY <2>3, <2>4
<1>3. /\ Words(r.ver, v)
      /\ Words(r.srv, 8)
      /\ Words(r.nonc, 8)
      /\ Words(<<MessageTypeRequest>>, 1)
      /\ Words(FixedTag(0, r.pad), m)
      /\ v \in Nat /\ m \in Nat
  <2>1. Words(r.ver, v) /\ Words(r.nonc, 8) BY DEF IsRequest
  <2>2. Words(<<MessageTypeRequest>>, 1) BY DEF Words, MessageTypeRequest
  <2> QED BY <2>1, <2>2 DEF Words
<1>4. PICK w1 : w1 = h \o r.ver OBVIOUS
<1>5. Words(w1, 10 + v) /\ At(w1, 11, r.ver) /\ Keeps(w1, h)
  <2>1. Joint(w1, h, 10, r.ver, v) BY <1>3, <1>2, <1>4, Joined
  <2>2. 10 + 1 = 11 BY <1>3
  <2> QED BY <2>1, <2>2, Zenon DEF Joint
<1>6. PICK w2 : w2 = w1 \o r.srv OBVIOUS
<1>7. Words(w2, 18 + v) /\ At(w2, 11 + v, r.srv) /\ Keeps(w2, w1)
  <2>1. Joint(w2, w1, 10 + v, r.srv, 8) BY <1>3, <1>5, <1>6, Joined
  <2>2. 10 + v + 8 = 18 + v /\ 10 + v + 1 = 11 + v BY <1>3
  <2> QED BY <2>1, <2>2, Zenon DEF Joint
<1>8. PICK w3 : w3 = w2 \o r.nonc OBVIOUS
<1>9. Words(w3, 26 + v) /\ At(w3, 19 + v, r.nonc) /\ Keeps(w3, w2)
  <2>1. Joint(w3, w2, 18 + v, r.nonc, 8) BY <1>3, <1>7, <1>8, Joined
  <2>2. 18 + v + 8 = 26 + v /\ 18 + v + 1 = 19 + v BY <1>3
  <2> QED BY <2>1, <2>2, Zenon DEF Joint
<1>10. PICK w4 : w4 = w3 \o <<MessageTypeRequest>> OBVIOUS
<1>11. Words(w4, 27 + v) /\ At(w4, 27 + v, <<MessageTypeRequest>>) /\ Keeps(w4, w3)
  <2>1. Joint(w4, w3, 26 + v, <<MessageTypeRequest>>, 1) BY <1>3, <1>9, <1>10, Joined
  <2>2. 26 + v + 1 = 27 + v /\ 26 + v + 1 = 27 + v BY <1>3
  <2> QED BY <2>1, <2>2, Zenon DEF Joint
<1>12. PICK w5 : w5 = w4 \o FixedTag(0, r.pad) OBVIOUS
<1>13. Words(w5, 27 + v + m) /\ At(w5, 28 + v, FixedTag(0, r.pad)) /\ Keeps(w5, w4)
  <2>1. Joint(w5, w4, 27 + v, FixedTag(0, r.pad), m) BY <1>3, <1>11, <1>12, Joined
  <2>2. 27 + v + 1 = 28 + v BY <1>3
  <2> QED BY <2>1, <2>2, Zenon DEF Joint
<1>14. w5 = RequestDraft14SrvToWire(r)
  BY <1>1, <1>4, <1>6, <1>8, <1>10, <1>12, Zenon DEF RequestDraft14SrvToWire
<1>15. /\ At(w5, 1, h) /\ At(w5, 11, r.ver)
      /\ At(w5, 11 + v, r.srv) /\ At(w5, 19 + v, r.nonc)
      /\ At(w5, 27 + v, <<MessageTypeRequest>>) /\ At(w5, 28 + v, FixedTag(0, r.pad))
  BY <1>2, <1>5, <1>7, <1>9, <1>11, <1>13, Zenon DEF Keeps
<1> QED BY <1>1, <1>13, <1>14, <1>15, Zenon

\* A draft 8 request is read as it was written, whatever padding follows, and whatever
\* follows the request.
LEMMA RequestDraft08Reads ==
  ASSUME NEW r, NEW v, IsRequest(r, v, "Draft08", 3), r.srv = <<>>,
         NEW u, u = RequestToWire(r), NEW w, Keeps(w, u)
  PROVE  SameRequest(RequestFrom(w), r) /\ u \in Seq(Int)
<1>1. PICK h : h = Header(r.offsets, TagsRequestDraft08) OBVIOUS
<1>2. PICK m : Words(FixedTag(0, r.pad), m)
  <2>1. r.pad \in Int BY DEF IsRequest
  <2> QED BY ONLY <2>1, FixedTagWords
<1>3. u = RequestDraft08ToWire(r)
  <2>1. r.variant = "Draft08" BY DEF IsRequest
  <2> QED BY <2>1 DEF RequestToWire
<1>4. At(w, 1, h) /\ At(w, 7, r.ver) /\ At(w, 7 + v, r.nonc)
  <2>1. At(u, 1, h) /\ At(u, 7, r.ver) /\ At(u, 7 + v, r.nonc)
    BY <1>1, <1>2, <1>3, RequestDraft08Layout
  <2>2. Keeps(w, u) OBVIOUS
  <2> QED BY <2>1, <2>2, Zenon DEF Keeps
<1>0. u \in Seq(Int)
  <2>1. At(u, 1, h) BY <1>1, <1>2, <1>3, RequestDraft08Layout
  <2> QED BY <2>1 DEF At
<1>5. /\ r.variant = "Draft08" /\ Words(r.offsets, 3 - 1) /\ r.offsets[1] = 4 * v
      /\ Words(r.ver, v) /\ v <= MAX_VERSIONS /\ (\A i \in 1..v : r.ver[i] # 0)
      /\ Words(r.nonc, 8)
  BY DEF IsRequest
<1>6. v \in Nat /\ w \in Seq(Int) BY <1>4, <1>5 DEF Words, At
<1>7. OffsetsAt(w, 1, 3) = r.offsets /\ w[1] = 3
  <2>1. 3 \in Nat \ {0} /\ Words(TagsRequestDraft08, 3) BY TagLists
  <2> QED BY <1>1, <1>4, <1>5, <2>1, HeaderReads
<1>8. VerWords(w, 3) = v
  <2>1. PICK x : x = OffsetsAt(w, 1, 3)[1] OBVIOUS
  <2>2. x = 4 * v BY <1>5, <1>7, <2>1
  <2>3. (4 * v) \div 4 = v BY <1>6
  <2>4. VerWords(w, 3) = x \div 4 BY <2>1 DEF VerWords
  <2> QED BY <2>2, <2>3, <2>4
<1>9. VersionsRead(v) = v /\ VersionsAt(w, 7, v) = r.ver BY <1>4, <1>5, VersionsReads
<1>10. AfterVer(w, 3) = 7 + v
  <2>1. HeaderLen(3) = 6 BY DEF HeaderLen
  <2> QED BY <1>6, <1>8, <1>9, <2>1 DEF AfterVer
<1>11. Found(w, 7 + v, r.nonc, 8) BY <1>4, <1>5, FoundAt
<1>12. SameRequest(RequestDraft08From(w), r)
  BY <1>5, <1>8, <1>9, <1>10, <1>11 DEF SameRequest, RequestDraft08From, Found
<1>13. RequestFrom(w) = RequestDraft08From(w) BY <1>7 DEF RequestFrom
<1> QED BY <1>0, <1>12, <1>13

\* So is a draft 14 request.
LEMMA RequestDraft14Reads ==
  ASSUME NEW r, NEW v, IsRequest(r, v, "Draft14", 4), r.srv = <<>>,
         NEW u, u = RequestToWire(r), NEW w, Keeps(w, u)
  PROVE  SameRequest(RequestFrom(w), r) /\ u \in Seq(Int)
<1>1. PICK h : h = Header(r.offsets, TagsRequestDraft14) OBVIOUS
<1>2. PICK m : Words(FixedTag(0, r.pad), m)
  <2>1. r.pad \in Int BY DEF IsRequest
  <2> QED BY ONLY <2>1, FixedTagWords
<1>3. u = RequestDraft14ToWire(r)
  <2>1. r.variant = "Draft14" BY DEF IsRequest
  <2> QED BY <2>1 DEF RequestToWire
<1>4. At(w, 1, h) /\ At(w, 9, r.ver) /\ At(w, 9 + v, r.nonc)
  <2>1. At(u, 1, h) /\ At(u, 9, r.ver) /\ At(u, 9 + v, r.nonc)
    BY <1>1, <1>2, <1>3, RequestDraft14Layout
  <2>2. Keeps(w, u) OBVIOUS
  <2> QED BY <2>1, <2>2, Zenon DEF Keeps
<1>0. u \in Seq(Int)
  <2>1. At(u, 1, h) BY <1>1, <1>2, <1>3, RequestDraft14Layout
  <2> QED BY <2>1 DEF At
<1>5. /\ r.variant = "Draft14" /\ Words(r.offsets, 4 - 1) /\ r.offsets[1] = 4 * v
      /\ Words(r.ver, v) /\ v <= MAX_VERSIONS /\ (\A i \in 1..v : r.ver[i] # 0)
      /\ Words(r.nonc, 8)
  BY DEF IsRequest
<1>6. v \in Nat /\ w \in Seq(Int) BY <1>4, <1>5 DEF Words, At
<1>7. OffsetsAt(w, 1, 4) = r.offsets /\ w[1] = 4
  <2>1. 4 \in Nat \ {0} /\ Words(TagsRequestDraft14, 4) BY TagLists
  <2> QED BY <1>1, <1>4, <1>5, <2>1, HeaderReads
<1>8. VerWords(w, 4) = v
  <2>1. PICK x : x = OffsetsAt(w, 1, 4)[1] OBVIOUS
  <2>2. x = 4 * v BY <1>5, <1>7, <2>1
  <2>3. (4 * v) \div 4 = v BY <1>6
  <2>4. VerWords(w, 4) = x \div 4 BY <2>1 DEF VerWords
  <2> QED BY <2>2, <2>3, <2>4
<1>9. VersionsRead(v) = v /\ VersionsAt(w, 9, v) = r.ver BY <1>4, <1>5, VersionsReads
<1>10. AfterVer(w, 4) = 9 + v
  <2>1. HeaderLen(4) = 8 BY DEF HeaderLen
  <2> QED BY <1>6, <1>8, <1>9, <2>1 DEF AfterVer
<1>11. Found(w, 9 + v, r.nonc, 8) BY <1>4, <1>5, FoundAt
<1>12. SameRequest(RequestDraft14From(w), r)
  BY <1>5, <1>8, <1>9, <1>10, <1>11 DEF SameRequest, RequestDraft14From, Found
<1>13. RequestFrom(w) = RequestDraft14From(w) BY <1>7 DEF RequestFrom
<1> QED BY <1>0, <1>12, <1>13

\* So is a draft 14 request with a server commitment.
LEMMA RequestDraft14SrvReads ==
  ASSUME NEW r, NEW v, IsRequest(r, v, "Draft14Srv", 5), Words(r.srv, 8),
         NEW u, u = RequestToWire(r), NEW w, Keeps(w, u)
  PROVE  SameRequest(RequestFrom(w), r) /\ u \in Seq(Int)
<1>1. PICK h : h = Header(r.offsets, TagsRequestDraft14Srv) OBVIOUS
<1>2. PICK m : Words(FixedTag(0, r.pad), m)
  <2>1. r.pad \in Int BY DEF IsRequest
  <2> QED BY ONLY <2>1, FixedTagWords
<1>3. u = RequestDraft14SrvToWire(r)
  <2>1. r.variant = "Draft14Srv" BY DEF IsRequest
  <2> QED BY <2>1 DEF RequestToWire
<1>4. At(w, 1, h) /\ At(w, 11, r.ver) /\ At(w, 11 + v, r.srv) /\ At(w, 19 + v, r.nonc)
  <2>1. At(u, 1, h) /\ At(u, 11, r.ver) /\ At(u, 11 + v, r.srv) /\ At(u, 19 + v, r.nonc)
    BY <1>1, <1>2, <1>3, RequestDraft14SrvLayout
  <2>2. Keeps(w, u) OBVIOUS
  <2> QED BY <2>1, <2>2, Zenon DEF Keeps
<1>0. u \in Seq(Int)
  <2>1. At(u, 1, h) BY <1>1, <1>2, <1>3, RequestDraft14SrvLayout
  <2> QED BY <2>1 DEF At
<1>5. /\ r.variant = "Draft14Srv" /\ Words(r.offsets, 5 - 1) /\ r.offsets[1] = 4 * v
      /\ Words(r.ver, v) /\ v <= MAX_VERSIONS /\ (\A i \in 1..v : r.ver[i] # 0)
      /\ Words(r.nonc, 8)
  BY DEF IsRequest
<1>6. v \in Nat /\ w \in Seq(Int) BY <1>4, <1>5 DEF Words, At
<1>7. OffsetsAt(w, 1, 5) = r.offsets /\ w[1] = 5
  <2>1. 5 \in Nat \ {0} /\ Words(TagsRequestDraft14Srv, 5) BY TagLists
  <2> QED BY <1>1, <1>4, <1>5, <2>1, HeaderReads
<1>8. VerWords(w, 5) = v
  <2>1. PICK x : x = OffsetsAt(w, 1, 5)[1] OBVIOUS
  <2>2. x = 4 * v BY <1>5, <1>7, <2>1
  <2>3. (4 * v) \div 4 = v BY <1>6
  <2>4. VerWords(w, 5) = x \div 4 BY <2>1 DEF VerWords
  <2> QED BY <2>2, <2>3, <2>4
<1>9. VersionsRead(v) = v /\ VersionsAt(w, 11, v) = r.ver BY <1>4, <1>5, VersionsReads
<1>10. AfterVer(w, 5) = 11 + v
  <2>1. HeaderLen(5) = 10 BY DEF HeaderLen
  <2> QED BY <1>6, <1>8, <1>9, <2>1 DEF AfterVer
<1>11. Found(w, 19 + v, r.nonc, 8) BY <1>4, <1>5, FoundAt
<1>12. Found(w, 11 + v, r.srv, 8) BY <1>4, FoundAt
<1>13. AfterVer(w, 5) + 8 = 19 + v BY <1>6, <1>10
<1>14. SameRequest(RequestDraft14SrvFrom(w), r)
  BY <1>5, <1>8, <1>9, <1>10, <1>11, <1>12, <1>13 DEF SameRequest, RequestDraft14SrvFrom, Found
<1>15. RequestFrom(w) = RequestDraft14SrvFrom(w) BY <1>7 DEF RequestFrom
<1> QED BY <1>0, <1>14, <1>15

-----------------------------------------------------------------------------
\* Frames.  What is in one is got out of it.
LEMMA FrameWords ==
  ASSUME NEW w, NEW n, Words(w, n), NEW f, f = ToFrame(w)
  PROVE  /\ Words(f, n + 3) /\ At(f, 4, w) /\ f[3] = 4 * n
         /\ Get(f, 1, 2) = FrameMagic /\ Unframed(f) = w
<1>1. n \in Nat /\ Len(w) = n BY DEF Words
<1>2. PICK l : l = <<4 * n>> OBVIOUS
<1>3. Words(FrameMagic, 2) /\ Words(l, 1) /\ l[1] = 4 * n BY <1>1, <1>2 DEF Words, FrameMagic
<1>4. PICK a : a = FrameMagic \o l OBVIOUS
<1>5. Words(a, 3) /\ At(a, 3, l) /\ At(a, 1, FrameMagic)
  <2>1. Joint(a, FrameMagic, 2, l, 1) BY <1>3, <1>4, Joined
  <2>2. At(FrameMagic, 1, FrameMagic) BY <1>3, AtWhole DEF Words
  <2>3. 2 + 1 = 3 OBVIOUS
  <2> QED BY <2>1, <2>2, <2>3, Zenon DEF Joint, Keeps
<1>6. f = a \o w BY <1>1, <1>2, <1>4, Zenon DEF ToFrame
<1>7. Words(f, 3 + n) /\ At(f, 4, w) /\ At(f, 3, l) /\ At(f, 1, FrameMagic)
  <2>1. Joint(f, a, 3, w, n) BY <1>5, <1>6, Joined
  <2>2. 3 + 1 = 4 OBVIOUS
  <2> QED BY <1>5, <2>1, <2>2, Zenon DEF Joint, Keeps
<1>8. Words(f, n + 3)
  <2>1. 3 + n = n + 3 BY <1>1
  <2> QED BY <1>7, <2>1
<1>9. f[3] = 4 * n
  <2>1. 1 \in 1..Len(l) /\ 3 + 1 - 1 = 3 BY <1>3 DEF Words
  <2>2. f[3 + 1 - 1] = l[1] BY <1>7, <2>1 DEF At
  <2> QED BY <1>3, <2>1, <2>2
<1>10. Get(f, 1, 2) = FrameMagic
  <2>1. Found(f, 1, FrameMagic, 2) BY <1>3, <1>7, FoundAt
  <2> QED BY <2>1 DEF Found
<1>11. Unframed(f) = w
  <2>1. Found(f, 4, w, n) BY <1>7, FoundAt
  <2>2. Len(f) = 4 + n - 1 /\ FRAME_OVERHEAD + 1 = 4 BY <1>1, <1>8 DEF Words, FRAME_OVERHEAD
  <2>3. Unframed(f) = SubSeq(f, 4, 4 + n - 1) BY <2>2 DEF Unframed
  <2> QED BY <2>1, <2>3 DEF Found, Get
<1> QED BY <1>7, <1>8, <1>9, <1>10, <1>11

\* A frame of 100 bytes or more is accepted.
LEMMA FrameAccepted ==
  ASSUME NEW w, NEW n, Words(w, n), n >= 25
  PROVE  FrameOk(ToFrame(w))
<1>1. PICK f : f = ToFrame(w) OBVIOUS
<1>2. Words(f, n + 3) /\ f[3] = 4 * n /\ Get(f, 1, 2) = FrameMagic BY <1>1, FrameWords
<1>3. n \in Nat /\ Len(f) = n + 3 BY <1>2 DEF Words
<1>4. Has(f, 1, FRAME_OVERHEAD) /\ Has(f, 4, 25) BY <1>3 DEF Has, FRAME_OVERHEAD
<1>5. f[3] >= 100 /\ f[3] <= 4 * (Len(f) - FRAME_OVERHEAD) BY <1>2, <1>3 DEF FRAME_OVERHEAD
<1> QED BY <1>1, <1>2, <1>4, <1>5 DEF FrameOk

\* recv_from keeps what fits into its buffer.
LEMMA ReceivedWhole ==
  ASSUME NEW f, NEW n, Words(f, n), n <= 256
  PROVE  Received(f) = f
<1>1. f \in Seq(Int) /\ Len(f) = n /\ n \in Nat BY DEF Words
<1>2. Received(f) = SubSeq(f, 1, n)
  <2>1. CASE n < 256 BY <1>1, <2>1 DEF Received, RECV_BUFFER_WORDS
  <2>2. CASE n = 256 BY <1>1, <2>2 DEF Received, RECV_BUFFER_WORDS
  <2> QED BY <1>1, <2>1, <2>2
<1> QED BY <1>1, <1>2, SubSeqFull

\* What stands at the beginning keeps its places.
LEMMA KeepsFirst ==
  ASSUME NEW u, NEW w, At(u, 1, w)
  PROVE  Keeps(u, w)
<1> SUFFICES ASSUME NEW q, NEW x, At(w, q, x) PROVE At(u, q, x) BY DEF Keeps
<1>1. At(u, 1 + q - 1, x) BY AtInside
<1>2. 1 + q - 1 = q BY DEF At
<1> QED BY <1>1, <1>2

\* A datagram that fills the buffer and whose frame is accepted has its whole message
\* in the buffer: a longer frame says a length that has not come.  What was behind the
\* frame may be cut.
LEMMA MessageNotCut ==
  ASSUME NEW w, NEW n, Words(w, n), NEW f, f = ToFrame(w), NEW t, NEW k, Words(t, k),
         NEW b, b = Received(f \o t), FrameOk(b), Len(b) = 256
  PROVE  Words(b, 256) /\ At(b, 1, f) /\ n + 3 <= 256 /\ Keeps(Unframed(b), w)
<1>1. /\ Words(f, n + 3) /\ At(f, 4, w) /\ f[3] = 4 * n /\ n \in Nat /\ k \in Nat
      /\ f \in Seq(Int) /\ Len(f) = n + 3 /\ w \in Seq(Int) /\ Len(w) = n
  <2>1. Words(f, n + 3) /\ At(f, 4, w) /\ f[3] = 4 * n BY FrameWords
  <2>2. n \in Nat /\ k \in Nat /\ w \in Seq(Int) /\ Len(w) = n BY DEF Words
  <2>3. f \in Seq(Int) /\ Len(f) = n + 3 BY <2>1 DEF Words
  <2> QED BY <2>1, <2>2, <2>3
<1>2. PICK d : d = f \o t OBVIOUS
<1>3. Words(d, n + 3 + k) /\ Keeps(d, f)
  <2>1. Joint(d, f, n + 3, t, k) BY <1>1, <1>2, Joined
  <2> QED BY <2>1 DEF Joint
<1>4. d \in Seq(Int) /\ Len(d) = n + 3 + k BY <1>3 DEF Words
<1>5. \A i \in 1..(n + 3) : d[i] = f[i]
  <2>1. At(f, 1, f) BY <1>1, AtWhole
  <2>2. At(d, 1, f) BY <1>3, <2>1 DEF Keeps
  <2>3. \A i \in 1..(n + 3) : d[1 + i - 1] = f[i] BY <1>1, <2>2 DEF At
  <2>4. \A i \in 1..(n + 3) : 1 + i - 1 = i OBVIOUS
  <2> QED BY <2>3, <2>4
<1>6. n \in Nat /\ k \in Nat BY <1>1
<1>7. Len(d) \in Nat /\ Len(d) >= 256 /\ b = SubSeq(d, 1, 256)
  <2>1. n + 3 + k \in Nat BY ONLY <1>6
  <2>2. Len(d) \in Nat BY ONLY <1>4, <2>1
  <2>3. CASE Len(d) < 256
    <3>1. b = SubSeq(d, 1, Len(d)) BY <1>2, <2>3 DEF Received, RECV_BUFFER_WORDS
    <3>2. b = d BY <1>4, <3>1, SubSeqFull
    <3>3. Len(b) = 256 OBVIOUS
    <3>4. Len(d) = 256 BY ONLY <3>2, <3>3, Zenon
    <3> QED BY ONLY <2>3, <3>4
  <2>4. CASE ~(Len(d) < 256)
    <3>1. b = SubSeq(d, 1, 256) BY <1>2, <2>4 DEF Received, RECV_BUFFER_WORDS
    <3>2. Len(d) >= 256 BY ONLY <2>2, <2>4
    <3> QED BY ONLY <2>2, <3>1, <3>2
  <2> QED BY ONLY <2>3, <2>4
<1>8. b \in Seq(Int) /\ \A i \in 1..256 : b[i] = d[i]
  <2>1. \A i \in 1..256 : d[i] \in Int
    <3>1. PICK l : l = Len(d) OBVIOUS
    <3>2. l \in Nat /\ l >= 256 BY ONLY <1>7, <3>1
    <3>3. ASSUME NEW i \in 1..256 PROVE d[i] \in Int
      <4>1. i \in 1..l BY ONLY <3>2, i \in 1..256
      <4>2. i \in 1..Len(d) /\ d \in Seq(Int) BY ONLY <1>4, <3>1, <4>1, Zenon
      <4> QED BY ONLY <4>2, ElementOfSeq
    <3> QED BY <3>3
  <2>2. /\ SubSeq(d, 1, 256) \in Seq(Int)
        /\ \A i \in 1..(256 - 1 + 1) : SubSeq(d, 1, 256)[i] = d[1 + i - 1]
    BY <2>1, SubSeqProperties
  <2>3. 256 - 1 + 1 = 256 /\ \A i \in 1..256 : 1 + i - 1 = i OBVIOUS
  <2> QED BY ONLY <1>7, <2>2, <2>3
<1>9. n + 3 <= 256
  <2>1. b[3] <= 4 * (256 - 3) BY DEF FrameOk, FRAME_OVERHEAD
  <2>2. 3 \in 1..256 /\ 3 \in 1..(n + 3) BY ONLY <1>6
  <2>3. b[3] = d[3] /\ d[3] = f[3] BY ONLY <1>5, <1>8, <2>2
  <2>4. b[3] = 4 * n BY <1>1, <2>3
  <2>5. 4 * n <= 4 * (256 - 3) BY ONLY <2>1, <2>4
  <2> QED BY ONLY <1>6, <2>5
<1>10. At(b, 1, f)
  <2>1. ASSUME NEW i \in 1..(n + 3) PROVE b[1 + i - 1] = f[i]
    <3>1. i \in 1..256 /\ 1 + i - 1 = i BY ONLY <1>6, <1>9, i \in 1..(n + 3)
    <3>2. b[i] = d[i] BY ONLY <1>8, <3>1
    <3>3. d[i] = f[i] BY <1>5
    <3> QED BY ONLY <3>1, <3>2, <3>3, Zenon
  <2>2. 1 \in Nat \ {0} /\ 1 + (n + 3) - 1 <= 256 BY ONLY <1>6, <1>9
  <2>3. Len(b) = 256 /\ Len(f) = n + 3 BY <1>1
  <2>4. f \in Seq(Int) /\ b \in Seq(Int) BY <1>1, <1>8
  <2> QED BY ONLY <2>1, <2>2, <2>3, <2>4 DEF At
<1>11. At(b, 4, w)
  <2>1. PICK p, q : p = 1 /\ q = 4 OBVIOUS
  <2>2. At(b, p, f) /\ At(f, q, w) BY <1>1, <1>10, <2>1
  <2>3. At(b, p + q - 1, w) BY ONLY <2>2, AtInside
  <2>4. p + q - 1 = 4 BY ONLY <2>1
  <2> QED BY ONLY <2>3, <2>4
<1>12. PICK u : u = SubSeq(b, 4, 256) OBVIOUS
<1>13. Unframed(b) = u BY <1>12 DEF Unframed, FRAME_OVERHEAD
<1>14. u \in Seq(Int) /\ Len(u) = 253 /\ \A i \in 1..253 : u[i] = b[4 + i - 1]
  <2>1. \A i \in 4..256 : b[i] \in Int
    <3>1. \A i \in 4..256 : i \in 1..Len(b) OBVIOUS
    <3> QED BY <1>8, <3>1, ElementOfSeq
  <2>2. /\ SubSeq(b, 4, 256) \in Seq(Int)
        /\ Len(SubSeq(b, 4, 256)) = IF 4 <= 256 THEN 256 - 4 + 1 ELSE 0
        /\ \A i \in 1..(256 - 4 + 1) : SubSeq(b, 4, 256)[i] = b[4 + i - 1]
    BY <2>1, SubSeqProperties
  <2>3. 256 - 4 + 1 = 253 /\ 4 <= 256 OBVIOUS
  <2> QED BY ONLY <1>12, <2>2, <2>3
<1>15. At(u, 1, w)
  <2>1. ASSUME NEW i \in 1..n PROVE u[1 + i - 1] = w[i]
    <3>1. i \in 1..253 /\ 1 + i - 1 = i BY ONLY <1>6, <1>9, i \in 1..n
    <3>2. b[4 + i - 1] = w[i] BY <1>1, <1>11 DEF At
    <3>3. u[i] = b[4 + i - 1] BY ONLY <1>14, <3>1
    <3> QED BY ONLY <3>1, <3>2, <3>3, Zenon
  <2>2. Len(w) = n /\ w \in Seq(Int) BY <1>1
  <2>3. 1 \in Nat \ {0} /\ 1 - 1 + n <= 253 BY ONLY <1>6, <1>9
  <2>4. 1 - 1 + Len(w) <= Len(u) BY ONLY <1>14, <2>2, <2>3
  <2>5. \A i \in 1..Len(w) : u[1 + i - 1] = w[i] BY ONLY <2>1, <2>2
  <2> QED BY ONLY <1>14, <2>2, <2>3, <2>4, <2>5, Zenon DEF At
<1>16. Keeps(u, w) BY <1>15, KeepsFirst
<1>17. Words(b, 256) BY <1>8 DEF Words
<1> QED BY <1>9, <1>10, <1>13, <1>16, <1>17

-----------------------------------------------------------------------------
(***************************************************************************)
(* The inductive invariant.                                                *)
(***************************************************************************)
Sender == DOMAIN Senders

\* The frame that a sender sends.
RequestFrame(s) == ToFrame(RequestToWire(RequestOfSender(s)))

\* A sender has sent its request, or not yet; the datagram on its way is one of them.
RequestsInv ==
  /\ DOMAIN requests = Sender
  /\ \A s \in Sender : requests[s] = None \/ requests[s] = Some(RequestOfSender(s))
  /\ \/ sock = <<>>
     \/ \E s \in Sender : /\ requests[s] # None
                          /\ sock = <<[src |-> s, bytes |-> Datagram(s)]>>

\* An element of the batch: the request of somebody else, or one that a sender sent.
Entry(p, sent) ==
  \/ p.src = Other /\ p.request.nonc = Nonce(Other)
  \/ /\ p.src \in Sender /\ sent[p.src] # None
     /\ Words(p.bytes, 256) /\ At(p.bytes, 1, RequestFrame(p.src))
     /\ SameRequest(p.request, RequestOfSender(p.src))

BatchInv ==
  /\ \E S : batch \in Seq(S)
  /\ Len(batch) <= BatchSize
  /\ \A i \in 1..Len(batch) : Entry(batch[i], requests)

\* The answers of one batch: the k-th, of n requests.
MidpointOf(k) == FixedTag(1000 + k, 2)
RootOf(k) == FixedTag(2000 + k, 8)
SigOf(k) == FixedTag(3000 + k, 16)
SrepOf(k) ==
  [ver |-> RfcDraft14, radi |-> 5, midp |-> MidpointOf(k), vers |-> <<RfcDraft14>>,
   root |-> RootOf(k), offsets |-> <<4, 8, 16, 20>>]
SrepDraft08Of(k) ==
  [radi |-> 5, midp |-> MidpointOf(k), root |-> RootOf(k), offsets |-> <<4, 12>>]
SignedOf(v, k) ==
  IF v = RfcDraft08 THEN SrepDraft08ToWire(SrepDraft08Of(k)) ELSE SrepToWire(SrepOf(k))

\* Responses with a given path, nonce and index.
Answer(k, path, nonce, i) ==
  [sig |-> SigOf(k), nonc |-> nonce, path |-> path, srep |-> SrepOf(k), cert |-> Cert,
   indx |-> i,
   offsets |-> <<64, 96, 100, 100 + 4 * Len(path), 192 + 4 * Len(path), 344 + 4 * Len(path)>>]
AnswerDraft08(k, path, i) ==
  [sig |-> SigOf(k), ver |-> RfcDraft08, path |-> path, srep |-> SrepDraft08Of(k),
   cert |-> Cert, indx |-> i,
   offsets |-> <<64, 68, 68 + 4 * Len(path), 136 + 4 * Len(path), 288 + 4 * Len(path)>>]
AnswerWords(v, k, path, nonce, i) ==
  IF v = RfcDraft08 THEN ResponseDraft08ToWire(AnswerDraft08(k, path, i))
                    ELSE ResponseToWire(Answer(k, path, nonce, i))

\* The template holds the signed part, its signature and the certificate; the rest is
\* set anew for each response.
Template(r, v, k) ==
  \E nonc, path, indx, offsets :
    r = IF v = RfcDraft08
        THEN [sig |-> SigOf(k), ver |-> RfcDraft08, path |-> path, srep |-> SrepDraft08Of(k),
              cert |-> Cert, indx |-> indx, offsets |-> offsets]
        ELSE [sig |-> SigOf(k), nonc |-> nonc, path |-> path, srep |-> SrepOf(k),
              cert |-> Cert, indx |-> indx, offsets |-> offsets]

ServerInv ==
  /\ version \in {RfcDraft08, RfcDraft14} /\ pc \in {"collect", "respond"} /\ batches \in Nat
  /\ index \in Nat /\ index <= Len(batch) /\ (pc = "collect" => index = 0)
  /\ Words(response_buf, 256)
  /\ pc = "respond" =>
       /\ \E r : response_common = Some(r) /\ Template(r, version, batches)
       /\ signed = SignedOf(version, batches)

\* A sender is at one place only: still to send, on its way, in the batch, or answered.
OnceInv ==
  /\ DOMAIN frames = Sender
  /\ \A s \in Sender : requests[s] = None => frames[s] = None
  /\ \A i, j \in 1..Len(batch) : batch[i].src = batch[j].src /\ batch[i].src # Other => i = j
  /\ \A i \in 1..Len(batch) : i > index /\ batch[i].src # Other => frames[batch[i].src] = None
  /\ sock # <<>> => /\ frames[sock[1].src] = None
                    /\ \A i \in 1..Len(batch) : batch[i].src # sock[1].src

\* What a sender was sent is the frame of what was meant for it.
AnswerInv ==
  /\ DOMAIN meant = Sender
  /\ \A s \in Sender : frames[s] # None =>
       \E n \in 1..BatchSize, i \in 0..(BatchSize - 1), k \in 0..batches :
         /\ frames[s] = Some(ToFrame(AnswerWords(version, k, PathTo(i, n), Nonce(s), i)))
         /\ meant[s] = Some([path |-> PathTo(i, n), indx |-> i, midp |-> MidpointOf(k),
                             root |-> RootOf(k), sig |-> SigOf(k),
                             signed |-> SignedOf(version, k)])

DecodedInv ==
  /\ DOMAIN decoded = Sender
  /\ \A s \in Sender : decoded[s] # None =>
       /\ frames[s] # None
       /\ decoded[s] = Some(validate_response(Senders[s].version, Received(frames[s][1])))

IInv == RequestsInv /\ BatchInv /\ ServerInv /\ OnceInv /\ AnswerInv /\ DecodedInv

-----------------------------------------------------------------------------
\* Nonces and commitments have their lengths.
LEMMA NonceWords == ASSUME NEW s \in Int PROVE Words(Nonce(s), 8) /\ Words(SrvCommitment(s), 8)
<1>1. 100 + s \in Int /\ 200 + s \in Int /\ 8 \in Int /\ ~(8 < 0) OBVIOUS
<1>2. \A v \in Int : Words(FixedTag(v, 8), 8) BY <1>1, FixedTagWords
<1> QED BY <1>1, <1>2 DEF Nonce, SrvCommitment

\* The certificate of the server has its type.
LEMMA CertIs == IsCert(Cert)
<1>1. Words(FixedTag(400, 16), 16) BY FixedTagWords
<1>2. Words(FixedTag(500, 8), 8) BY FixedTagWords
<1>3. Words(FixedTag(600, 2), 2) /\ Words(FixedTag(700, 2), 2) BY FixedTagWords
<1>4. /\ Cert = [sig |-> Cert.sig, dele |-> Cert.dele] /\ Cert.sig = FixedTag(400, 16)
      /\ Cert.dele = [pubk |-> FixedTag(500, 8), mint |-> FixedTag(600, 2), maxt |-> FixedTag(700, 2)]
  BY DEF Cert, OnlinePublicKey
<1> QED BY <1>1, <1>2, <1>3, <1>4 DEF IsCert, IsDele

\* So have the signed part and the signature of every batch.
LEMMA SrepIs ==
  ASSUME NEW k \in Nat
  PROVE  /\ IsSrep(SrepOf(k), 1) /\ IsSrepDraft08(SrepDraft08Of(k)) /\ Words(SigOf(k), 16)
         /\ SrepOf(k).midp = MidpointOf(k) /\ SrepOf(k).root = RootOf(k)
<1>1. Words(MidpointOf(k), 2) /\ Words(RootOf(k), 8) /\ Words(SigOf(k), 16)
  <2>1. 1000 + k \in Int /\ 2000 + k \in Int /\ 3000 + k \in Int OBVIOUS
  <2>2. \A v \in Int : Words(FixedTag(v, 2), 2) BY FixedTagWords
  <2>3. \A v \in Int : Words(FixedTag(v, 8), 8) BY FixedTagWords
  <2>4. \A v \in Int : Words(FixedTag(v, 16), 16) BY FixedTagWords
  <2> QED BY <2>1, <2>2, <2>3, <2>4 DEF MidpointOf, RootOf, SigOf
<1>2. Versions(<<RfcDraft14>>, 1) BY DEF Versions, Words, RfcDraft14, RfcDraft08, MAX_VERSIONS
<1>3. IsSrep(SrepOf(k), 1)
  <2>1. PICK m, r : m = MidpointOf(k) /\ r = RootOf(k) OBVIOUS
  <2>2. SrepOf(k) = [ver |-> RfcDraft14, radi |-> 5, midp |-> m, vers |-> <<RfcDraft14>>,
                     root |-> r, offsets |-> <<4, 8, 16, 20>>]
    BY <2>1 DEF SrepOf
  <2>3. 16 + 4 * 1 = 20 OBVIOUS
  <2> QED BY <1>1, <1>2, <2>1, <2>2, <2>3 DEF IsSrep
<1>4. IsSrepDraft08(SrepDraft08Of(k)) BY <1>1 DEF IsSrepDraft08, SrepDraft08Of
<1> QED BY <1>1, <1>3, <1>4 DEF SrepOf

\* A batch of at most 64 has a path of at most six hashes.
LEMMA DepthIs == ASSUME NEW n \in 1..BatchSize PROVE Depth(n) \in 0..6
<1> DEFINE Fits(d) == Pow2[d + 1] >= n /\ (d > 0 => Pow2[d] < n)
<1>1. /\ Pow2[1] = 1 /\ Pow2[2] = 2 /\ Pow2[3] = 4 /\ Pow2[4] = 8 /\ Pow2[5] = 16
      /\ Pow2[6] = 32 /\ Pow2[7] = 64
  BY DEF Pow2
<1>2. n \in Nat /\ 1 <= n /\ n <= 64 BY DEF BatchSize
<1>3. \E d \in 0..6 : Fits(d)
  <2>1. CASE n <= 1 BY <1>1, <1>2, <2>1
  <2>2. CASE 1 < n /\ n <= 2
    <3>1. Fits(1) BY <1>1, <1>2, <2>2
    <3> QED BY <3>1
  <2>3. CASE 2 < n /\ n <= 4
    <3>1. Fits(2) BY <1>1, <1>2, <2>3
    <3> QED BY <3>1
  <2>4. CASE 4 < n /\ n <= 8
    <3>1. Fits(3) BY <1>1, <1>2, <2>4
    <3> QED BY <3>1
  <2>5. CASE 8 < n /\ n <= 16
    <3>1. Fits(4) BY <1>1, <1>2, <2>5
    <3> QED BY <3>1
  <2>6. CASE 16 < n /\ n <= 32
    <3>1. Fits(5) BY <1>1, <1>2, <2>6
    <3> QED BY <3>1
  <2>7. CASE 32 < n
    <3>1. Fits(6) BY <1>1, <1>2, <2>7
    <3> QED BY <3>1
  <2> QED BY <1>2, <2>1, <2>2, <2>3, <2>4, <2>5, <2>6, <2>7
<1>4. Depth(n) = CHOOSE d \in 0..6 : Fits(d) BY Zenon DEF Depth
<1> HIDE DEF Fits
<1> QED BY <1>3, <1>4

\* The path in a batch of at most 64 has at most six hashes.
LEMMA PathToIs ==
  ASSUME NEW n \in 1..BatchSize, NEW i \in Nat
  PROVE  \E k \in 0..48 : IsPath(PathTo(i, n), k)
<1>1. PICK d \in 0..6 : d = Depth(n) BY DepthIs
<1>2. ASSUME NEW w \in 1..(8 * d) PROVE SiblingHash(i, (w - 1) \div 8) \in Int
  <2>1. PICK l : l = (w - 1) \div 8 OBVIOUS
  <2>2. l \in 0..5
    <3>1. w - 1 \in 0..47 BY <1>1
    <3>2. \A x \in 0..47 : x \div 8 \in 0..5 OBVIOUS
    <3> QED BY <2>1, <3>1, <3>2
  <2>3. PICK q \in Nat \ {0} : q = Pow2[l + 1] BY <2>2 DEF Pow2
  <2>4. PICK j : j = i \div q OBVIOUS
  <2>5. j \in Int BY <2>4
  <2>6. SiblingHash(i, l) = 10000 + 100 * l + (IF j % 2 = 0 THEN j + 1 ELSE j - 1)
    BY <2>3, <2>4 DEF SiblingHash
  <2> QED BY <2>1, <2>2, <2>5, <2>6
<1>3. PICK k : k = 8 * d OBVIOUS
<1>4. k \in 0..48 /\ k % 8 = 0 BY <1>1, <1>3
<1>5. PathTo(i, n) = [w \in 1..k |-> SiblingHash(i, (w - 1) \div 8)] BY <1>1, <1>3 DEF PathTo
<1>6. \A w \in 1..k : SiblingHash(i, (w - 1) \div 8) \in Int BY <1>2, <1>3
<1>7. PathTo(i, n) \in Seq(Int) /\ Len(PathTo(i, n)) = k BY <1>4, <1>5, <1>6, IsASeq
<1>8. IsPath(PathTo(i, n), k) BY <1>4, <1>7 DEF IsPath, Words
<1> QED BY <1>4, <1>8

\* The answers of a batch are well-formed responses.
LEMMA AnswerIs ==
  ASSUME NEW k \in Nat, NEW path, NEW m, IsPath(path, m), NEW nonce, Words(nonce, 8), NEW i \in Int
  PROVE  IsResponse(Answer(k, path, nonce, i), m, 1) /\ IsResponseDraft08(AnswerDraft08(k, path, i), m)
<1>1. Len(path) = m /\ m \in Nat BY DEF IsPath, Words
<1>2. PICK sig, srep, srep8, cert :
        sig = SigOf(k) /\ srep = SrepOf(k) /\ srep8 = SrepDraft08Of(k) /\ cert = Cert
  OBVIOUS
<1>3. Words(sig, 16) /\ IsSrep(srep, 1) /\ IsSrepDraft08(srep8) /\ IsCert(cert)
  BY <1>2, SrepIs, CertIs
<1>4. IsResponse(Answer(k, path, nonce, i), m, 1)
  <2>1. PICK r : r = Answer(k, path, nonce, i) OBVIOUS
  <2>2. r = [sig |-> sig, nonc |-> nonce, path |-> path, srep |-> srep, cert |-> cert, indx |-> i,
             offsets |-> <<64, 96, 100, 100 + 4 * m, 192 + 4 * m, 344 + 4 * m>>]
    BY <1>1, <1>2, <2>1, ZenonT(60) DEF Answer
  <2>3. 192 + 4 * m = 188 + 4 * m + 4 * 1 /\ 344 + 4 * m = 340 + 4 * m + 4 * 1 BY <1>1
  <2>4. PICK o : /\ o = <<64, 96, 100, 100 + 4 * m, 192 + 4 * m, 344 + 4 * m>>
                 /\ o = <<64, 96, 100, 100 + 4 * m, 188 + 4 * m + 4 * 1, 340 + 4 * m + 4 * 1>>
    BY <2>3, Zenon
  <2>5. /\ r = [sig |-> r.sig, nonc |-> r.nonc, path |-> r.path, srep |-> r.srep, cert |-> r.cert,
                indx |-> r.indx, offsets |-> r.offsets]
        /\ r.sig = sig /\ r.nonc = nonce /\ r.path = path /\ r.srep = srep /\ r.cert = cert
        /\ r.indx = i /\ r.offsets = o
    BY <2>2, <2>4
  <2>6. IsResponse(r, m, 1) BY <1>3, <2>4, <2>5, Zenon DEF IsResponse
  <2> QED BY <2>1, <2>6
<1>5. IsResponseDraft08(AnswerDraft08(k, path, i), m)
  <2>1. PICK r : r = AnswerDraft08(k, path, i) OBVIOUS
  <2>2. PICK o : o = <<64, 68, 68 + 4 * m, 136 + 4 * m, 288 + 4 * m>> OBVIOUS
  <2>3. r = [sig |-> sig, ver |-> RfcDraft08, path |-> path, srep |-> srep8, cert |-> cert,
             indx |-> i, offsets |-> o]
    BY <1>1, <1>2, <2>1, <2>2, Zenon DEF AnswerDraft08
  <2>4. /\ r = [sig |-> r.sig, ver |-> r.ver, path |-> r.path, srep |-> r.srep, cert |-> r.cert,
                indx |-> r.indx, offsets |-> r.offsets]
        /\ r.sig = sig /\ r.ver = RfcDraft08 /\ r.path = path /\ r.srep = srep8 /\ r.cert = cert
        /\ r.indx = i /\ r.offsets = o
    BY <2>3
  <2>5. r.ver \in {RfcDraft08, RfcDraft14} BY <2>4
  <2>6. IsResponseDraft08(r, m) BY <1>3, <2>2, <2>4, <2>5, Zenon DEF IsResponseDraft08
  <2> QED BY <2>1, <2>6
<1> QED BY <1>4, <1>5

\* x, of n words, stands between two offsets of f, a words behind a header of h words.
Spans(f, x, n, h, a, from, to) ==
  /\ Words(x, n) /\ h \in Nat /\ a \in Nat /\ At(f, h + 1 + a, x)
  /\ from = 4 * a /\ to = 4 * (a + n)

\* What is cut out between two offsets is the part that stands there.
LEMMA BetweenIs ==
  ASSUME NEW f, NEW x, NEW n, NEW h, NEW a, NEW from, NEW to, Spans(f, x, n, h, a, from, to)
  PROVE  Between(f, h, from, to) = x
<1>1. /\ n \in Nat /\ h \in Nat /\ a \in Nat /\ from = 4 * a /\ to = 4 * (a + n)
      /\ Words(x, n) /\ At(f, h + 1 + a, x)
  BY DEF Words, Spans
<1>2. from \div 4 = a /\ to \div 4 = a + n
  <2>1. (4 * a) \div 4 = a BY <1>1
  <2>2. PICK c \in Nat : c = a + n BY <1>1
  <2>3. (4 * c) \div 4 = c OBVIOUS
  <2> QED BY <1>1, <2>1, <2>2, <2>3
<1>3. Found(f, h + 1 + a, x, n) BY <1>1, FoundAt
<1>4. Len(f) \in Nat BY <1>1, LenProperties DEF At
<1>5. h + 1 + a + n - 1 = h + (a + n) /\ h + (a + n) <= Len(f)
  BY <1>1, <1>3, <1>4 DEF Found, Has
<1>6. ~(h + to \div 4 > Len(f)) BY <1>1, <1>2, <1>4, <1>5
<1>7. Between(f, h, from, to) = SubSeq(f, h + 1 + a, h + (a + n)) BY <1>2, <1>6 DEF Between
<1> QED BY <1>3, <1>5, <1>7 DEF Found, Get

\* What a client of version u makes of an answer of version v.
Checked(d, u, v, k, path, nonce, i) ==
  /\ d.ok <=> u = v
  /\ u = v =>
       /\ d.response.path = path /\ d.response.indx = i
       /\ d.response.srep.midp = MidpointOf(k) /\ d.response.srep.root = RootOf(k)
       /\ d.response.srep.radi = 5 /\ d.response.srep.ver = v
       /\ d.response.sig = SigOf(k) /\ d.response.cert = Cert
       /\ (v = RfcDraft14 => d.response.nonc = nonce)
       /\ d.srep_bytes = SignedOf(v, k) /\ d.dele_bytes = DeleToWire(Cert.dele)

\* A client of the other version finds another number of tags.
LEMMA OtherVersion ==
  ASSUME NEW u \in {RfcDraft08, RfcDraft14}, NEW f, NEW w, Unframed(f) = w,
         w[1] = IF u = RfcDraft08 THEN 7 ELSE 6
  PROVE  validate_response(u, f) = [ok |-> FALSE]
<1>1. CASE u = RfcDraft08
  <2>1. w[1] = 7 BY <1>1
  <2>2. ~HeaderOk(w, 1, 6) BY <2>1 DEF HeaderOk
  <2>3. ~ResponseDraft08Ok(w) BY <2>2 DEF ResponseDraft08Ok
  <2> QED BY <1>1, <2>3, Zenon DEF validate_response
<1>2. CASE u # RfcDraft08
  <2>1. w[1] = 6 BY <1>2
  <2>2. ~HeaderOk(w, 1, 7) BY <2>1 DEF HeaderOk
  <2>3. ~ResponseOk(w) BY <2>2 DEF ResponseOk
  <2> QED BY <1>2, <2>3, Zenon DEF validate_response
<1> QED BY <1>1, <1>2

\* A client of draft 14 decodes an answer of draft 14.
LEMMA AnswerChecks ==
  ASSUME NEW k \in Nat, NEW path, NEW m, IsPath(path, m), NEW nonce, Words(nonce, 8), NEW i \in Int,
         NEW f, f = ToFrame(ResponseToWire(Answer(k, path, nonce, i)))
  PROVE  /\ Checked(validate_response(RfcDraft14, f), RfcDraft14, RfcDraft14, k, path, nonce, i)
         /\ Checked(validate_response(RfcDraft08, f), RfcDraft08, RfcDraft14, k, path, nonce, i)
         /\ Words(f, 104 + m)
<1>1. PICK r : r = Answer(k, path, nonce, i) OBVIOUS
<1>2. PICK w : w = ResponseToWire(r) OBVIOUS
<1>3. IsResponse(r, m, 1) BY <1>1, AnswerIs
<1>4. m \in Nat /\ Len(path) = m BY DEF IsPath, Words
<1>5. /\ ResponseOk(w) /\ ResponseFrom(w) = r /\ Words(w, 100 + m + 1)
      /\ At(w, 40 + m, SrepToWire(r.srep)) /\ w[1] = 7
  BY <1>2, <1>3, ResponseRoundTrip
<1>6. Words(f, 100 + m + 1 + 3) /\ At(f, 4, w) /\ Unframed(f) = w BY <1>1, <1>2, <1>5, FrameWords
<1>7. FrameOk(f)
  <2>1. 100 + m + 1 >= 25 BY <1>4
  <2> QED BY <1>1, <1>2, <1>5, <2>1, FrameAccepted
<1>8. Words(f, 104 + m)
  <2>1. 100 + m + 1 + 3 = 104 + m BY <1>4
  <2> QED BY <1>6, <2>1
<1>9. /\ r.sig = SigOf(k) /\ r.nonc = nonce /\ r.path = path /\ r.srep = SrepOf(k) /\ r.cert = Cert
      /\ r.indx = i
      /\ r.offsets = <<64, 96, 100, 100 + 4 * m, 192 + 4 * m, 344 + 4 * m>>
  <2>1. PICK sig, srep, cert, o :
          /\ sig = SigOf(k) /\ srep = SrepOf(k) /\ cert = Cert
          /\ o = <<64, 96, 100, 100 + 4 * Len(path), 192 + 4 * Len(path), 344 + 4 * Len(path)>>
    OBVIOUS
  <2>2. r = [sig |-> sig, nonc |-> nonce, path |-> path, srep |-> srep, cert |-> cert, indx |-> i,
             offsets |-> o]
    BY <1>1, <2>1, Zenon DEF Answer
  <2>3. /\ r.sig = sig /\ r.nonc = nonce /\ r.path = path /\ r.srep = srep /\ r.cert = cert
        /\ r.indx = i /\ r.offsets = o
    BY <2>2
  <2> QED BY <1>4, <2>1, <2>3, ZenonT(60)
<1>10. srep_bytes(f, r) = SrepToWire(SrepOf(k))
  <2>1. PICK x : x = SrepToWire(SrepOf(k)) OBVIOUS
  <2>2. Words(x, 23)
    <3>1. Words(x, 22 + 1) BY <2>1, SrepIs, SrepWords
    <3> QED BY <3>1
  <2>3. PICK a \in Nat : a = 25 + m BY <1>4
  <2>4. At(f, 17 + 1 + a, x)
    <3>1. 17 + 1 + a = 4 + (40 + m) - 1 BY <1>4, <2>3
    <3> QED BY <1>5, <1>6, <1>9, <2>1, <3>1, AtInside
  <2>5. r.offsets[4] = 4 * a /\ r.offsets[5] = 4 * (a + 23) BY <1>4, <1>9, <2>3
  <2>6. Spans(f, x, 23, 17, a, r.offsets[4], r.offsets[5]) BY <2>2, <2>4, <2>5 DEF Spans
  <2>7. Between(f, 17, r.offsets[4], r.offsets[5]) = x BY <2>6, BetweenIs
  <2> QED BY <2>1, <2>7 DEF srep_bytes
<1>11. Checked(validate_response(RfcDraft14, f), RfcDraft14, RfcDraft14, k, path, nonce, i)
  <2>1. PICK d : d = validate_response(RfcDraft14, f) OBVIOUS
  <2>2. RfcDraft14 # RfcDraft08 BY DEF RfcDraft08, RfcDraft14
  <2>3. d = [ok |-> TRUE, response |-> r, srep_bytes |-> srep_bytes(f, r),
             dele_bytes |-> DeleToWire(r.cert.dele)]
    BY <1>5, <1>6, <1>7, <2>1, <2>2, Zenon DEF validate_response
  <2>4. d.ok /\ d.response = r /\ d.srep_bytes = SrepToWire(SrepOf(k))
        /\ d.dele_bytes = DeleToWire(Cert.dele)
    BY <1>9, <1>10, <2>3
  <2>5. SignedOf(RfcDraft14, k) = SrepToWire(SrepOf(k)) BY <2>2 DEF SignedOf
  <2>6. /\ SrepOf(k).midp = MidpointOf(k) /\ SrepOf(k).root = RootOf(k) /\ SrepOf(k).radi = 5
        /\ SrepOf(k).ver = RfcDraft14
    BY DEF SrepOf
  <2> QED BY <1>9, <2>1, <2>4, <2>5, <2>6, ZenonT(60) DEF Checked
<1>12. Checked(validate_response(RfcDraft08, f), RfcDraft08, RfcDraft14, k, path, nonce, i)
  <2>1. PICK d : d = validate_response(RfcDraft08, f) OBVIOUS
  <2>2. d = [ok |-> FALSE] BY <1>5, <1>6, <2>1, OtherVersion
  <2>3. ~d.ok BY <2>2
  <2>4. RfcDraft14 # RfcDraft08 BY DEF RfcDraft08, RfcDraft14
  <2> QED BY <2>1, <2>3, <2>4, Zenon DEF Checked
<1> QED BY <1>8, <1>11, <1>12

\* A draft 8 response in the form of draft 14 keeps its values.
LEMMA OfDraft08 ==
  ASSUME NEW r, NEW q, q = ResponseOfDraft08(r)
  PROVE  /\ q.path = r.path /\ q.indx = r.indx /\ q.sig = r.sig /\ q.cert = r.cert
         /\ q.srep.midp = r.srep.midp /\ q.srep.root = r.srep.root /\ q.srep.radi = r.srep.radi
         /\ q.srep.ver = RfcDraft08
<1>1. PICK t : t = SrepFromDraft08(r.srep) OBVIOUS
<1>2. t.midp = r.srep.midp /\ t.root = r.srep.root /\ t.radi = r.srep.radi /\ t.ver = RfcDraft08
  BY <1>1 DEF SrepFromDraft08, set_vers, DefaultSrep
<1>3. PICK sg, no, pa, sr, ce, ix, o :
        DefaultResponse = [sig |-> sg, nonc |-> no, path |-> pa, srep |-> sr, cert |-> ce,
                           indx |-> ix, offsets |-> o]
  BY DEF DefaultResponse
<1>4. PICK a : a = set_sig(DefaultResponse, r.sig) OBVIOUS
<1>5. a = [sig |-> r.sig, nonc |-> no, path |-> pa, srep |-> sr, cert |-> ce, indx |-> ix,
           offsets |-> o]
  BY <1>3, <1>4 DEF set_sig
<1>6. \A x : \E y : update_offsets(x) = [x EXCEPT !.offsets = y] BY DEF update_offsets
<1>7. PICK b : b = copy_path(a, r.path) OBVIOUS
<1>8. PICK o1 : b = [[a EXCEPT !.path = r.path] EXCEPT !.offsets = o1]
  <2>1. b = update_offsets([a EXCEPT !.path = r.path]) BY <1>7 DEF copy_path
  <2> QED BY <1>6, <2>1
<1>9. b = [sig |-> r.sig, nonc |-> no, path |-> r.path, srep |-> sr, cert |-> ce, indx |-> ix,
           offsets |-> o1]
  BY <1>5, <1>8
<1>10. PICK c : c = set_srep(b, t) OBVIOUS
<1>11. PICK o2 : c = [[b EXCEPT !.srep = t] EXCEPT !.offsets = o2]
  <2>1. c = update_offsets([b EXCEPT !.srep = t]) BY <1>10 DEF set_srep
  <2> QED BY <1>6, <2>1
<1>12. c = [sig |-> r.sig, nonc |-> no, path |-> r.path, srep |-> t, cert |-> ce, indx |-> ix,
            offsets |-> o2]
  BY <1>9, <1>11
<1>13. q = set_indx(set_cert(c, r.cert), r.indx)
  BY <1>1, <1>4, <1>7, <1>10, Zenon DEF ResponseOfDraft08
<1>14. q = [sig |-> r.sig, nonc |-> no, path |-> r.path, srep |-> t, cert |-> r.cert,
            indx |-> r.indx, offsets |-> o2]
  BY <1>12, <1>13 DEF set_indx, set_cert
<1> QED BY <1>2, <1>14

\* A client of draft 8 decodes an answer of draft 8.
LEMMA AnswerDraft08Checks ==
  ASSUME NEW k \in Nat, NEW path, NEW m, IsPath(path, m), NEW nonce, Words(nonce, 8), NEW i \in Int,
         NEW f, f = ToFrame(ResponseDraft08ToWire(AnswerDraft08(k, path, i)))
  PROVE  /\ Checked(validate_response(RfcDraft08, f), RfcDraft08, RfcDraft08, k, path, nonce, i)
         /\ Checked(validate_response(RfcDraft14, f), RfcDraft14, RfcDraft08, k, path, nonce, i)
         /\ Words(f, 88 + m)
<1>1. PICK r : r = AnswerDraft08(k, path, i) OBVIOUS
<1>2. PICK w : w = ResponseDraft08ToWire(r) OBVIOUS
<1>3. IsResponseDraft08(r, m) BY <1>1, AnswerIs
<1>4. m \in Nat /\ Len(path) = m BY DEF IsPath, Words
<1>5. /\ ResponseDraft08Ok(w) /\ ResponseDraft08From(w) = r /\ Words(w, 85 + m)
      /\ At(w, 30 + m, SrepDraft08ToWire(r.srep)) /\ w[1] = 6
  BY <1>2, <1>3, ResponseDraft08RoundTrip
<1>6. Words(f, 85 + m + 3) /\ At(f, 4, w) /\ Unframed(f) = w BY <1>1, <1>2, <1>5, FrameWords
<1>7. FrameOk(f)
  <2>1. 85 + m >= 25 BY <1>4
  <2> QED BY <1>1, <1>2, <1>5, <2>1, FrameAccepted
<1>8. Words(f, 88 + m)
  <2>1. 85 + m + 3 = 88 + m BY <1>4
  <2> QED BY <1>6, <2>1
<1>9. /\ r.sig = SigOf(k) /\ r.path = path /\ r.srep = SrepDraft08Of(k) /\ r.cert = Cert
      /\ r.indx = i /\ r.offsets = <<64, 68, 68 + 4 * m, 136 + 4 * m, 288 + 4 * m>>
  <2>1. PICK sig, srep, cert, o :
          /\ sig = SigOf(k) /\ srep = SrepDraft08Of(k) /\ cert = Cert
          /\ o = <<64, 68, 68 + 4 * Len(path), 136 + 4 * Len(path), 288 + 4 * Len(path)>>
    OBVIOUS
  <2>2. r = [sig |-> sig, ver |-> RfcDraft08, path |-> path, srep |-> srep, cert |-> cert,
             indx |-> i, offsets |-> o]
    BY <1>1, <2>1, Zenon DEF AnswerDraft08
  <2>3. /\ r.sig = sig /\ r.path = path /\ r.srep = srep /\ r.cert = cert
        /\ r.indx = i /\ r.offsets = o
    BY <2>2
  <2> QED BY <1>4, <2>1, <2>3, ZenonT(60)
<1>10. srep_bytes_draft08(f, r) = SrepDraft08ToWire(SrepDraft08Of(k))
  <2>1. PICK x : x = SrepDraft08ToWire(SrepDraft08Of(k)) OBVIOUS
  <2>2. Words(x, 17) BY <2>1, SrepIs, SrepDraft08Words
  <2>3. PICK a \in Nat : a = 17 + m BY <1>4
  <2>4. At(f, 15 + 1 + a, x)
    <3>1. 15 + 1 + a = 4 + (30 + m) - 1 BY <1>4, <2>3
    <3> QED BY <1>5, <1>6, <1>9, <2>1, <3>1, AtInside
  <2>5. r.offsets[3] = 4 * a /\ r.offsets[4] = 4 * (a + 17) BY SMTT(40), <1>4, <1>9, <2>3
  <2>6. Spans(f, x, 17, 15, a, r.offsets[3], r.offsets[4]) BY <2>2, <2>4, <2>5 DEF Spans
  <2>7. Between(f, 15, r.offsets[3], r.offsets[4]) = x BY <2>6, BetweenIs
  <2> QED BY <2>1, <2>7 DEF srep_bytes_draft08
<1>11. Checked(validate_response(RfcDraft08, f), RfcDraft08, RfcDraft08, k, path, nonce, i)
  <2>1. PICK d, q : d = validate_response(RfcDraft08, f) /\ q = ResponseOfDraft08(r) OBVIOUS
  <2>2. RfcDraft14 # RfcDraft08 BY DEF RfcDraft08, RfcDraft14
  <2>3. d = [ok |-> TRUE, response |-> q, srep_bytes |-> srep_bytes_draft08(f, r),
             dele_bytes |-> DeleToWire(r.cert.dele)]
    BY <1>5, <1>6, <1>7, <2>1, Zenon DEF validate_response
  <2>4. d.ok /\ d.response = q /\ d.srep_bytes = SrepDraft08ToWire(SrepDraft08Of(k))
        /\ d.dele_bytes = DeleToWire(Cert.dele)
    BY <1>9, <1>10, <2>3
  <2>5. SignedOf(RfcDraft08, k) = SrepDraft08ToWire(SrepDraft08Of(k)) BY DEF SignedOf
  <2>6. /\ SrepDraft08Of(k).midp = MidpointOf(k) /\ SrepDraft08Of(k).root = RootOf(k)
        /\ SrepDraft08Of(k).radi = 5
    BY DEF SrepDraft08Of
  <2>7. /\ q.path = r.path /\ q.indx = r.indx /\ q.sig = r.sig /\ q.cert = r.cert
        /\ q.srep.midp = r.srep.midp /\ q.srep.root = r.srep.root /\ q.srep.radi = r.srep.radi
        /\ q.srep.ver = RfcDraft08
    BY <2>1, OfDraft08
  <2>8. /\ q.path = path /\ q.indx = i /\ q.srep.midp = MidpointOf(k) /\ q.srep.root = RootOf(k)
        /\ q.srep.radi = 5 /\ q.srep.ver = RfcDraft08 /\ q.sig = SigOf(k) /\ q.cert = Cert
    BY <1>9, <2>6, <2>7, ZenonT(60)
  <2> QED BY ONLY <2>1, <2>2, <2>4, <2>5, <2>8, ZenonT(60) DEF Checked
<1>12. Checked(validate_response(RfcDraft14, f), RfcDraft14, RfcDraft08, k, path, nonce, i)
  <2>1. PICK d : d = validate_response(RfcDraft14, f) OBVIOUS
  <2>2. RfcDraft14 # RfcDraft08 BY DEF RfcDraft08, RfcDraft14
  <2>3. d = [ok |-> FALSE] BY <1>5, <1>6, <2>1, <2>2, OtherVersion
  <2>4. ~d.ok BY <2>3
  <2> QED BY <2>1, <2>2, <2>4, Zenon DEF Checked
<1> QED BY <1>8, <1>11, <1>12

-----------------------------------------------------------------------------
\* The senders, as they are given.
LEMMA SenderIs ==
  ASSUME NEW s \in Sender
  PROVE  /\ s \in Nat /\ s # Other /\ Senders[s].version \in {RfcDraft08, RfcDraft14}
         /\ Senders[s].srv \in BOOLEAN /\ Senders[s].words \in Int /\ Senders[s].trail \in Nat
         /\ Senders[s].ver \in Seq(Nat \ {0}) /\ Len(Senders[s].ver) <= MAX_VERSIONS
<1>1. PICK S : S = [kind : {"roughenough", "foreign"}, version : {RfcDraft08, RfcDraft14},
                    srv : BOOLEAN, ver : Seq(Nat \ {0}), words : Int, trail : Nat]
  OBVIOUS
<1>2. Senders \in Seq(S) /\ \A i \in DOMAIN Senders : Len(Senders[i].ver) <= MAX_VERSIONS
  BY <1>1, ExchangeAssumption
<1>3. DOMAIN Senders = 1..Len(Senders) /\ Len(Senders) \in Nat BY <1>2, LenProperties
<1>4. s \in 1..Len(Senders) /\ s \in Nat /\ s # 0 BY <1>3 DEF Sender
<1>5. Senders[s] \in S BY <1>2, <1>4, ElementOfSeq
<1>6. Len(Senders[s].ver) <= MAX_VERSIONS BY <1>2 DEF Sender
<1> QED BY <1>1, <1>4, <1>5, <1>6 DEF Other

\* A request with one version, before it is changed.
Plain(c, variant, n, nonce, srv) ==
  /\ c = [variant |-> variant, ver |-> c.ver, srv |-> srv, nonc |-> nonce, pad |-> c.pad,
          offsets |-> c.offsets]
  /\ Words(c.offsets, n - 1) /\ c.offsets[1] = 4 /\ n \in 3..5
  /\ Words(c.ver, 1) /\ c.ver[1] # 0 /\ c.pad \in Int

\* The client's own requests are such messages.
LEMMA PlainIs ==
  ASSUME NEW c, NEW variant, NEW n, NEW nonce, Words(nonce, 8), NEW srv,
         Plain(c, variant, n, nonce, srv)
  PROVE  IsRequest(c, 1, variant, n) /\ c.srv = srv /\ c.nonc = nonce
<1>1. /\ c.variant = variant /\ c.srv = srv /\ c.nonc = nonce BY DEF Plain
<1>2. \A i \in 1..1 : c.ver[i] # 0 BY DEF Plain
<1>3. 1 <= MAX_VERSIONS BY DEF MAX_VERSIONS
<1> QED BY <1>1, <1>2, <1>3 DEF IsRequest, Plain

\* The same request with other versions and another length.
Grown(r, c, ver, words, grown) ==
  /\ ver \in Seq(Nat \ {0}) /\ Len(ver) <= MAX_VERSIONS /\ words \in Int
  /\ grown = Len(ver) - Len(c.ver)
  /\ r = [c EXCEPT !.ver = ver, !.offsets = [i \in DOMAIN @ |-> @[i] + 4 * grown],
                   !.pad = @ + (words - 256) - grown]

\* So are the requests of other implementations, whatever they list and however long.
LEMMA ForeignIs ==
  ASSUME NEW c, NEW variant, NEW n, NEW nonce, Words(nonce, 8), NEW srv,
         Plain(c, variant, n, nonce, srv),
         NEW r, NEW ver, NEW words, NEW grown, Grown(r, c, ver, words, grown)
  PROVE  IsRequest(r, Len(ver), variant, n) /\ r.srv = srv /\ r.nonc = nonce
<1>0. /\ ver \in Seq(Nat \ {0}) /\ Len(ver) <= MAX_VERSIONS /\ words \in Int
      /\ grown = Len(ver) - Len(c.ver)
      /\ r = [c EXCEPT !.ver = ver, !.offsets = [i \in DOMAIN @ |-> @[i] + 4 * grown],
                       !.pad = @ + (words - 256) - grown]
  BY DEF Grown
<1>1. PICK o, q : o = c.offsets /\ q = [i \in DOMAIN o |-> o[i] + 4 * grown] OBVIOUS
<1>2. /\ Words(o, n - 1) /\ o[1] = 4 /\ n \in 3..5 /\ Len(c.ver) = 1 /\ c.pad \in Int
  BY <1>1 DEF Plain, Words
<1>3. Len(ver) \in Nat /\ ver \in Seq(Int) /\ \A i \in 1..Len(ver) : ver[i] # 0
  <2>1. Len(ver) \in Nat /\ \A i \in 1..Len(ver) : ver[i] \in Nat \ {0}
    BY <1>0, ElementOfSeq, LenProperties
  <2>2. ver \in Seq(Int)
    <3>1. \A i \in 1..Len(ver) : ver[i] \in Int BY <2>1
    <3>2. ver = [i \in 1..Len(ver) |-> ver[i]] BY <1>0, LenProperties
    <3> QED BY <2>1, <3>1, <3>2, IsASeq
  <2> QED BY <2>1, <2>2
<1>4. grown \in Int /\ 4 + 4 * grown = 4 * Len(ver) BY <1>0, <1>2, <1>3
<1>5. Words(q, n - 1) /\ q[1] = 4 * Len(ver)
  <2>1. o \in Seq(Int) /\ Len(o) = n - 1 /\ n - 1 \in Nat BY <1>2 DEF Words
  <2>2. DOMAIN o = 1..(n - 1) BY <2>1
  <2>3. \A i \in 1..(n - 1) : o[i] + 4 * grown \in Int
    <3>1. \A i \in 1..(n - 1) : o[i] \in Int BY <2>1, ElementOfSeq
    <3> QED BY <1>4, <3>1
  <2>4. q = [i \in 1..(n - 1) |-> o[i] + 4 * grown] BY <1>1, <2>2
  <2>5. q \in Seq(Int) /\ Len(q) = n - 1
    <3>1. PICK m \in Nat : m = n - 1 BY <2>1
    <3>2. \A i \in 1..m : q[i] \in Int BY <2>3, <2>4, <3>1
    <3>3. q = [i \in 1..m |-> q[i]] BY <2>4, <3>1
    <3>4. q \in Seq(Int) BY ONLY <3>1, <3>2, <3>3, IsASeq
    <3>5. DOMAIN q = 1..m BY <3>3
    <3>6. Len(q) = m BY ONLY <3>1, <3>4, <3>5, LenProperties
    <3> QED BY <3>1, <3>4, <3>6
  <2>6. 1 \in 1..(n - 1) BY <1>2
  <2>7. q[1] = o[1] + 4 * grown BY <2>4, <2>6
  <2> QED BY <1>2, <1>4, <2>1, <2>5, <2>7 DEF Words
<1>6. PICK x, y : x = c.ver /\ y = c.pad OBVIOUS
<1>7. c = [variant |-> variant, ver |-> x, srv |-> srv, nonc |-> nonce, pad |-> y, offsets |-> o]
  BY <1>1, <1>6, Zenon DEF Plain
<1>8. r = [c EXCEPT !.ver = ver, !.offsets = q, !.pad = y + (words - 256) - grown]
  <2>1. r = [c EXCEPT !.ver = ver, !.offsets = [i \in DOMAIN c.offsets |-> c.offsets[i] + 4 * grown],
                      !.pad = c.pad + (words - 256) - grown]
    BY <1>0, <1>7
  <2> QED BY <1>1, <1>6, <2>1, Zenon
<1>9. /\ r.variant = variant /\ r.ver = ver /\ r.srv = srv /\ r.nonc = nonce /\ r.offsets = q
      /\ r.pad \in Int
  <2>1. PICK z : z = y + (words - 256) - grown OBVIOUS
  <2>2. z \in Int BY <1>0, <1>2, <1>4, <1>6, <2>1
  <2>3. r = [c EXCEPT !.ver = ver, !.offsets = q, !.pad = z] BY <1>8, <2>1, Zenon
  <2>4. r = [variant |-> variant, ver |-> ver, srv |-> srv, nonc |-> nonce, pad |-> z,
             offsets |-> q]
    BY ONLY <1>7, <2>3
  <2> QED BY ONLY <2>2, <2>4
<1>10. Words(ver, Len(ver)) BY <1>3 DEF Words
<1> QED BY <1>0, <1>3, <1>5, <1>9, <1>10 DEF IsRequest, Plain

\* What the three kinds of requests have in common, and what is read from one.
Readable(r, nonce) ==
  /\ r.nonc = nonce
  /\ RequestToWire(r) \in Seq(Int)
  /\ \A w : Keeps(w, RequestToWire(r)) => SameRequest(RequestFrom(w), r)

\* A request of any variant is read as it was written, whatever follows it.
LEMMA RequestReads ==
  ASSUME NEW r, NEW v, NEW nonce, r.nonc = nonce,
         \/ IsRequest(r, v, "Draft08", 3) /\ r.srv = <<>>
         \/ IsRequest(r, v, "Draft14", 4) /\ r.srv = <<>>
         \/ IsRequest(r, v, "Draft14Srv", 5) /\ Words(r.srv, 8)
  PROVE  Readable(r, nonce)
<1>1. CASE IsRequest(r, v, "Draft08", 3) /\ r.srv = <<>>
  <2>1. Keeps(RequestToWire(r), RequestToWire(r)) BY DEF Keeps
  <2>2. RequestToWire(r) \in Seq(Int) BY <1>1, <2>1, RequestDraft08Reads
  <2>3. ASSUME NEW w, Keeps(w, RequestToWire(r)) PROVE SameRequest(RequestFrom(w), r)
    BY <1>1, <2>3, RequestDraft08Reads
  <2> QED BY <2>2, <2>3 DEF Readable
<1>2. CASE IsRequest(r, v, "Draft14", 4) /\ r.srv = <<>>
  <2>1. Keeps(RequestToWire(r), RequestToWire(r)) BY DEF Keeps
  <2>2. RequestToWire(r) \in Seq(Int) BY <1>2, <2>1, RequestDraft14Reads
  <2>3. ASSUME NEW w, Keeps(w, RequestToWire(r)) PROVE SameRequest(RequestFrom(w), r)
    BY <1>2, <2>3, RequestDraft14Reads
  <2> QED BY <2>2, <2>3 DEF Readable
<1>3. CASE IsRequest(r, v, "Draft14Srv", 5) /\ Words(r.srv, 8)
  <2>1. Keeps(RequestToWire(r), RequestToWire(r)) BY DEF Keeps
  <2>2. RequestToWire(r) \in Seq(Int) BY <1>3, <2>1, RequestDraft14SrvReads
  <2>3. ASSUME NEW w, Keeps(w, RequestToWire(r)) PROVE SameRequest(RequestFrom(w), r)
    BY <1>3, <2>3, RequestDraft14SrvReads
  <2> QED BY <2>2, <2>3 DEF Readable
<1> QED BY <1>1, <1>2, <1>3

\* Whoever sends it, a request that comes whole is read as it was meant.
LEMMA SenderReads == ASSUME NEW s \in Sender PROVE Readable(RequestOfSender(s), Nonce(s))
<1>1. /\ s \in Nat /\ Senders[s].version \in {RfcDraft08, RfcDraft14}
      /\ Senders[s].srv \in BOOLEAN /\ Senders[s].words \in Int
      /\ Senders[s].ver \in Seq(Nat \ {0}) /\ Len(Senders[s].ver) <= MAX_VERSIONS
  BY SenderIs
<1>2. PICK nonce, com : nonce = Nonce(s) /\ com = SrvCommitment(s) OBVIOUS
<1>3. Words(nonce, 8) /\ Words(com, 8) BY <1>1, <1>2, NonceWords
<1>4. PICK c : c = create_request(s) OBVIOUS
<1>5. PICK variant, n, srv :
        /\ Plain(c, variant, n, nonce, srv)
        /\ \/ variant = "Draft08" /\ n = 3 /\ srv = <<>>
           \/ variant = "Draft14" /\ n = 4 /\ srv = <<>>
           \/ variant = "Draft14Srv" /\ n = 5 /\ Words(srv, 8)
  <2>1. CASE c = new_draft08(nonce)
    <3>1. Plain(c, "Draft08", 3, nonce, <<>>) BY <2>1 DEF new_draft08, Plain, Words, RfcDraft08
    <3> QED BY <3>1
  <2>2. CASE c = new_draft14(nonce)
    <3>1. Plain(c, "Draft14", 4, nonce, <<>>) BY <2>2 DEF new_draft14, Plain, Words, RfcDraft14
    <3> QED BY <3>1
  <2>3. CASE c = new_draft14_with_server_commitment(nonce, com)
    <3>1. Plain(c, "Draft14Srv", 5, nonce, com)
      BY <2>3 DEF new_draft14_with_server_commitment, Plain, Words, RfcDraft14
    <3> QED BY <1>3, <3>1
  <2> QED BY <1>2, <1>4, <2>1, <2>2, <2>3 DEF create_request
<1>6. PICK r : r = RequestOfSender(s) OBVIOUS
<1>7. \E v : IsRequest(r, v, variant, n) /\ r.srv = srv /\ r.nonc = nonce
  <2>1. CASE r = c
    <3>1. IsRequest(c, 1, variant, n) /\ c.srv = srv /\ c.nonc = nonce BY <1>3, <1>5, PlainIs
    <3> QED BY <2>1, <3>1
  <2>2. CASE r = ForeignRequest(s)
    <3>1. PICK ver, words : ver = Senders[s].ver /\ words = Senders[s].words OBVIOUS
    <3>2. PICK grown : grown = Len(ver) - Len(c.ver) OBVIOUS
    <3>3. r = [c EXCEPT !.ver = ver, !.offsets = [i \in DOMAIN @ |-> @[i] + 4 * grown],
                        !.pad = @ + (words - 256) - grown]
      BY <1>4, <2>2, <3>1, <3>2, ZenonT(60) DEF ForeignRequest
    <3>4. IsRequest(r, Len(ver), variant, n) /\ r.srv = srv /\ r.nonc = nonce
      <4>1. Grown(r, c, ver, words, grown) BY <1>1, <3>1, <3>2, <3>3 DEF Grown
      <4> QED BY <1>3, <1>5, <4>1, ForeignIs
    <3> QED BY <3>4
  <2> QED BY <1>4, <1>6, <2>1, <2>2 DEF RequestOfSender
<1>8. Readable(r, nonce)
  <2>1. PICK v : IsRequest(r, v, variant, n) /\ r.srv = srv /\ r.nonc = nonce BY <1>7
  <2> QED BY <1>5, <2>1, RequestReads
<1> QED BY <1>2, <1>6, <1>8

-----------------------------------------------------------------------------
\* Responses of one batch.
Filled(r, k, nonc, path, indx, offsets) ==
  r = [sig |-> SigOf(k), nonc |-> nonc, path |-> path, srep |-> SrepOf(k), cert |-> Cert,
       indx |-> indx, offsets |-> offsets]
FilledDraft08(r, k, path, indx, offsets) ==
  r = [sig |-> SigOf(k), ver |-> RfcDraft08, path |-> path, srep |-> SrepDraft08Of(k),
       cert |-> Cert, indx |-> indx, offsets |-> offsets]

\* The offsets after update_offsets go with the path that is there.
LEMMA OffsetsUpdated ==
  ASSUME NEW r, NEW k \in Nat, NEW nonc, NEW path, Len(path) \in Nat, NEW indx, NEW o,
         Filled(r, k, nonc, path, indx, o)
  PROVE  Filled(update_offsets(r), k, nonc, path, indx,
                <<64, 96, 100, 100 + 4 * Len(path), 192 + 4 * Len(path), 344 + 4 * Len(path)>>)
<1>0. PICK sig : sig = SigOf(k) OBVIOUS
<1>1. PICK srep, cert, m : srep = SrepOf(k) /\ cert = Cert /\ m = Len(path) /\ m \in Nat
  OBVIOUS
<1>2. r = [sig |-> sig, nonc |-> nonc, path |-> path, srep |-> srep, cert |-> cert,
           indx |-> indx, offsets |-> o]
  BY <1>0, <1>1, Zenon DEF Filled
<1>3. r.path = path /\ r.srep = srep /\ r.cert = cert BY <1>2
<1>4. Len(SrepToWire(r.srep)) = 23 /\ Len(CertToWire(r.cert)) = 38
  <2>1. Words(SrepToWire(srep), 22 + 1) BY <1>1, SrepIs, SrepWords
  <2>2. Words(CertToWire(cert), 38) BY <1>1, CertIs, CertWords
  <2> QED BY <1>3, <2>1, <2>2 DEF Words
<1>5. PICK x, y, z : x = 100 + 4 * m /\ y = 192 + 4 * m /\ z = 344 + 4 * m OBVIOUS
<1>6. 100 + 4 * Len(r.path) = x /\ x + 4 * 23 = y /\ y + 4 * 38 = z BY <1>1, <1>3, <1>5
<1>7. update_offsets(r) = [r EXCEPT !.offsets = <<64, 96, 100, x, y, z>>]
  BY <1>4, <1>6, Zenon DEF update_offsets
<1>8. update_offsets(r) = [sig |-> sig, nonc |-> nonc, path |-> path, srep |-> srep, cert |-> cert,
                           indx |-> indx, offsets |-> <<64, 96, 100, x, y, z>>]
  BY ONLY <1>2, <1>7
<1> QED BY <1>0, <1>1, <1>5, <1>8, Zenon DEF Filled

\* update_offsets of draft 8: the offsets are those of the path.
LEMMA OffsetsUpdatedDraft08 ==
  ASSUME NEW r, NEW k \in Nat, NEW path, Len(path) \in Nat, NEW indx, NEW o,
         FilledDraft08(r, k, path, indx, o)
  PROVE  FilledDraft08(update_offsets_draft08(r), k, path, indx,
                       <<64, 68, 68 + 4 * Len(path), 136 + 4 * Len(path), 288 + 4 * Len(path)>>)
<1>0. PICK sig, ver : sig = SigOf(k) /\ ver = RfcDraft08 OBVIOUS
<1>1. PICK srep, cert, m :
        srep = SrepDraft08Of(k) /\ cert = Cert /\ m = Len(path) /\ m \in Nat
  OBVIOUS
<1>2. r = [sig |-> sig, ver |-> ver, path |-> path, srep |-> srep, cert |-> cert,
           indx |-> indx, offsets |-> o]
  BY <1>0, <1>1, Zenon DEF FilledDraft08
<1>3. r.path = path /\ r.srep = srep /\ r.cert = cert BY <1>2
<1>4. Len(SrepDraft08ToWire(r.srep)) = 17 /\ Len(CertToWire(r.cert)) = 38
  <2>1. Words(SrepDraft08ToWire(srep), 17) BY <1>1, SrepIs, SrepDraft08Words
  <2>2. Words(CertToWire(cert), 38) BY <1>1, CertIs, CertWords
  <2> QED BY <1>3, <2>1, <2>2 DEF Words
<1>5. PICK x, y, z : x = 68 + 4 * m /\ y = 136 + 4 * m /\ z = 288 + 4 * m OBVIOUS
<1>6. 68 + 4 * Len(r.path) = x /\ x + 4 * 17 = y /\ y + 4 * 38 = z BY <1>1, <1>3, <1>5
<1>7. update_offsets_draft08(r) = [r EXCEPT !.offsets = <<64, 68, x, y, z>>]
  BY <1>4, <1>6, Zenon DEF update_offsets_draft08
<1>8. update_offsets_draft08(r) =
        [sig |-> sig, ver |-> ver, path |-> path, srep |-> srep, cert |-> cert,
         indx |-> indx, offsets |-> <<64, 68, x, y, z>>]
  BY ONLY <1>2, <1>7
<1> QED BY <1>0, <1>1, <1>5, <1>8, Zenon DEF FilledDraft08

\* A response made from the template is the answer meant, whatever the template held
\* of the response before.
LEMMA FromTemplate ==
  ASSUME NEW k \in Nat, NEW r, Template(r, RfcDraft14, k), NEW path, Len(path) \in Nat,
         NEW nonce, NEW i
  PROVE  set_indx(set_nonc(copy_path(r, path), nonce), i) = Answer(k, path, nonce, i)
<1>1. PICK sig, srep, cert, o :
        /\ sig = SigOf(k) /\ srep = SrepOf(k) /\ cert = Cert
        /\ o = <<64, 96, 100, 100 + 4 * Len(path), 192 + 4 * Len(path), 344 + 4 * Len(path)>>
  OBVIOUS
<1>2. RfcDraft14 # RfcDraft08 BY DEF RfcDraft08, RfcDraft14
<1>3. PICK n0, p0, i0, o0 :
        r = [sig |-> sig, nonc |-> n0, path |-> p0, srep |-> srep, cert |-> cert, indx |-> i0,
             offsets |-> o0]
  BY <1>1, <1>2, Zenon DEF Template
<1>4. PICK t : t = [r EXCEPT !.path = path] OBVIOUS
<1>5. t = [sig |-> sig, nonc |-> n0, path |-> path, srep |-> srep, cert |-> cert, indx |-> i0,
           offsets |-> o0]
  BY ONLY <1>3, <1>4
<1>6. update_offsets(t) = [sig |-> sig, nonc |-> n0, path |-> path, srep |-> srep, cert |-> cert,
                           indx |-> i0, offsets |-> o]
  <2>1. Filled(t, k, n0, path, i0, o0) BY <1>1, <1>5, Zenon DEF Filled
  <2>2. Filled(update_offsets(t), k, n0, path, i0, o) BY <1>1, <2>1, OffsetsUpdated
  <2> QED BY <1>1, <2>2, Zenon DEF Filled
<1>7. copy_path(r, path) = update_offsets(t) BY <1>4, Zenon DEF copy_path
<1>8. PICK u, v, w : u = copy_path(r, path) /\ v = set_nonc(u, nonce) /\ w = set_indx(v, i)
  OBVIOUS
<1>9. w = [sig |-> sig, nonc |-> nonce, path |-> path, srep |-> srep, cert |-> cert, indx |-> i,
           offsets |-> o]
  <2>1. v = [sig |-> sig, nonc |-> nonce, path |-> path, srep |-> srep, cert |-> cert,
             indx |-> i0, offsets |-> o]
    BY ONLY <1>6, <1>7, <1>8 DEF set_nonc
  <2> QED BY ONLY <1>8, <2>1 DEF set_indx
<1> QED BY <1>1, <1>8, <1>9, Zenon DEF Answer

\* In draft 8 too nothing of the answer before is left in the template.
LEMMA FromTemplateDraft08 ==
  ASSUME NEW k \in Nat, NEW r, Template(r, RfcDraft08, k), NEW path, Len(path) \in Nat, NEW i
  PROVE  set_indx(copy_path_draft08(r, path), i) = AnswerDraft08(k, path, i)
<1>1. PICK sig, srep, cert, o :
        /\ sig = SigOf(k) /\ srep = SrepDraft08Of(k) /\ cert = Cert
        /\ o = <<64, 68, 68 + 4 * Len(path), 136 + 4 * Len(path), 288 + 4 * Len(path)>>
  OBVIOUS
<1>3. PICK p0, i0, o0 :
        r = [sig |-> sig, ver |-> RfcDraft08, path |-> p0, srep |-> srep, cert |-> cert,
             indx |-> i0, offsets |-> o0]
  BY <1>1, Zenon DEF Template
<1>4. PICK t : t = [r EXCEPT !.path = path] OBVIOUS
<1>5. t = [sig |-> sig, ver |-> RfcDraft08, path |-> path, srep |-> srep, cert |-> cert,
           indx |-> i0, offsets |-> o0]
  BY ONLY <1>3, <1>4
<1>6. update_offsets_draft08(t) =
        [sig |-> sig, ver |-> RfcDraft08, path |-> path, srep |-> srep, cert |-> cert,
         indx |-> i0, offsets |-> o]
  <2>1. FilledDraft08(t, k, path, i0, o0) BY <1>1, <1>5, Zenon DEF FilledDraft08
  <2>2. FilledDraft08(update_offsets_draft08(t), k, path, i0, o)
    BY <1>1, <2>1, OffsetsUpdatedDraft08
  <2> QED BY <1>1, <2>2, Zenon DEF FilledDraft08
<1>7. copy_path_draft08(r, path) = update_offsets_draft08(t) BY <1>4, Zenon DEF copy_path_draft08
<1>8. PICK u, w : u = copy_path_draft08(r, path) /\ w = set_indx(u, i) OBVIOUS
<1>9. w = [sig |-> sig, ver |-> RfcDraft08, path |-> path, srep |-> srep, cert |-> cert,
           indx |-> i, offsets |-> o]
  BY ONLY <1>6, <1>7, <1>8 DEF set_indx
<1> QED BY <1>1, <1>8, <1>9, Zenon DEF AnswerDraft08

\* What process_responses signs and puts into the template, for batch `batches`.
LEMMA SrepMade ==
  ASSUME batches \in Nat
  PROVE  make_srep = SrepOf(batches) /\ make_srep_draft08 = SrepDraft08Of(batches)
<1>1. PICK m, r : m = MidpointOf(batches) /\ r = RootOf(batches) OBVIOUS
<1>2. Midpoint = m /\ Root = r BY <1>1 DEF Midpoint, Root, MidpointOf, RootOf
<1>3. make_srep = SrepOf(batches)
  <2>1. PICK t : t = set_vers(DefaultSrep, <<RfcDraft14>>) OBVIOUS
  <2>2. PICK a, b : a = FixedTag(0, 2) /\ b = FixedTag(0, 8) OBVIOUS
  <2>3. DefaultSrep = [ver |-> RfcDraft14, radi |-> 0, midp |-> a, vers |-> <<>>, root |-> b,
                       offsets |-> <<4, 8, 16, 0>>]
    BY <2>2, Zenon DEF DefaultSrep
  <2>4. PICK o : o = [<<4, 8, 16, 0>> EXCEPT ![4] = 16 + 4 * Len(<<RfcDraft14>>)] OBVIOUS
  <2>5. o = <<4, 8, 16, 20>> BY <2>4
  <2>6. PICK v : v = <<RfcDraft14>> OBVIOUS
  <2>7. t = [ver |-> RfcDraft14, radi |-> 0, midp |-> a, vers |-> v, root |-> b,
             offsets |-> <<4, 8, 16, 20>>]
    BY <2>1, <2>3, <2>4, <2>5, <2>6 DEF set_vers
  <2>8. make_srep = [t EXCEPT !.radi = 5, !.ver = RfcDraft14, !.root = r, !.midp = m]
    BY <1>2, <2>1, Zenon DEF make_srep
  <2>9. make_srep = [ver |-> RfcDraft14, radi |-> 5, midp |-> m, vers |-> v, root |-> r,
                     offsets |-> <<4, 8, 16, 20>>]
    BY ONLY <2>7, <2>8
  <2> QED BY <1>1, <2>6, <2>9, Zenon DEF SrepOf
<1>4. make_srep_draft08 = SrepDraft08Of(batches)
  <2>1. PICK t : t = DefaultSrepDraft08 OBVIOUS
  <2>2. PICK a, b : t = [radi |-> 0, midp |-> a, root |-> b, offsets |-> <<4, 12>>]
    BY <2>1, Zenon DEF DefaultSrepDraft08
  <2>3. make_srep_draft08 = [t EXCEPT !.radi = 5, !.root = r, !.midp = m]
    BY <1>2, <2>1, Zenon DEF make_srep_draft08
  <2>4. make_srep_draft08 = [radi |-> 5, midp |-> m, root |-> r, offsets |-> <<4, 12>>]
    BY ONLY <2>2, <2>3
  <2> QED BY <1>1, <2>4, Zenon DEF SrepDraft08Of
<1> QED BY <1>3, <1>4

\* What process_responses prepares once for a batch is its template.
LEMMA TemplateMade ==
  ASSUME batches \in Nat
  PROVE  /\ Template(set_sig(set_srep(set_cert(DefaultResponse, Cert), make_srep), Sig),
                     RfcDraft14, batches)
         /\ Template(set_sig(set_srep_draft08(set_cert_draft08(DefaultResponseDraft08, Cert),
                                              make_srep_draft08), Sig),
                     RfcDraft08, batches)
<1>1. PICK srep, srep8, cert, sig :
        srep = SrepOf(batches) /\ srep8 = SrepDraft08Of(batches) /\ cert = Cert /\ sig = SigOf(batches)
  OBVIOUS
<1>2. make_srep = srep /\ make_srep_draft08 = srep8 BY <1>1, SrepMade
<1>3. Sig = sig BY <1>1 DEF Sig, SigOf
<1>4. RfcDraft14 # RfcDraft08 BY DEF RfcDraft08, RfcDraft14
<1>5. Template(set_sig(set_srep(set_cert(DefaultResponse, Cert), make_srep), Sig),
               RfcDraft14, batches)
  <2>1. PICK sg, no, pa, sr, ce, ix, o :
          DefaultResponse = [sig |-> sg, nonc |-> no, path |-> pa, srep |-> sr, cert |-> ce,
                             indx |-> ix, offsets |-> o]
    BY DEF DefaultResponse
  <2>2. PICK a : a = set_cert(DefaultResponse, cert) OBVIOUS
  <2>3. a = [sig |-> sg, nonc |-> no, path |-> pa, srep |-> sr, cert |-> cert, indx |-> ix,
             offsets |-> o]
    BY ONLY <2>1, <2>2 DEF set_cert
  <2>4. PICK b : b = set_srep(a, srep) OBVIOUS
  <2>5. PICK o1 : b = [[a EXCEPT !.srep = srep] EXCEPT !.offsets = o1]
    <3>1. \A x : \E y : update_offsets(x) = [x EXCEPT !.offsets = y] BY DEF update_offsets
    <3>2. b = update_offsets([a EXCEPT !.srep = srep]) BY <2>4 DEF set_srep
    <3> QED BY <3>1, <3>2
  <2>6. b = [sig |-> sg, nonc |-> no, path |-> pa, srep |-> srep, cert |-> cert, indx |-> ix,
             offsets |-> o1]
    BY ONLY <2>3, <2>5
  <2>7. PICK c : c = set_sig(b, sig) OBVIOUS
  <2>8. c = [sig |-> sig, nonc |-> no, path |-> pa, srep |-> srep, cert |-> cert, indx |-> ix,
             offsets |-> o1]
    BY ONLY <2>6, <2>7 DEF set_sig
  <2>9. Template(c, RfcDraft14, batches) BY <1>1, <1>4, <2>8, Zenon DEF Template
  <2> QED BY <1>1, <1>2, <1>3, <2>2, <2>4, <2>7, <2>9, Zenon
<1>6. Template(set_sig(set_srep_draft08(set_cert_draft08(DefaultResponseDraft08, Cert),
                                        make_srep_draft08), Sig),
               RfcDraft08, batches)
  <2>1. PICK sg, pa, sr, ce, ix, o :
          DefaultResponseDraft08 = [sig |-> sg, ver |-> RfcDraft08, path |-> pa, srep |-> sr,
                                    cert |-> ce, indx |-> ix, offsets |-> o]
    BY DEF DefaultResponseDraft08
  <2>2. PICK a : a = set_cert_draft08(DefaultResponseDraft08, cert) OBVIOUS
  <2>3. \A x : \E y : update_offsets_draft08(x) = [x EXCEPT !.offsets = y]
    BY DEF update_offsets_draft08
  <2>4. PICK o1 : a = [[DefaultResponseDraft08 EXCEPT !.cert = cert] EXCEPT !.offsets = o1]
    <3>1. a = update_offsets_draft08([DefaultResponseDraft08 EXCEPT !.cert = cert])
      BY <2>2 DEF set_cert_draft08
    <3> QED BY <2>3, <3>1
  <2>5. a = [sig |-> sg, ver |-> RfcDraft08, path |-> pa, srep |-> sr, cert |-> cert, indx |-> ix,
             offsets |-> o1]
    BY ONLY <2>1, <2>4
  <2>6. PICK b : b = set_srep_draft08(a, srep8) OBVIOUS
  <2>7. PICK o2 : b = [[a EXCEPT !.srep = srep8] EXCEPT !.offsets = o2]
    <3>1. b = update_offsets_draft08([a EXCEPT !.srep = srep8]) BY <2>6 DEF set_srep_draft08
    <3> QED BY <2>3, <3>1
  <2>8. b = [sig |-> sg, ver |-> RfcDraft08, path |-> pa, srep |-> srep8, cert |-> cert,
             indx |-> ix, offsets |-> o2]
    BY ONLY <2>5, <2>7
  <2>9. PICK c : c = set_sig(b, sig) OBVIOUS
  <2>10. c = [sig |-> sig, ver |-> RfcDraft08, path |-> pa, srep |-> srep8, cert |-> cert,
              indx |-> ix, offsets |-> o2]
    BY ONLY <2>8, <2>9 DEF set_sig
  <2>11. Template(c, RfcDraft08, batches) BY <1>1, <2>10, Zenon DEF Template
  <2> QED BY <1>1, <1>2, <1>3, <2>2, <2>6, <2>9, <2>11, Zenon
<1> QED BY <1>5, <1>6

-----------------------------------------------------------------------------
\* An option holds what was put in.
LEMMA SomeIs == \A x : Some(x) # None /\ Some(x)[1] = x
BY DEF Some, None

\* The frame of the i-th answer of the k-th batch, of n requests, to s.
AnswerFrame(f, v, k, n, i, s) ==
  /\ v \in {RfcDraft08, RfcDraft14} /\ k \in Nat /\ n \in 1..BatchSize /\ i \in Nat /\ s \in Nat
  /\ f = ToFrame(AnswerWords(v, k, PathTo(i, n), Nonce(s), i))

\* Every answer is read by the clients of both versions, and is short.
LEMMA AnswerFits ==
  ASSUME NEW f, NEW v, NEW k, NEW n, NEW i, NEW s, AnswerFrame(f, v, k, n, i, s)
  PROVE  /\ \E l \in 0..152 : Words(f, l)
         /\ \A u \in {RfcDraft08, RfcDraft14} :
              Checked(validate_response(u, f), u, v, k, PathTo(i, n), Nonce(s), i)
<1>0. /\ v \in {RfcDraft08, RfcDraft14} /\ k \in Nat /\ n \in 1..BatchSize /\ i \in Nat /\ s \in Nat
      /\ f = ToFrame(AnswerWords(v, k, PathTo(i, n), Nonce(s), i))
  BY DEF AnswerFrame
<1>1. PICK path, nonce : path = PathTo(i, n) /\ nonce = Nonce(s) OBVIOUS
<1>2. PICK m \in 0..48 : IsPath(path, m) BY <1>0, <1>1, PathToIs
<1>3. Words(nonce, 8) BY <1>0, <1>1, NonceWords
<1>4. RfcDraft14 # RfcDraft08 BY DEF RfcDraft08, RfcDraft14
<1>5. CASE v = RfcDraft08
  <2>1. f = ToFrame(ResponseDraft08ToWire(AnswerDraft08(k, path, i)))
    BY <1>0, <1>1, <1>5, Zenon DEF AnswerWords
  <2>2. /\ Checked(validate_response(RfcDraft08, f), RfcDraft08, RfcDraft08, k, path, nonce, i)
        /\ Checked(validate_response(RfcDraft14, f), RfcDraft14, RfcDraft08, k, path, nonce, i)
        /\ Words(f, 88 + m)
    BY <1>0, <1>2, <1>3, <2>1, AnswerDraft08Checks
  <2>3. 88 + m \in 0..152 BY <1>2
  <2> QED BY <1>1, <1>5, <2>2, <2>3, Zenon
<1>6. CASE v = RfcDraft14
  <2>1. f = ToFrame(ResponseToWire(Answer(k, path, nonce, i)))
    BY <1>0, <1>1, <1>4, <1>6, Zenon DEF AnswerWords
  <2>2. /\ Checked(validate_response(RfcDraft14, f), RfcDraft14, RfcDraft14, k, path, nonce, i)
        /\ Checked(validate_response(RfcDraft08, f), RfcDraft08, RfcDraft14, k, path, nonce, i)
        /\ Words(f, 104 + m)
    BY <1>0, <1>2, <1>3, <2>1, AnswerChecks
  <2>3. 104 + m \in 0..152 BY <1>2
  <2> QED BY <1>1, <1>6, <2>2, <2>3, Zenon
<1> QED BY <1>0, <1>5, <1>6

\* What is cut out of the buffer is what was put there last, whatever it held before.
LEMMA BufferHolds ==
  ASSUME NEW buf, Words(buf, 256), NEW w, NEW n, Words(w, n), n <= 256
  PROVE  Words(Put(buf, 1, w), 256) /\ Cut(Put(buf, 1, w), w) = w
<1>1. /\ buf \in Seq(Int) /\ Len(buf) = 256 /\ w \in Seq(Int) /\ Len(w) = n /\ n \in Nat
      /\ DOMAIN buf = 1..256 /\ DOMAIN w = 1..n
  BY LenProperties DEF Words
<1>2. PICK q : q = Put(buf, 1, w) OBVIOUS
<1>3. q = [i \in 1..256 |-> IF 1 <= i /\ i < 1 + n THEN w[i - 1 + 1] ELSE buf[i]]
  BY <1>1, <1>2 DEF Put
<1>4. \A i \in 1..256 : q[i] \in Int
  <2>1. \A i \in 1..256 : buf[i] \in Int
    <3>1. buf \in Seq(Int) /\ Len(buf) = 256 BY <1>1
    <3>2. buf \in [1..Len(buf) -> Int] BY <3>1, LenProperties
    <3>3. buf \in [1..256 -> Int] BY <3>1, <3>2
    <3> QED BY <3>3
  <2>2. \A i \in 1..n : w[i] \in Int BY <1>1, ElementOfSeq
  <2>3. \A i \in 1..256 : i < 1 + n => i \in 1..n /\ i - 1 + 1 = i BY <1>1
  <2> QED BY <1>3, <2>1, <2>2, <2>3
<1>5. Words(q, 256)
  <2>1. q = [i \in 1..256 |-> q[i]] BY <1>3
  <2>2. q \in Seq(Int) BY ONLY <1>4, <2>1, IsASeq
  <2>3. DOMAIN q = 1..256 BY <1>3
  <2>4. Len(q) = 256 BY ONLY <2>2, <2>3, LenProperties
  <2> QED BY <2>2, <2>4 DEF Words
<1>6. SubSeq(q, 1, n) = w
  <2>1. \A i \in 1..n : i \in 1..256 /\ i < 1 + n /\ 1 <= i /\ i - 1 + 1 = i /\ 1 + i - 1 = i
    BY <1>1
  <2>2. \A i \in 1..n : q[i] = w[i] BY <1>3, <2>1
  <2>3. /\ SubSeq(q, 1, n) \in Seq(Int) /\ Len(SubSeq(q, 1, n)) = n
        /\ \A i \in 1..n : SubSeq(q, 1, n)[i] = q[i]
    <3>1. \A i \in 1..n : q[i] \in Int BY <1>4, <2>1
    <3>2. /\ SubSeq(q, 1, n) \in Seq(Int)
          /\ Len(SubSeq(q, 1, n)) = IF 1 <= n THEN n - 1 + 1 ELSE 0
          /\ \A i \in 1..(n - 1 + 1) : SubSeq(q, 1, n)[i] = q[1 + i - 1]
      BY <1>1, <3>1, SubSeqProperties
    <3>3. n - 1 + 1 = n /\ (~(1 <= n) => n = 0) BY <1>1
    <3> QED BY <2>1, <3>2, <3>3
  <2>4. PICK z : z = SubSeq(q, 1, n) OBVIOUS
  <2>5. z \in Seq(Int) /\ Len(z) = n /\ \A i \in 1..n : z[i] = w[i] BY <2>2, <2>3, <2>4
  <2>6. z = w BY ONLY <1>1, <2>5, SeqEqual
  <2> QED BY <2>4, <2>6
<1> QED BY <1>1, <1>2, <1>5, <1>6 DEF Cut

\* A nonempty set of numbers has a least element.
LEMMA LeastNumber ==
  ASSUME NEW T, T \subseteq Nat, T # {}
  PROVE  \E x \in T : \A y \in T : x <= y
<1> DEFINE R == OpToRel(<, Nat)
<1>1. IsWellFoundedOn(R, Nat) BY NatLessThanWellFounded
<1>2. PICK x \in T : \A y \in T : ~(<<y, x>> \in R)
  <2> HIDE DEF R
  <2> QED BY <1>1, WFMin
<1>3. \A y \in T : y < x => <<y, x>> \in R BY DEF OpToRel
<1>4. \A y \in T : ~(y < x) BY <1>2, <1>3, Zenon
<1>5. \A y \in T : x <= y
  <2>1. \A y \in Nat : x \in Nat /\ ~(y < x) => x <= y OBVIOUS
  <2> QED BY <1>4, <2>1
<1> QED BY <1>5, Zenon

\* The turn that is looked at next is one of those left.
LEMMA TurnIs ==
  ASSUME index \in Nat, Len(batch) \in Nat, index < Len(batch)
  PROVE  Turn \in index..(Len(batch) - 1)
<1> DEFINE Stop(i) == batch[i + 1].src # Other \/ i = Len(batch) - 1
           P(i) == Stop(i) /\ \A j \in index..(i - 1) : batch[j + 1].src = Other
           T == {i \in index..(Len(batch) - 1) : Stop(i)}
<1>1. T \subseteq Nat OBVIOUS
<1>2. Len(batch) - 1 \in T OBVIOUS
<1>3. PICK x \in T : \A y \in T : x <= y
  <2> HIDE DEF T
  <2> QED BY <1>1, <1>2, LeastNumber
<1>4. \A j \in index..(x - 1) : j \in index..(Len(batch) - 1) /\ ~(x <= j) OBVIOUS
<1>5. \A j \in index..(x - 1) : ~Stop(j) BY <1>3, <1>4
<1>6. P(x) BY <1>5
<1>7. \E i \in index..(Len(batch) - 1) : P(i) BY <1>6
<1>8. Turn = CHOOSE i \in index..(Len(batch) - 1) : P(i) BY Zenon DEF Turn
<1> HIDE DEF P
<1> QED BY <1>7, <1>8

\* The response of a turn, by the template.
LEMMA ResponseWordsAre ==
  ASSUME IInv, pc = "respond", NEW i \in 0..(Len(batch) - 1)
  PROVE  ResponseWords(i) = AnswerWords(version, batches, PathTo(i, Len(batch)),
                                        Nonce(batch[i + 1].src), i)
<1>1. /\ version \in {RfcDraft08, RfcDraft14} /\ batches \in Nat
      /\ \E r : response_common = Some(r) /\ Template(r, version, batches)
  BY DEF IInv, ServerInv
<1>2. PICK r : response_common = Some(r) /\ Template(r, version, batches) BY <1>1
<1>3. response_common[1] = r BY <1>2, SomeIs
<1>4. Len(batch) \in 1..BatchSize /\ i \in Nat /\ i + 1 \in 1..Len(batch)
  <2>1. Len(batch) \in Nat BY LenProperties DEF IInv, BatchInv
  <2>2. Len(batch) <= BatchSize BY DEF IInv, BatchInv
  <2>3. PICK l : l = Len(batch) OBVIOUS
  <2>4. l \in Nat /\ l <= 64 /\ i \in 0..(l - 1) BY <2>1, <2>2, <2>3 DEF BatchSize
  <2>5. l \in 1..64 /\ i \in Nat /\ i + 1 \in 1..l BY ONLY <2>4
  <2> QED BY <2>3, <2>5 DEF BatchSize
<1>5. PICK path : path = PathTo(i, Len(batch)) OBVIOUS
<1>6. Len(path) \in Nat
  <2>1. PICK m \in 0..48 : IsPath(path, m) BY <1>4, <1>5, PathToIs
  <2> QED BY <2>1 DEF IsPath, Words
<1>7. CASE version = RfcDraft08
  <2>1. set_indx(copy_path_draft08(r, path), i) = AnswerDraft08(batches, path, i)
    BY <1>1, <1>2, <1>6, <1>7, FromTemplateDraft08
  <2> QED BY <1>3, <1>5, <1>7, <2>1, Zenon DEF ResponseWords, AnswerWords
<1>8. CASE version = RfcDraft14
  <2>1. PICK nonce : nonce = batch[i + 1].request.nonc OBVIOUS
  <2>2. set_indx(set_nonc(copy_path(r, path), nonce), i) = Answer(batches, path, nonce, i)
    BY <1>1, <1>2, <1>6, <1>8, FromTemplate
  <2>3. nonce = Nonce(batch[i + 1].src)
    <3>1. Entry(batch[i + 1], requests) BY <1>4 DEF IInv, BatchInv
    <3>2. CASE batch[i + 1].src = Other /\ batch[i + 1].request.nonc = Nonce(Other)
      BY <2>1, <3>2
    <3>3. CASE /\ batch[i + 1].src \in Sender
               /\ SameRequest(batch[i + 1].request, RequestOfSender(batch[i + 1].src))
      BY <2>1, <3>3, SenderReads DEF SameRequest, Readable
    <3> QED BY <3>1, <3>2, <3>3 DEF Entry
  <2>4. version # RfcDraft08 BY <1>8 DEF RfcDraft08, RfcDraft14
  <2> QED BY <1>3, <1>5, <2>1, <2>2, <2>3, <2>4, Zenon DEF ResponseWords, AnswerWords
<1> QED BY <1>1, <1>7, <1>8

-----------------------------------------------------------------------------
\* Initially nothing is on its way.
LEMMA InitIInv == Init => IInv
<1> SUFFICES ASSUME Init PROVE IInv OBVIOUS
<1>1. /\ requests = [s \in Sender |-> None] /\ frames = [s \in Sender |-> None]
      /\ meant = [s \in Sender |-> None] /\ decoded = [s \in Sender |-> None]
      /\ sock = <<>> /\ batch = <<>> /\ Len(batch) = 0 /\ 1..Len(batch) = {}
  BY DEF Init, Sender
<1>2. RequestsInv BY <1>1 DEF RequestsInv
<1>3. BatchInv
  <2>1. batch \in Seq({}) BY <1>1, EmptySeq
  <2>2. Len(batch) <= BatchSize BY <1>1 DEF BatchSize
  <2> QED BY <1>1, <2>1, <2>2, Zenon DEF BatchInv
<1>4. ServerInv
  <2>1. Words(response_buf, 256) BY FixedTagWords DEF Init
  <2> QED BY <1>1, <2>1 DEF ServerInv, Init
<1>5. OnceInv BY <1>1 DEF OnceInv
<1>6. AnswerInv BY <1>1 DEF AnswerInv
<1>7. DecodedInv BY <1>1 DEF DecodedInv
<1> QED BY <1>2, <1>3, <1>4, <1>5, <1>6, <1>7 DEF IInv

\* What all steps leave alone that change neither the batch nor the answers.
LEMMA SameServer == ASSUME ServerInv, UNCHANGED server PROVE ServerInv'
BY DEF ServerInv, server

\* A request goes out as its sender built it.
LEMMA SendRequestIInv ==
  ASSUME IInv, NEW s \in Sender, SendRequest(s)
  PROVE  IInv'
<1>1. PICK r, e : r = RequestOfSender(s) /\ e = [src |-> s, bytes |-> Datagram(s)] OBVIOUS
<1>2. /\ requests[s] = None /\ sock = <<>>
      /\ requests' = [requests EXCEPT ![s] = Some(r)]
      /\ sock' = Append(sock, e)
      /\ UNCHANGED <<server, frames, meant, decoded>>
  BY <1>1, Zenon DEF SendRequest
<1>3. sock' = <<e>> BY <1>2
<1>4. /\ DOMAIN requests = Sender /\ DOMAIN requests' = Sender /\ requests'[s] = Some(r)
      /\ \A t \in Sender : t # s => requests'[t] = requests[t]
  BY <1>2 DEF IInv, RequestsInv
<1>5. Some(r) # None BY SomeIs
<1>6. RequestsInv'
  <2>1. \A t \in Sender : requests'[t] = None \/ requests'[t] = Some(RequestOfSender(t))
    BY <1>1, <1>4 DEF IInv, RequestsInv
  <2>2. requests'[s] # None BY <1>4, <1>5
  <2>3. \E t \in Sender : requests'[t] # None /\ sock' = <<[src |-> t, bytes |-> Datagram(t)]>>
    BY <1>1, <1>3, <2>2, Zenon
  <2> QED BY <1>4, <2>1, <2>3, Zenon DEF RequestsInv, Sender
<1>7. BatchInv'
  <2>1. \A p : Entry(p, requests) => Entry(p, requests')
    <3>1. \A t \in Sender : requests[t] # None => requests'[t] # None BY <1>4, <1>5
    <3> QED BY <3>1, Zenon DEF Entry, Sender
  <2>2. batch' = batch BY <1>2 DEF server
  <2> QED BY <2>1, <2>2 DEF IInv, BatchInv
<1>8. ServerInv' BY <1>2, SameServer DEF IInv
<1>9. OnceInv'
  <2>1. batch' = batch /\ index' = index /\ frames' = frames BY <1>2 DEF server
  <2>2. sock'[1].src = s BY <1>1, <1>3
  <2>3. frames[s] = None BY <1>2 DEF IInv, OnceInv
  <2>4. \A i \in 1..Len(batch) : batch[i].src # s
    <3>1. SUFFICES ASSUME NEW i \in 1..Len(batch), batch[i].src = s PROVE FALSE OBVIOUS
    <3>2. Entry(batch[i], requests) BY DEF IInv, BatchInv
    <3>3. s # Other BY SenderIs
    <3> QED BY <1>2, <3>1, <3>2, <3>3 DEF Entry
  <2>5. \A t \in Sender : requests'[t] = None => frames[t] = None
    BY <1>4, <1>5 DEF IInv, OnceInv
  <2> QED BY <2>1, <2>2, <2>3, <2>4, <2>5 DEF IInv, OnceInv, Sender
<1>10. AnswerInv' BY <1>2 DEF IInv, AnswerInv, server
<1>11. DecodedInv' BY <1>2 DEF IInv, DecodedInv
<1> QED BY <1>6, <1>7, <1>8, <1>9, <1>10, <1>11 DEF IInv

\* What the server takes into the batch has the whole message of its sender; a message
\* that the buffer cut does not parse.
LEMMA CollectIInv == ASSUME IInv, Collect PROVE IInv'
<1>1. PICK s \in Sender : /\ requests[s] # None
                          /\ sock = <<[src |-> s, bytes |-> Datagram(s)]>>
  BY DEF IInv, RequestsInv, Collect
<1>2. Head(sock).src = s /\ Head(sock).bytes = Datagram(s) /\ Tail(sock) = <<>> /\ sock[1].src = s
  BY <1>1
<1>3. PICK b : b = Received(Datagram(s)) OBVIOUS
<1>4. PICK e : e = [src |-> s, bytes |-> b, request |-> RequestFrom(Unframed(b))] OBVIOUS
<1>5. /\ pc = "collect" /\ sock' = <<>> /\ Len(batch) < BatchSize
      /\ batch' = IF collect_request(b) THEN Append(batch, e) ELSE batch
      /\ UNCHANGED <<version, requests, others, batches, pc, response_common, signed, index,
                     response_buf, frames, meant, decoded>>
  BY <1>2, <1>3, <1>4, Zenon DEF Collect
<1>6. PICK S0 : batch \in Seq(S0) BY DEF IInv, BatchInv
<1>7. Len(batch) \in Nat BY <1>6, LenProperties
<1>8. RequestsInv' BY <1>5 DEF IInv, RequestsInv
<1>9. AnswerInv' BY <1>5 DEF IInv, AnswerInv
<1>10. DecodedInv' BY <1>5 DEF IInv, DecodedInv
<1>11. CASE ~collect_request(b)
  <2>1. batch' = batch BY <1>5, <1>11
  <2>2. BatchInv' BY <1>5, <2>1 DEF IInv, BatchInv, Entry
  <2>3. ServerInv' BY <1>5, <2>1 DEF IInv, ServerInv
  <2>4. OnceInv' BY <1>5, <2>1 DEF IInv, OnceInv
  <2> QED BY <1>8, <1>9, <1>10, <2>2, <2>3, <2>4 DEF IInv
<1>12. CASE collect_request(b)
  <2>1. PICK S : batch \in Seq(S) /\ e \in S
    <3>1. S0 \subseteq (S0 \cup {e}) OBVIOUS
    <3>2. batch \in Seq(S0 \cup {e}) BY <1>6, <3>1, SeqMonotonic
    <3> QED BY <3>2
  <2>2. PICK n \in Nat : n = Len(batch) BY <1>7
  <2>3. /\ batch' \in Seq(S) /\ Len(batch') = n + 1 /\ batch'[n + 1] = e
        /\ \A i \in 1..n : batch'[i] = batch[i]
    BY <1>5, <1>12, <2>1, <2>2, AppendProperties
  <2>4. \A i \in 1..(n + 1) : i \in 1..n \/ i = n + 1 OBVIOUS
  <2>5. e.src = s /\ e.bytes = b /\ e.request = RequestFrom(Unframed(b)) BY <1>4
  <2>6. Readable(RequestOfSender(s), Nonce(s)) BY SenderReads
  <2>7. /\ Words(b, 256) /\ At(b, 1, RequestFrame(s))
        /\ Keeps(Unframed(b), RequestToWire(RequestOfSender(s)))
    <3>1. PICK w : w = RequestToWire(RequestOfSender(s)) OBVIOUS
    <3>2. w \in Seq(Int) BY <2>6, <3>1 DEF Readable
    <3>3. Words(w, Len(w)) BY <3>2, LenProperties DEF Words
    <3>4. PICK t, k : Words(t, k) /\ Datagram(s) = ToFrame(w) \o t
      <4>1. PICK m \in Int : m = IF Senders[s].kind = "roughenough" THEN 0 ELSE Senders[s].trail
        BY SenderIs
      <4>2. PICK k : Words(FixedTag(7, m), k) BY FixedTagWords
      <4>3. Datagram(s) = ToFrame(w) \o FixedTag(7, m) BY <3>1, <4>1, Zenon DEF Datagram
      <4> QED BY <4>2, <4>3
    <3>5. Len(b) = 256 /\ FrameOk(b) BY <1>12 DEF collect_request
    <3>6. b = Received(ToFrame(w) \o t) BY <1>3, <3>4
    <3>7. Words(b, 256) /\ At(b, 1, ToFrame(w)) /\ Keeps(Unframed(b), w)
      BY <3>3, <3>4, <3>5, <3>6, MessageNotCut
    <3> QED BY <3>1, <3>7 DEF RequestFrame
  <2>8. SameRequest(e.request, RequestOfSender(s)) BY <2>5, <2>6, <2>7 DEF Readable
  <2>9. requests' = requests /\ index' = index /\ pc' = pc /\ frames' = frames BY <1>5
  <2>10. s # Other BY SenderIs
  <2>11. BatchInv'
    <3>1. \A p : Entry(p, requests) => Entry(p, requests') BY <2>9, Zenon DEF Entry, Sender
    <3>2. Entry(e, requests') BY <1>1, <2>5, <2>7, <2>8, <2>9 DEF Entry
    <3>3. \A i \in 1..n : Entry(batch[i], requests) BY <2>2 DEF IInv, BatchInv
    <3>4. \A i \in 1..n : Entry(batch'[i], requests') BY <2>3, <3>1, <3>3
    <3>5. \A i \in 1..(n + 1) : Entry(batch'[i], requests') BY <2>3, <2>4, <3>2, <3>4
    <3>6. n + 1 <= BatchSize BY <1>5, <2>2 DEF BatchSize
    <3> QED BY <2>3, <3>5, <3>6 DEF BatchInv
  <2>12. ServerInv'
    <3>1. index' = 0 /\ 0 <= n + 1 /\ index' \in Nat BY <1>5, <2>9 DEF IInv, ServerInv
    <3>2. pc' = "collect" BY <1>5
    <3> QED BY <1>5, <2>3, <3>1, <3>2 DEF IInv, ServerInv
  <2>13. OnceInv'
    <3>1. frames[s] = None /\ \A i \in 1..n : batch[i].src # s BY <1>1, <1>2, <2>2 DEF IInv, OnceInv
    <3>2. \A i, j \in 1..(n + 1) : batch'[i].src = batch'[j].src /\ batch'[i].src # Other => i = j
      <4>1. \A i, j \in 1..n : batch[i].src = batch[j].src /\ batch[i].src # Other => i = j
        BY <2>2 DEF IInv, OnceInv
      <4> QED BY <2>3, <2>4, <2>5, <3>1, <4>1
    <3>3. \A i \in 1..(n + 1) : i > index' /\ batch'[i].src # Other => frames[batch'[i].src] = None
      <4>1. \A i \in 1..n : i > index /\ batch[i].src # Other => frames[batch[i].src] = None
        BY <2>2 DEF IInv, OnceInv
      <4> QED BY <2>3, <2>4, <2>5, <2>9, <3>1, <4>1
    <3>4. sock' = <<>> BY <1>5
    <3>5. \A t \in Sender : requests[t] = None => frames[t] = None BY DEF IInv, OnceInv
    <3>6. DOMAIN frames = Sender BY DEF IInv, OnceInv
    <3> QED BY <2>3, <2>9, <3>2, <3>3, <3>4, <3>5, <3>6 DEF OnceInv, Sender
  <2> QED BY <1>8, <1>9, <1>10, <2>11, <2>12, <2>13 DEF IInv
<1> QED BY <1>11, <1>12

\* Requests of others take places in the batch and nothing else.
LEMMA CollectOthersIInv == ASSUME IInv, NEW n \in OtherCounts, CollectOthers(n) PROVE IInv'
<1>1. n \in 1..BatchSize /\ n \in Nat /\ n >= 1 BY ExchangeAssumption DEF BatchSize
<1>2. PICK c : c = [src |-> Other, bytes |-> <<>>, request |-> new_draft14(Nonce(Other))] OBVIOUS
<1>3. PICK x : x = [i \in 1..n |-> c] OBVIOUS
<1>4. /\ pc = "collect" /\ Len(batch) + n <= BatchSize /\ batch' = batch \o x
      /\ UNCHANGED <<version, requests, sock, batches, pc, response_common, signed, index,
                     response_buf, frames, meant, decoded>>
  BY <1>2, <1>3, Zenon DEF CollectOthers
<1>5. x \in Seq({c}) /\ Len(x) = n /\ \A i \in 1..n : x[i] = c
  <2>1. \A i \in 1..n : x[i] = c BY <1>3
  <2>2. x \in Seq({c}) BY <1>1, <1>3, IsASeq
  <2>3. DOMAIN x = 1..n BY <1>3
  <2>4. Len(x) = n BY <1>1, <2>2, <2>3, LenProperties
  <2> QED BY <2>1, <2>2, <2>4
<1>6. PICK S : batch \in Seq(S) /\ x \in Seq(S)
  <2>1. PICK S0 : batch \in Seq(S0) BY DEF IInv, BatchInv
  <2>2. S0 \subseteq (S0 \cup {c}) /\ {c} \subseteq (S0 \cup {c}) OBVIOUS
  <2>3. batch \in Seq(S0 \cup {c}) BY <2>1, <2>2, SeqMonotonic
  <2>4. x \in Seq(S0 \cup {c}) BY <1>5, <2>2, SeqMonotonic
  <2> QED BY <2>3, <2>4
<1>7. PICK m \in Nat : m = Len(batch) BY <1>6, LenProperties
<1>8. /\ batch' \in Seq(S) /\ Len(batch') = m + n
      /\ \A i \in 1..(m + n) : batch'[i] = IF i <= m THEN batch[i] ELSE x[i - m]
  BY <1>4, <1>5, <1>6, <1>7, ConcatProperties
<1>9. \A i \in 1..(m + n) : \/ i \in 1..m /\ batch'[i] = batch[i]
                            \/ i \notin 1..m /\ batch'[i] = c
  <2>1. \A i \in 1..(m + n) : i <= m => i \in 1..m BY <1>7
  <2>2. \A i \in 1..(m + n) : ~(i <= m) => i \notin 1..m /\ i - m \in 1..n BY <1>1, <1>7
  <2> QED BY <1>5, <1>8, <2>1, <2>2
<1>10. c.src = Other /\ c.request.nonc = Nonce(Other)
  <2>1. c.src = Other /\ c.request = new_draft14(Nonce(Other)) BY <1>2
  <2>2. PICK y : y = Nonce(Other) OBVIOUS
  <2>3. new_draft14(y).nonc = y BY DEF new_draft14
  <2> QED BY <2>1, <2>2, <2>3
<1>11. RequestsInv' BY <1>4 DEF IInv, RequestsInv
<1>12. BatchInv'
  <2>1. \A i \in 1..m : Entry(batch[i], requests) BY <1>7 DEF IInv, BatchInv
  <2>2. Entry(c, requests) BY <1>10 DEF Entry
  <2>3. requests' = requests /\ m + n <= BatchSize BY <1>4, <1>7
  <2>4. \A i \in 1..(m + n) : Entry(batch'[i], requests') BY <1>9, <2>1, <2>2, <2>3
  <2> QED BY <1>8, <2>3, <2>4 DEF BatchInv
<1>13. ServerInv'
  <2>1. index' = 0 /\ 0 <= m + n /\ 0 \in Nat BY <1>1, <1>4, <1>7 DEF IInv, ServerInv
  <2>2. pc' = "collect" BY <1>4
  <2> QED BY <1>4, <1>8, <2>1, <2>2 DEF IInv, ServerInv
<1>14. OnceInv'
  <2>1. requests' = requests /\ frames' = frames /\ sock' = sock /\ index' = index BY <1>4
  <2>2. \A i, j \in 1..(m + n) : batch'[i].src = batch'[j].src /\ batch'[i].src # Other => i = j
    <3>1. \A i, j \in 1..m : batch[i].src = batch[j].src /\ batch[i].src # Other => i = j
      BY <1>7 DEF IInv, OnceInv
    <3> QED BY <1>9, <1>10, <3>1
  <2>3. \A i \in 1..(m + n) : i > index /\ batch'[i].src # Other => frames[batch'[i].src] = None
    <3>1. \A i \in 1..m : i > index /\ batch[i].src # Other => frames[batch[i].src] = None
      BY <1>7 DEF IInv, OnceInv
    <3> QED BY <1>9, <1>10, <3>1
  <2>4. sock # <<>> => /\ frames[sock[1].src] = None
                       /\ \A i \in 1..(m + n) : batch'[i].src # sock[1].src
    <3> SUFFICES ASSUME sock # <<>>
                 PROVE  /\ frames[sock[1].src] = None
                        /\ \A i \in 1..(m + n) : batch'[i].src # sock[1].src
      OBVIOUS
    <3>1. frames[sock[1].src] = None /\ \A i \in 1..m : batch[i].src # sock[1].src
      BY <1>7 DEF IInv, OnceInv
    <3>2. PICK s \in Sender : sock = <<[src |-> s, bytes |-> Datagram(s)]>>
      BY DEF IInv, RequestsInv
    <3>3. sock[1].src # Other BY <3>2, SenderIs
    <3> QED BY <1>9, <1>10, <3>1, <3>3
  <2>5. DOMAIN frames = Sender /\ \A t \in Sender : requests[t] = None => frames[t] = None
    BY DEF IInv, OnceInv
  <2> QED BY <1>8, <2>1, <2>2, <2>3, <2>4, <2>5 DEF OnceInv, Sender
<1>15. AnswerInv' BY <1>4 DEF IInv, AnswerInv
<1>16. DecodedInv' BY <1>4 DEF IInv, DecodedInv
<1> QED BY <1>11, <1>12, <1>13, <1>14, <1>15, <1>16 DEF IInv

\* The template of a batch has its signed part.
LEMMA ProcessResponsesIInv == ASSUME IInv, ProcessResponses PROVE IInv'
<1>1. /\ pc = "collect" /\ index' = 0 /\ pc' = "respond"
      /\ UNCHANGED <<version, requests, sock, batch, others, batches, response_buf, frames, meant,
                     decoded>>
  BY DEF ProcessResponses
<1>2. version \in {RfcDraft08, RfcDraft14} /\ batches \in Nat /\ index = 0
  BY <1>1 DEF IInv, ServerInv
<1>3. RfcDraft14 # RfcDraft08 BY DEF RfcDraft08, RfcDraft14
<1>4. \E r : response_common' = Some(r) /\ Template(r, version, batches)
  <2>1. PICK t, t8 :
          /\ t = set_sig(set_srep(set_cert(DefaultResponse, Cert), make_srep), Sig)
          /\ t8 = set_sig(set_srep_draft08(set_cert_draft08(DefaultResponseDraft08, Cert),
                                           make_srep_draft08), Sig)
    OBVIOUS
  <2>2. Template(t, RfcDraft14, batches) /\ Template(t8, RfcDraft08, batches)
    BY <1>2, <2>1, TemplateMade
  <2>3. response_common' = Some(IF version = RfcDraft08 THEN t8 ELSE t)
    BY <2>1, Zenon DEF ProcessResponses
  <2> QED BY <1>2, <1>3, <2>2, <2>3
<1>5. signed' = SignedOf(version, batches)
  <2>1. signed' = IF version = RfcDraft08 THEN SrepDraft08ToWire(make_srep_draft08)
                                          ELSE SrepToWire(make_srep)
    BY DEF ProcessResponses
  <2>2. make_srep = SrepOf(batches) /\ make_srep_draft08 = SrepDraft08Of(batches)
    BY <1>2, SrepMade
  <2> QED BY <2>1, <2>2, Zenon DEF SignedOf
<1>6. RequestsInv' BY <1>1 DEF IInv, RequestsInv
<1>7. BatchInv' BY <1>1 DEF IInv, BatchInv
<1>8. ServerInv'
  <2>1. 0 <= Len(batch)
    <3>1. Len(batch) \in Nat BY LenProperties DEF IInv, BatchInv
    <3> QED BY <3>1
  <2>2. Words(response_buf, 256) BY DEF IInv, ServerInv
  <2> QED BY <1>1, <1>2, <1>4, <1>5, <2>1, <2>2 DEF ServerInv
<1>9. OnceInv' BY <1>1, <1>2 DEF IInv, OnceInv
<1>10. AnswerInv' BY <1>1 DEF IInv, AnswerInv
<1>11. DecodedInv' BY <1>1 DEF IInv, DecodedInv
<1> QED BY <1>6, <1>7, <1>8, <1>9, <1>10, <1>11 DEF IInv

\* The end of a batch empties it.
LEMMA FinishBatchIInv == ASSUME IInv, FinishBatch PROVE IInv'
<1>1. /\ batch' = <<>> /\ batches' = batches + 1 /\ pc' = "collect" /\ index' = 0
      /\ UNCHANGED <<version, requests, sock, others, response_buf, frames, meant, decoded>>
  BY DEF FinishBatch
<1>2. Len(batch') = 0 /\ 1..Len(batch') = {} /\ batch' \in Seq({}) BY <1>1, EmptySeq
<1>3. RequestsInv' BY <1>1 DEF IInv, RequestsInv
<1>4. BatchInv'
  <2>1. Len(batch') <= BatchSize BY <1>2 DEF BatchSize
  <2> QED BY <1>2, <2>1, Zenon DEF BatchInv
<1>5. ServerInv' BY <1>1, <1>2 DEF IInv, ServerInv
<1>6. OnceInv' BY <1>1, <1>2 DEF IInv, OnceInv
<1>7. AnswerInv'
  <2>1. batches \in Nat BY DEF IInv, ServerInv
  <2>2. \A k \in 0..batches : k \in 0..(batches + 1) BY <2>1
  <2> QED BY <1>1, <2>2 DEF IInv, AnswerInv
<1>8. DecodedInv' BY <1>1 DEF IInv, DecodedInv
<1> QED BY <1>3, <1>4, <1>5, <1>6, <1>7, <1>8 DEF IInv

\* A client decodes what it was sent.
LEMMA DecodeIInv == ASSUME IInv, NEW s \in Sender, Decode(s) PROVE IInv'
<1>1. PICK d : d = validate_response(Senders[s].version, Received(frames[s][1])) OBVIOUS
<1>2. /\ frames[s] # None /\ decoded' = [decoded EXCEPT ![s] = Some(d)]
      /\ UNCHANGED <<server, requests, sock, frames, meant>>
  BY <1>1, Zenon DEF Decode
<1>3. /\ version' = version /\ batch' = batch /\ batches' = batches /\ index' = index
      /\ requests' = requests /\ sock' = sock /\ frames' = frames /\ meant' = meant
  BY <1>2 DEF server
<1>4. RequestsInv' BY <1>3 DEF IInv, RequestsInv
<1>5. BatchInv' BY <1>3 DEF IInv, BatchInv
<1>6. ServerInv' BY <1>2, SameServer DEF IInv
<1>7. OnceInv' BY <1>3 DEF IInv, OnceInv
<1>8. AnswerInv' BY ZenonT(60), <1>3 DEF IInv, AnswerInv
<1>9. DecodedInv'
  <2>1. /\ DOMAIN decoded = Sender /\ DOMAIN decoded' = Sender /\ decoded'[s] = Some(d)
        /\ \A t \in Sender : t # s => decoded'[t] = decoded[t]
    BY <1>2 DEF IInv, DecodedInv
  <2>2. ASSUME NEW t \in Sender, decoded'[t] # None
        PROVE  /\ frames[t] # None
               /\ decoded'[t] = Some(validate_response(Senders[t].version, Received(frames[t][1])))
    <3>1. CASE t = s BY <1>1, <1>2, <2>1, <3>1
    <3>2. CASE t # s BY <2>1, <2>2, <3>2 DEF IInv, DecodedInv
    <3> QED BY <3>1, <3>2
  <2> QED BY <1>3, <2>1, <2>2 DEF DecodedInv, Sender
<1> QED BY <1>4, <1>5, <1>6, <1>7, <1>8, <1>9 DEF IInv

\* The answer at the index is made from the template and is framed as it was meant.
LEMMA SendResponseIInv == ASSUME IInv, SendResponse PROVE IInv'
<1>1. PICK i, n, w, src, buf :
        /\ i = Turn /\ n = Len(batch) /\ w = ToFrame(ResponseWords(i)) /\ src = batch[i + 1].src
        /\ buf = Put(response_buf, 1, w)
  OBVIOUS
<1>2. n \in 1..BatchSize /\ n \in Nat /\ index \in Nat /\ i \in index..(n - 1) /\ i \in Nat
  <2>1. Len(batch) \in Nat BY LenProperties DEF IInv, BatchInv
  <2>2. index \in Nat /\ index < Len(batch) /\ Len(batch) <= BatchSize
    BY DEF IInv, BatchInv, ServerInv, SendResponse
  <2>3. i \in index..(n - 1) BY <1>1, <2>1, <2>2, TurnIs
  <2>4. n \in Nat /\ n <= 64 /\ index < n BY <1>1, <2>1, <2>2 DEF BatchSize
  <2>5. n \in 1..64 /\ i \in Nat BY ONLY <2>2, <2>3, <2>4
  <2> QED BY <2>2, <2>3, <2>4, <2>5 DEF BatchSize
<1>3. i + 1 \in 1..n /\ i + 1 > index /\ i \in 0..(n - 1) /\ i + 1 <= n BY <1>2
<1>4. Entry(batch[i + 1], requests) BY <1>1, <1>3 DEF IInv, BatchInv
<1>5. src \in Nat /\ (src # Other => src \in Sender /\ requests[src] # None)
  <2>1. src = Other \/ (src \in Sender /\ requests[src] # None) BY <1>1, <1>4 DEF Entry
  <2>2. src \in Sender => src \in Nat BY SenderIs
  <2>3. Other \in Nat BY DEF Other
  <2> QED BY <2>1, <2>2, <2>3
<1>6. /\ version \in {RfcDraft08, RfcDraft14} /\ batches \in Nat /\ Words(response_buf, 256)
      /\ pc = "respond" /\ signed = SignedOf(version, batches)
  BY DEF IInv, ServerInv, SendResponse
<1>7. w = ToFrame(AnswerWords(version, batches, PathTo(i, n), Nonce(src), i))
  BY <1>1, <1>3, <1>6, ResponseWordsAre
<1>8. PICK l \in 0..152 : Words(w, l)
  <2>1. AnswerFrame(w, version, batches, n, i, src) BY <1>2, <1>5, <1>6, <1>7 DEF AnswerFrame
  <2> QED BY <2>1, AnswerFits
<1>9. ~(Len(w) > RESPONSE_BUF_WORDS) BY <1>8 DEF Words, RESPONSE_BUF_WORDS
<1>10. Words(buf, 256) /\ Cut(buf, w) = w
  <2>1. l <= 256 BY <1>8
  <2> QED BY <1>1, <1>6, <1>8, <2>1, BufferHolds
<1>11. PICK m : m = [path |-> PathTo(i, n), indx |-> i, midp |-> MidpointOf(batches),
                     root |-> RootOf(batches), sig |-> SigOf(batches),
                     signed |-> SignedOf(version, batches)]
  OBVIOUS
<1>12. /\ response_buf' = buf /\ index' = i + 1 /\ pc' = pc
       /\ IF src = Other THEN UNCHANGED <<frames, meant>>
          ELSE /\ frames' = [frames EXCEPT ![src] = Some(w)]
               /\ meant' = [meant EXCEPT ![src] = Some(m)]
       /\ UNCHANGED <<version, requests, sock, batch, others, batches, response_common, signed,
                      decoded>>
  <2>1. /\ Midpoint = MidpointOf(batches) /\ Root = RootOf(batches) /\ Sig = SigOf(batches)
    BY DEF Midpoint, Root, Sig, MidpointOf, RootOf, SigOf
  <2>2. m = [path |-> PathTo(Turn, Len(batch)), indx |-> Turn, midp |-> Midpoint,
             root |-> Root, sig |-> Sig, signed |-> signed]
    BY <1>1, <1>6, <1>11, <2>1, Zenon
  <2> QED BY <1>1, <1>9, <1>10, <2>2, Zenon DEF SendResponse
<1>13. RequestsInv' BY <1>12 DEF IInv, RequestsInv
<1>14. BatchInv' BY <1>12 DEF IInv, BatchInv
<1>15. ServerInv'
  <2>1. i + 1 \in Nat BY <1>2
  <2> QED BY <1>1, <1>3, <1>6, <1>10, <1>12, <2>1 DEF IInv, ServerInv
<1>16. \A j \in 1..n : j > i + 1 => j > index BY <1>2
<1>17. CASE src = Other
  <2>1. frames' = frames /\ meant' = meant BY <1>12, <1>17
  <2>2. OnceInv' BY <1>1, <1>12, <1>16, <2>1 DEF IInv, OnceInv
  <2>3. AnswerInv' BY <1>12, <2>1 DEF IInv, AnswerInv
  <2>4. DecodedInv' BY <1>12, <2>1 DEF IInv, DecodedInv
  <2> QED BY <1>13, <1>14, <1>15, <2>2, <2>3, <2>4 DEF IInv
<1>18. CASE src # Other
  <2>1. src \in Sender /\ requests[src] # None BY <1>5, <1>18
  <2>2. /\ DOMAIN frames = Sender /\ DOMAIN frames' = Sender /\ frames'[src] = Some(w)
        /\ \A t \in Sender : t # src => frames'[t] = frames[t]
    BY <1>12, <1>18, <2>1 DEF IInv, OnceInv
  <2>3. /\ DOMAIN meant' = Sender /\ meant'[src] = Some(m)
        /\ \A t \in Sender : t # src => meant'[t] = meant[t]
    BY <1>12, <1>18, <2>1 DEF IInv, AnswerInv
  <2>4. frames[src] = None BY <1>1, <1>3, <1>18 DEF IInv, OnceInv
  <2>5. OnceInv'
    <3>1. /\ requests' = requests /\ batch' = batch /\ sock' = sock /\ index' = i + 1 BY <1>12
    <3>2. \A t \in Sender : requests[t] = None => frames'[t] = None
      BY <2>1, <2>2 DEF IInv, OnceInv
    <3>3. \A j, k \in 1..n : batch[j].src = batch[k].src /\ batch[j].src # Other => j = k
      BY <1>1 DEF IInv, OnceInv
    <3>4. ASSUME NEW j \in 1..n, j > i + 1, batch[j].src # Other
          PROVE  frames'[batch[j].src] = None
      <4>1. j # i + 1 BY <1>2, <3>4
      <4>2. batch[j].src # src BY <1>1, <1>3, <3>3, <3>4, <4>1
      <4>3. frames[batch[j].src] = None BY <1>1, <1>16, <3>4 DEF IInv, OnceInv
      <4>4. Entry(batch[j], requests) BY <1>1 DEF IInv, BatchInv
      <4>5. batch[j].src \in Sender BY <3>4, <4>4 DEF Entry
      <4> QED BY <2>2, <4>2, <4>3, <4>5
    <3>5. sock # <<>> => /\ frames'[sock[1].src] = None
                         /\ \A j \in 1..n : batch[j].src # sock[1].src
      <4> SUFFICES ASSUME sock # <<>>
                   PROVE  /\ frames'[sock[1].src] = None
                          /\ \A j \in 1..n : batch[j].src # sock[1].src
        OBVIOUS
      <4>1. frames[sock[1].src] = None /\ \A j \in 1..n : batch[j].src # sock[1].src
        BY <1>1 DEF IInv, OnceInv
      <4>2. PICK s \in Sender : sock = <<[src |-> s, bytes |-> Datagram(s)]>>
        BY DEF IInv, RequestsInv
      <4>3. sock[1].src = s BY <4>2
      <4>4. s # src BY <1>1, <1>3, <4>1, <4>3
      <4> QED BY <2>2, <4>1, <4>3, <4>4
    <3> QED BY <1>1, <2>2, <3>1, <3>2, <3>3, <3>4, <3>5 DEF OnceInv, Sender
  <2>6. AnswerInv'
    <3>1. version' = version /\ batches' = batches BY <1>12
    <3> DEFINE Answered(f, a, t) ==
          \E c \in 1..BatchSize, j \in 0..(BatchSize - 1), k \in 0..batches :
            /\ f = Some(ToFrame(AnswerWords(version, k, PathTo(j, c), Nonce(t), j)))
            /\ a = Some([path |-> PathTo(j, c), indx |-> j, midp |-> MidpointOf(k),
                         root |-> RootOf(k), sig |-> SigOf(k), signed |-> SignedOf(version, k)])
    <3>2. Answered(Some(w), Some(m), src)
      <4>1. i \in 0..(BatchSize - 1) /\ batches \in 0..batches BY <1>2, <1>6 DEF BatchSize
      <4> QED BY <1>2, <1>7, <1>11, <4>1, Zenon
    <3>3. \A t \in Sender : frames[t] # None => Answered(frames[t], meant[t], t)
      BY DEF IInv, AnswerInv
    <3>4. \A t \in Sender : frames'[t] # None => Answered(frames'[t], meant'[t], t)
      <4> HIDE DEF Answered
      <4> QED BY <2>2, <2>3, <3>2, <3>3
    <3> QED BY <2>3, <3>1, <3>4 DEF AnswerInv, Sender
  <2>7. DecodedInv'
    <3>1. decoded' = decoded BY <1>12
    <3>2. \A t \in Sender : decoded[t] # None => t # src BY <2>4 DEF IInv, DecodedInv
    <3> QED BY <2>2, <3>1, <3>2 DEF IInv, DecodedInv, Sender
  <2> QED BY <1>13, <1>14, <1>15, <2>5, <2>6, <2>7 DEF IInv
<1> QED BY <1>17, <1>18

\* Nothing changes in a stuttering step.
LEMMA StutterIInv == ASSUME IInv, UNCHANGED vars PROVE IInv'
<1>1. UNCHANGED server BY DEF vars, server
<1>2. RequestsInv' BY DEF IInv, RequestsInv, vars
<1>3. BatchInv' BY DEF IInv, BatchInv, vars
<1>4. ServerInv' BY <1>1, SameServer DEF IInv
<1>5. OnceInv' BY DEF IInv, OnceInv, vars
<1>6. AnswerInv' BY DEF IInv, AnswerInv, vars
<1>7. DecodedInv' BY DEF IInv, DecodedInv, vars
<1> QED BY <1>2, <1>3, <1>4, <1>5, <1>6, <1>7 DEF IInv

\* Every step keeps the invariant.
LEMMA NextIInv == IInv /\ [Next]_vars => IInv'
<1> SUFFICES ASSUME IInv, [Next]_vars PROVE IInv' OBVIOUS
<1>1. ASSUME NEW s \in Sender, SendRequest(s) PROVE IInv' BY <1>1, SendRequestIInv
<1>2. ASSUME NEW s \in Sender, Decode(s) PROVE IInv' BY <1>2, DecodeIInv
<1>3. CASE Collect BY <1>3, CollectIInv
<1>4. ASSUME NEW n \in OtherCounts, CollectOthers(n) PROVE IInv' BY <1>4, CollectOthersIInv
<1>5. CASE ProcessResponses BY <1>5, ProcessResponsesIInv
<1>6. CASE SendResponse BY <1>6, SendResponseIInv
<1>7. CASE FinishBatch BY <1>7, FinishBatchIInv
<1>8. CASE UNCHANGED vars BY <1>8, StutterIInv
<1> QED BY <1>1, <1>2, <1>3, <1>4, <1>5, <1>6, <1>7, <1>8 DEF Next, Sender

\* So it always holds.
LEMMA AlwaysIInv == Spec => []IInv
BY InitIInv, NextIInv, PTL DEF Spec

-----------------------------------------------------------------------------
\* Of a request that the server takes into a batch the whole message is there, and it is
\* read as it was meant (requests.rs, collect_request), whatever its length, whatever is
\* sent behind it and however much of that the buffer cuts.
THEOREM TakesWholeMessage == Spec => []MessageTakenWhole
<1>1. ASSUME IInv PROVE MessageTakenWhole
  <2> SUFFICES ASSUME NEW i \in DOMAIN batch, batch[i].src # Other
               PROVE  LET p == batch[i]
                          r == requests[p.src][1]
                          f == ToFrame(RequestToWire(r))
                      IN  /\ Len(p.bytes) = 256 /\ Len(f) <= 256 /\ SubSeq(p.bytes, 1, Len(f)) = f
                          /\ p.request.nonc = r.nonc /\ p.request.ver = r.ver
                          /\ p.request.srv = r.srv /\ p.request.variant = r.variant
    BY DEF MessageTakenWhole
  <2>1. i \in 1..Len(batch) BY <1>1, LenProperties DEF IInv, BatchInv
  <2>2. PICK s : s = batch[i].src OBVIOUS
  <2>3. Entry(batch[i], requests) BY <1>1, <2>1 DEF IInv, BatchInv
  <2>4. /\ s \in Sender /\ requests[s] # None
        /\ Words(batch[i].bytes, 256) /\ At(batch[i].bytes, 1, RequestFrame(s))
        /\ SameRequest(batch[i].request, RequestOfSender(s))
    BY <2>2, <2>3 DEF Entry
  <2>5. requests[s][1] = RequestOfSender(s) BY <1>1, <2>4, SomeIs DEF IInv, RequestsInv
  <2>6. PICK b, f : b = batch[i].bytes /\ f = RequestFrame(s) OBVIOUS
  <2>7. Len(b) = 256 /\ Len(f) <= 256 /\ Len(f) \in Nat
    <3>1. Len(b) = 256 /\ f \in Seq(Int) /\ 1 - 1 + Len(f) <= Len(b) BY <2>4, <2>6 DEF Words, At
    <3> QED BY <3>1, LenProperties
  <2>8. SubSeq(b, 1, Len(f)) = f
    <3>1. Get(b, 1, Len(f)) = f BY <2>4, <2>6, GetAt
    <3>2. 1 + Len(f) - 1 = Len(f) BY <2>7
    <3> QED BY <3>1, <3>2 DEF Get
  <2>9. f = ToFrame(RequestToWire(requests[s][1])) BY <2>5, <2>6 DEF RequestFrame
  <2> QED BY <2>2, <2>4, <2>5, <2>6, <2>7, <2>8, <2>9 DEF SameRequest
<1> QED BY <1>1, AlwaysIInv, PTL

\* What a sender is sent, and what was meant for it.
LEMMA AnsweredIs ==
  ASSUME IInv, NEW s \in Sender, frames[s] # None
  PROVE  \E n \in 1..BatchSize, i \in Nat, k \in Nat :
           /\ frames[s] = Some(ToFrame(AnswerWords(version, k, PathTo(i, n), Nonce(s), i)))
           /\ meant[s] = Some([path |-> PathTo(i, n), indx |-> i, midp |-> MidpointOf(k),
                               root |-> RootOf(k), sig |-> SigOf(k),
                               signed |-> SignedOf(version, k)])
<1>1. PICK n \in 1..BatchSize, i \in 0..(BatchSize - 1), k \in 0..batches :
           /\ frames[s] = Some(ToFrame(AnswerWords(version, k, PathTo(i, n), Nonce(s), i)))
           /\ meant[s] = Some([path |-> PathTo(i, n), indx |-> i, midp |-> MidpointOf(k),
                               root |-> RootOf(k), sig |-> SigOf(k),
                               signed |-> SignedOf(version, k)])
  BY DEF IInv, AnswerInv
<1>2. i \in Nat /\ k \in Nat BY DEF IInv, ServerInv, BatchSize
<1> QED BY <1>1, <1>2, Zenon

\* No response is too long for the buffer it is encoded into, nor as long as the request
\* it answers, whatever the batch (process_responses never panics there).
THEOREM AlwaysFits == Spec => []ResponsesFit
<1>1. ASSUME IInv PROVE ResponsesFit
  <2>1. pc # "panic" BY <1>1 DEF IInv, ServerInv
  <2>2. ASSUME NEW s \in Sender, frames[s] # None PROVE Len(frames[s][1]) < 256
    <3>1. PICK n \in 1..BatchSize, i \in Nat, k \in Nat :
            frames[s] = Some(ToFrame(AnswerWords(version, k, PathTo(i, n), Nonce(s), i)))
      BY <1>1, <2>2, AnsweredIs
    <3>2. PICK f : f = ToFrame(AnswerWords(version, k, PathTo(i, n), Nonce(s), i)) OBVIOUS
    <3>3. frames[s][1] = f BY <3>1, <3>2, SomeIs
    <3>4. version \in {RfcDraft08, RfcDraft14} /\ s \in Nat BY <1>1, SenderIs DEF IInv, ServerInv
    <3>5. AnswerFrame(f, version, k, n, i, s) BY <3>2, <3>4 DEF AnswerFrame
    <3>6. PICK l \in 0..152 : Words(f, l) BY <3>5, AnswerFits
    <3>7. Len(f) < 256 BY <3>6 DEF Words
    <3> QED BY <3>3, <3>7
  <2> QED BY <2>1, <2>2 DEF ResponsesFit, Sender
<1> QED BY <1>1, AlwaysIInv, PTL

\* What a sender makes of its answer is what was meant.
LEMMA DecodedIs ==
  ASSUME IInv, NEW s \in Sender, decoded[s] # None
  PROVE  \E n, i, k :
           /\ meant[s][1] = [path |-> PathTo(i, n), indx |-> i, midp |-> MidpointOf(k),
                             root |-> RootOf(k), sig |-> SigOf(k),
                             signed |-> SignedOf(version, k)]
           /\ Checked(decoded[s][1], Senders[s].version, version, k, PathTo(i, n), Nonce(s), i)
<1>1. /\ frames[s] # None
      /\ decoded[s] = Some(validate_response(Senders[s].version, Received(frames[s][1])))
  BY DEF IInv, DecodedInv
<1>2. PICK n \in 1..BatchSize, i \in Nat, k \in Nat :
           /\ frames[s] = Some(ToFrame(AnswerWords(version, k, PathTo(i, n), Nonce(s), i)))
           /\ meant[s] = Some([path |-> PathTo(i, n), indx |-> i, midp |-> MidpointOf(k),
                               root |-> RootOf(k), sig |-> SigOf(k),
                               signed |-> SignedOf(version, k)])
  BY <1>1, AnsweredIs
<1>3. PICK f : f = ToFrame(AnswerWords(version, k, PathTo(i, n), Nonce(s), i)) OBVIOUS
<1>4. PICK m : m = [path |-> PathTo(i, n), indx |-> i, midp |-> MidpointOf(k), root |-> RootOf(k),
                    sig |-> SigOf(k), signed |-> SignedOf(version, k)]
  OBVIOUS
<1>5. frames[s][1] = f /\ meant[s][1] = m BY <1>2, <1>3, <1>4, SomeIs
<1>6. /\ version \in {RfcDraft08, RfcDraft14} /\ s \in Nat
      /\ Senders[s].version \in {RfcDraft08, RfcDraft14}
  BY SenderIs DEF IInv, ServerInv
<1>7. (\E l \in 0..152 : Words(f, l))
      /\ \A u \in {RfcDraft08, RfcDraft14} :
           Checked(validate_response(u, f), u, version, k, PathTo(i, n), Nonce(s), i)
  <2>1. AnswerFrame(f, version, k, n, i, s) BY <1>3, <1>6 DEF AnswerFrame
  <2> QED BY <2>1, AnswerFits
<1>8. Received(f) = f
  <2>1. PICK l \in 0..152 : Words(f, l) BY <1>7
  <2>2. l <= 256 BY <2>1
  <2> QED BY <2>1, <2>2, ReceivedWhole
<1>9. PICK d : d = validate_response(Senders[s].version, f) OBVIOUS
<1>10. decoded[s][1] = d BY <1>1, <1>5, <1>8, <1>9, SomeIs
<1>11. Checked(d, Senders[s].version, version, k, PathTo(i, n), Nonce(s), i)
  BY <1>6, <1>7, <1>9
<1> QED BY <1>4, <1>5, <1>10, <1>11, Zenon

\* Whatever the batch, and whatever the template and the buffer held before, a client of
\* the server's version decodes what was meant for it, and one of the other nothing.
THEOREM DecodesMeant == Spec => []AnswerDecodes
<1>1. ASSUME IInv PROVE AnswerDecodes
  <2> SUFFICES ASSUME NEW s \in Sender, decoded[s] # None, NEW d, d = decoded[s][1], NEW m,
                      m = meant[s][1]
               PROVE  /\ d.ok <=> Senders[s].version = version
                      /\ d.ok => /\ d.response.path = m.path /\ d.response.indx = m.indx
                                 /\ d.response.srep.midp = m.midp /\ d.response.srep.root = m.root
                                 /\ d.response.srep.radi = 5 /\ d.response.srep.ver = version
                                 /\ d.response.sig = m.sig /\ d.response.cert = Cert
                                 /\ version = RfcDraft14 => d.response.nonc = requests[s][1].nonc
    BY Zenon DEF AnswerDecodes, Sender
  <2>1. PICK n, i, k :
           /\ m = [path |-> PathTo(i, n), indx |-> i, midp |-> MidpointOf(k), root |-> RootOf(k),
                   sig |-> SigOf(k), signed |-> SignedOf(version, k)]
           /\ Checked(d, Senders[s].version, version, k, PathTo(i, n), Nonce(s), i)
    <3>1. PICK n, i, k :
            /\ meant[s][1] = [path |-> PathTo(i, n), indx |-> i, midp |-> MidpointOf(k),
                              root |-> RootOf(k), sig |-> SigOf(k),
                              signed |-> SignedOf(version, k)]
            /\ Checked(decoded[s][1], Senders[s].version, version, k, PathTo(i, n), Nonce(s), i)
      BY <1>1, DecodedIs
    <3> QED BY <3>1, Zenon
  <2>2. /\ m.path = PathTo(i, n) /\ m.indx = i /\ m.midp = MidpointOf(k) /\ m.root = RootOf(k)
        /\ m.sig = SigOf(k)
    BY <2>1
  <2>3. requests[s][1].nonc = Nonce(s)
    <3>1. frames[s] # None BY <1>1 DEF IInv, DecodedInv
    <3>2. requests[s] # None BY <1>1, <3>1 DEF IInv, OnceInv
    <3>3. requests[s][1] = RequestOfSender(s) BY <1>1, <3>2, SomeIs DEF IInv, RequestsInv
    <3> QED BY <3>3, SenderReads DEF Readable
  <2> QED BY ONLY <2>1, <2>2, <2>3, ZenonT(60) DEF Checked
<1> QED BY <1>1, AlwaysIInv, PTL

\* The bytes over which a client checks the signatures are the bytes that were signed
\* (check_srep_signature_draft14 and _draft08 find them by the offsets in the response).
THEOREM ChecksWhatWasSigned == Spec => []SignedBytesAgree
<1>1. ASSUME IInv PROVE SignedBytesAgree
  <2> SUFFICES ASSUME NEW s \in Sender, decoded[s] # None, NEW d, d = decoded[s][1], d.ok, NEW m,
                      m = meant[s][1]
               PROVE  d.srep_bytes = m.signed /\ d.dele_bytes = DeleToWire(Cert.dele)
    BY Zenon DEF SignedBytesAgree, Sender
  <2>1. PICK n, i, k :
           /\ m = [path |-> PathTo(i, n), indx |-> i, midp |-> MidpointOf(k), root |-> RootOf(k),
                   sig |-> SigOf(k), signed |-> SignedOf(version, k)]
           /\ Checked(d, Senders[s].version, version, k, PathTo(i, n), Nonce(s), i)
    <3>1. PICK n, i, k :
            /\ meant[s][1] = [path |-> PathTo(i, n), indx |-> i, midp |-> MidpointOf(k),
                              root |-> RootOf(k), sig |-> SigOf(k),
                              signed |-> SignedOf(version, k)]
            /\ Checked(decoded[s][1], Senders[s].version, version, k, PathTo(i, n), Nonce(s), i)
      BY <1>1, DecodedIs
    <3> QED BY <3>1, Zenon
  <2>2. m.signed = SignedOf(version, k) BY <2>1
  <2> QED BY <2>1, <2>2, Zenon DEF Checked
<1> QED BY <1>1, AlwaysIInv, PTL
=============================================================================
