--------------------------- MODULE CutReadProofs ---------------------------
(***************************************************************************)
(* Proofs about what is read of a clip, on top of CutProofs, for every     *)
(* value of the constants: a clip opens again without an error, with the   *)
(* tracks and the index that were written, and the frames that are read of *)
(* it are the source's, as far apart as they are there.                    *)
(***************************************************************************)
EXTENDS CutProofs

-----------------------------------------------------------------------------
(* A clip as it is read back.                                                 *)
\* What is read of the top of a file, and where its first cluster is.
TopOf(f) ==
  LET ebml == ReadHeaderAt(f, 0)
      seg == segment(f, ebml, ReadHeaderAt(f, ebml.w + ebml.size))
  IN  Walk(f, seg.data, seg.end, {"Cluster"})
OpenMade(f) ==
  LET ebml == ReadHeaderAt(f, 0)
      h == ReadHeaderAt(f, ebml.w + ebml.size)
      seg == segment(f, ebml, h)
  IN  /\ seg.ok /\ Has(TopOf(f), "Cluster")
      /\ Open(f).first = LastOf(TopOf(f), "Cluster").from
      /\ Open(f).ebmlHeader = SubSeq(f, 1, seg.header) /\ Open(f).segEnd = seg.end

LEMMA OpenIs ==
  ASSUME NEW f, Open(f).ok
  PROVE  OpenMade(f)
<1> DEFINE ebml == ReadHeaderAt(f, 0)
           seg == segment(f, ebml, ReadHeaderAt(f, ebml.w + ebml.size))
           top == TopOf(f)
           infoEl == LastOf(top, "Info")
           tracksEl == LastOf(top, "Tracks")
           video == parseTracks(f, Named(Children(f, tracksEl), "TrackEntry"))
           el == readElement(f, cuesOffset(f, seg, top), "Cues")
           cues == parseCues(f, Named(Children(f, el), "CuePoint"), video, seg.data)
           src == sourceOf(f, seg, top, Children(f, infoEl), Children(f, tracksEl), video, cues)
<1>0. ~Failed.ok BY DEF Failed
<1>1. Open(f) = inSegment(f, seg) BY DEF Open
<1>2. top = Walk(f, seg.data, seg.end, {"Cluster"}) BY DEF TopOf
<1> HIDE DEF seg, top
<1>3. seg.ok /\ Open(f) = segmentSource(f, seg, top) BY <1>0, <1>1, <1>2 DEF inSegment
<1>4. Has(top, "Cluster") /\ Open(f) = describedSource(f, seg, top, infoEl, tracksEl)
  BY <1>0, <1>3 DEF segmentSource
<1> HIDE DEF infoEl, tracksEl
<1>5. Open(f) = indexedSource(f, seg, top, Children(f, infoEl), Children(f, tracksEl), video, el)
  BY <1>0, <1>4 DEF describedSource
<1> HIDE DEF video, el
<1>6. Open(f) = src BY <1>0, <1>5 DEF indexedSource
<1> HIDE DEF cues
<1>7. /\ src.first = LastOf(top, "Cluster").from /\ src.ebmlHeader = SubSeq(f, 1, seg.header)
      /\ src.segEnd = seg.end
  BY <1>0, <1>6 DEF sourceOf
<1> HIDE DEF src
<1> QED BY <1>3, <1>4, <1>6, <1>7 DEF OpenMade, seg, top

\* Every cluster in a walk over these elements is at q or later, when the elements before q
\* are none.
Past(v, q) == \A i \in 1..Len(v) : v[i].id = "Cluster" => q <= v[i].from

LEMMA PastMore ==
  ASSUME NEW e, NEW v, NEW q, e \in Elem, v \in Seq(Elem), e.id # "Cluster", Past(v, q)
  PROVE  Past(<<e>> \o v, q)
<1> DEFINE T == Elem
           s == <<e>> \o v
<1>1. e \in T /\ v \in Seq(T) OBVIOUS
<1> HIDE DEF T
<1>2. <<e>> \in Seq(T) /\ Len(<<e>>) = 1 BY <1>1
<1>3. Joined(T, <<e>>, v) BY <1>1, <1>2, ConcatJoins
<1>4. Len(s) = 1 + Len(v) /\ Len(v) \in Nat /\ s[1] = e /\ \A i \in 1..Len(v) : s[1 + i] = v[i]
  <2>1. /\ Len(s) = Len(<<e>>) + Len(v) /\ Len(v) \in Nat
        /\ \A i \in 1..Len(<<e>>) : s[i] = <<e>>[i]
        /\ \A i \in 1..Len(v) : s[Len(<<e>>) + i] = v[i]
    BY <1>3 DEF Joined
  <2>2. <<e>>[1] = e /\ 1 \in 1..Len(<<e>>) BY <1>2
  <2> HIDE DEF s
  <2> QED BY <1>2, <2>1, <2>2
<1> HIDE DEF s
<1>5. ASSUME NEW i \in 1..Len(s), s[i].id = "Cluster" PROVE q <= s[i].from
  <2>1. i # 1 BY <1>4, <1>5
  <2> DEFINE j == i - 1
  <2>2. j \in 1..Len(v) /\ 1 + j = i BY <1>4, <2>1
  <2> HIDE DEF j
  <2>3. s[i] = v[j] BY <1>4, <2>2
  <2> QED BY <1>5, <2>2, <2>3 DEF Past
<1> QED BY <1>5 DEF Past, s

LEMMA WalkPast ==
  ASSUME NEW b, NEW d, NEW ss, NEW ids, NEW k, b \in Seq(Cell), ss \in Seq(Seq(Cell)),
         At(b, d, FlattenSeq(ss)), k \in 0..Len(ss),
         \A i \in 1..k : Framed(b, ss[i], ids[i]) /\ ids[i] # "Cluster"
  PROVE  Past(Walk(b, d, d + Len(FlattenSeq(ss)), InCluster), d + Start(ss, k + 1))
<1> DEFINE n == Len(ss)
           end == d + Len(FlattenSeq(ss))
           p(i) == d + Start(ss, i)
           stop == InCluster
           walk(i) == Walk(b, p(i), end, stop)
<1>1. n \in Nat /\ \A i \in 1..n : ss[i] \in Seq(Cell)
  <2> DEFINE U == Seq(Cell)
  <2>1. ss \in Seq(U) OBVIOUS
  <2> HIDE DEF U
  <2>2. n \in Nat /\ \A i \in 1..n : ss[i] \in U BY <2>1
  <2> QED BY <2>2 DEF U
<1>2. d \in Nat /\ p(1) = d /\ p(n + 1) = end /\ end \in Nat
  <2>1. d \in Nat BY DEF At
  <2>2. Start(ss, 1) = 0 /\ Start(ss, n + 1) = Len(FlattenSeq(ss)) BY StartEnds
  <2>3. d + 0 = d BY <2>1
  <2>4. p(n + 1) = end BY <2>2
  <2>5. FlattenSeq(ss) \in Seq(Cell) BY FlattenType
  <2>6. Len(FlattenSeq(ss)) \in Nat BY <2>5
  <2>7. end \in Nat BY <2>1, <2>6
  <2> HIDE DEF end, n
  <2> QED BY <2>1, <2>2, <2>3, <2>4, <2>7
<1>3. \A i \in 1..n : Starts(ss, i) BY StartStep
<1>4. \A i \in 1..n : /\ p(i) \in Nat /\ p(i + 1) = p(i) + Len(ss[i]) /\ Len(ss[i]) \in Nat
                      /\ p(i) + Len(ss[i]) <= end
  <2> SUFFICES ASSUME NEW i \in 1..n
               PROVE  /\ p(i) \in Nat /\ p(i + 1) = p(i) + Len(ss[i]) /\ Len(ss[i]) \in Nat
                      /\ p(i) + Len(ss[i]) <= end
    OBVIOUS
  <2> DEFINE x == ss[i]
             total == Len(FlattenSeq(ss))
  <2>1. x \in Seq(Cell) BY <1>1
  <2>6. Start(ss, i + 1) <= total
    <3>1. CASE i = n
      <4>1. Start(ss, n + 1) = total BY StartEnds
      <4>2. FlattenSeq(ss) \in Seq(Cell) BY FlattenType
      <4>3. total \in Nat BY <4>2
      <4> HIDE DEF total, n
      <4> QED BY <3>1, <4>1, <4>3
    <3>2. CASE i # n
      <4>1. i + 1 \in 1..n BY <1>1, <3>2
      <4> QED BY <4>1, StartInside
    <3> QED BY <3>1, <3>2
  <2> HIDE DEF x, total
  <2>2. Len(x) \in Nat BY <2>1
  <2>3. Start(ss, i) \in Nat /\ Start(ss, i + 1) = Start(ss, i) + Len(x) BY <1>3 DEF Starts, x
  <2>4. d \in Nat BY <1>2
  <2>7. FlattenSeq(ss) \in Seq(Cell) BY FlattenType
  <2>8. total \in Nat BY <2>7 DEF total
  <2>9. end = d + total BY DEF total
  <2> HIDE DEF end
  <2>5. p(i) \in Nat /\ p(i + 1) = p(i) + Len(x) /\ p(i) + Len(x) <= end BY <2>2, <2>3, <2>4, <2>6, <2>8, <2>9
  <2> QED BY <2>2, <2>5 DEF x
<1>5. \A i \in 1..n : At(b, p(i), ss[i]) BY FlattenAt DEF EachAt
<1>6. \A i \in 1..(k + 1) : p(i) \in Nat
  <2> SUFFICES ASSUME NEW i \in 1..(k + 1) PROVE p(i) \in Nat OBVIOUS
  <2>1. i \in 1..n \/ i = n + 1 BY <1>1
  <2> HIDE DEF p, end
  <2> QED BY <1>2, <1>4, <2>1
<1>7. \A i \in 1..k : i \in 1..n BY <1>1
<1>8. \A i \in 1..(k + 1) : walk(i) \in Seq(Elem) /\ Walked(b, walk(i), p(i), end, stop)
  <2> SUFFICES ASSUME NEW i \in 1..(k + 1)
               PROVE walk(i) \in Seq(Elem) /\ Walked(b, walk(i), p(i), end, stop)
    OBVIOUS
  <2>1. p(i) \in Nat /\ end \in Int BY <1>2, <1>6
  <2> HIDE DEF p, end, stop
  <2>2. Walked(b, Walk(b, p(i), end, stop), p(i), end, stop) BY <2>1, WalkElements
  <2> QED BY <2>2 DEF Walked
<1> DEFINE q == p(k + 1)
<1> HIDE DEF p, end, stop
<1>9. Past(walk(k + 1), q)
  <2>1. k + 1 \in 1..(k + 1) OBVIOUS
  <2>2. Walked(b, walk(k + 1), q, end, stop) BY <1>8, <2>1
  <2> HIDE DEF walk, q
  <2> QED BY <2>2 DEF Walked, ElemOf, Past
<1>10. ASSUME NEW i \in 1..k, Past(walk(i + 1), q) PROVE Past(walk(i), q)
  <2> DEFINE x == ss[i]
             r == p(i)
             id == ids[i]
             to == p(i + 1)
  <2>1. r \in Nat /\ At(b, r, x) /\ Framed(b, x, id) /\ id # "Cluster" BY <1>4, <1>5, <1>7
  <2>2. PICK w \in Nat : w <= Len(x) /\ HeadIs(b, r, id, w, Len(x) - w) BY <2>1 DEF Framed
  <2>3. w > 0 BY <2>2 DEF HeadIs
  <2>4. to = r + Len(x) /\ Len(x) \in Nat /\ r + Len(x) <= end BY <1>4, <1>7
  <2> DEFINE l == Len(x)
             m == l - w
             e == Element(id, r, r + w, to)
  <2>5. r < end /\ r + w + m = to /\ r + w \in Nat /\ to \in Nat
    <3>1. /\ l \in Nat /\ w \in Nat /\ 0 < w /\ w <= l /\ to = r + l /\ r + l <= end /\ end \in Nat
          /\ r \in Nat
      BY <1>2, <2>1, <2>2, <2>3, <2>4
    <3> HIDE DEF l, r, to
    <3> QED BY <3>1
  <2>6. id \notin stop BY <2>1 DEF stop, InCluster
  <2>7. HeadIs(b, r, id, w, m) BY <2>2
  <2>8. id \in Ids
    <3>1. HeaderOf(b, r, ReadHeaderAt(b, r)) BY <2>1, HeaderRead
    <3> QED BY <2>7, <3>1 DEF HeadIs, HeaderOf
  <2> HIDE DEF m, r, id, to
  <2>9. WalkStarts(b, r, end, stop, id, w, m) BY <1>2, <2>1, <2>5, <2>6, <2>7, WalkStep
  <2>10. walk(i) = <<e>> \o walk(i + 1) BY <2>5, <2>9 DEF WalkStarts, r, to
  <2>11. e \in Elem /\ e.id # "Cluster" BY <2>1, <2>5, <2>8 DEF Elem, Element
  <2>12. walk(i + 1) \in Seq(Elem)
    <3>1. i + 1 \in 1..(k + 1) OBVIOUS
    <3> QED BY <1>8, <3>1
  <2> DEFINE v == walk(i + 1)
  <2>13. Past(v, q) /\ v \in Seq(Elem) /\ walk(i) = <<e>> \o v BY <1>10, <2>10, <2>12
  <2> HIDE DEF v, e, walk, q
  <2>14. Past(<<e>> \o v, q) BY <2>11, <2>13, PastMore
  <2> QED BY <2>13, <2>14
<1> HIDE DEF walk, q
<1>11. \A i \in 1..(k + 1) : Past(walk(i), q)
  <2> DEFINE R == {i \in 1..(k + 1) : Past(walk(i), q)}
  <2>1. ASSUME NEW i \in 1..(k + 1), (i + 1)..(k + 1) \subseteq R PROVE i \in R
    <3>1. CASE i = k + 1 BY <1>9, <3>1
    <3>2. CASE i # k + 1
      <4>1. i \in 1..k /\ i + 1 \in (i + 1)..(k + 1) BY <3>2
      <4>2. i + 1 \in R BY <2>1, <4>1
      <4> QED BY <1>10, <4>1, <4>2
    <3> QED BY <3>1, <3>2
  <2> DEFINE m == k + 1
  <2>2. 1 \in Int /\ m \in Int /\ \A i \in 1..m : (i + 1)..m \subseteq R => i \in R BY <2>1
  <2> HIDE DEF R, m
  <2>3. 1..m \subseteq R BY <2>2, DownwardInduction
  <2> QED BY <2>3 DEF R, m
<1>12. 1 \in 1..(k + 1) OBVIOUS
<1>13. Past(walk(1), q) BY <1>11, <1>12
<1> QED BY <1>2, <1>13 DEF walk, end, stop, q, p

\* The header of a file that starts with the same one.
LEMMA HeaderKept ==
  ASSUME NEW b, NEW f, NEW w, b[1] = f[1], Len(b) \in Nat, Len(f) \in Nat, w \in Nat, w > 0, w <= Len(b),
         ReadHeaderAt(f, 0).id # "bad", ReadHeaderAt(f, 0).w = w
  PROVE  ReadHeaderAt(b, 0) = ReadHeaderAt(f, 0)
<1> DEFINE c == f[0 + 1]
           bad == [id |-> "bad", size |-> 0, w |-> 0]
           good == [id |-> c.id, w |-> c.w,
                    size |-> IF c.size = Pow(SizeBase, c.w) - 1 THEN UnknownSize ELSE c.size]
<1>1. ReadHeaderAt(f, 0) = IF 0 >= Len(f) \/ c.is # "head" \/ 0 + c.w > Len(f) THEN bad ELSE good
  BY DEF ReadHeaderAt
<1>2. b[0 + 1] = c OBVIOUS
<1>3. ReadHeaderAt(b, 0) = IF 0 >= Len(b) \/ c.is # "head" \/ 0 + c.w > Len(b) THEN bad ELSE good
  BY <1>2 DEF ReadHeaderAt
<1>4. bad.id = "bad" /\ good.w = c.w OBVIOUS
<1> HIDE DEF c, good, bad
<1>5. ReadHeaderAt(f, 0) = good /\ c.is = "head" BY <1>1, <1>4
<1>6. c.w = w BY <1>4, <1>5
<1>7. ~(0 >= Len(b) \/ 0 + c.w > Len(b)) BY <1>6
<1> QED BY <1>3, <1>5, <1>7

\* What is read of the head of a clip of src.
HeadRead(b, src, size) ==
  LET h == Len(src.ebmlHeader)
  IN  /\ ReadHeaderAt(b, 0).w + ReadHeaderAt(b, 0).size = h
      /\ ReadHeaderAt(b, 0).id = "EBML" /\ ReadHeaderAt(b, 0).size # UnknownSize
      /\ ReadHeaderAt(b, h) = [id |-> "Segment", w |-> Wide, size |-> size]
      /\ h \in Nat /\ Len(b) = h + Wide + size /\ size \in Nat

LEMMA ClipHead ==
  ASSUME NEW f, NEW b, NEW ss, f \in Seq(Cell), Open(f).ok, b \in Seq(Cell), Small(b), ss \in Seq(Seq(Cell)),
         OneSegment(b, Open(f), ss)
  PROVE  HeadRead(b, Open(f), Len(FlattenSeq(ss))) /\ At(b, Len(Open(f).ebmlHeader) + Wide, FlattenSeq(ss))
<1> DEFINE src == Open(f)
           eh == src.ebmlHeader
           flat == FlattenSeq(ss)
           size == Len(flat)
           h == AppendSizeWidth("Segment", size, Wide)
           e == ReadHeaderAt(f, 0)
           g == ReadHeaderAt(f, e.w + e.size)
           seg == segment(f, e, g)
           n == e.w + e.size
<1>1. seg.ok /\ eh = SubSeq(f, 1, seg.header)
  <2>1. OpenMade(f) BY OpenIs
  <2> QED BY <2>1 DEF OpenMade
<1>2. HeaderOf(f, 0, e) BY HeaderRead
<1>3. e.id = "EBML" /\ e.size # UnknownSize /\ seg.header = n BY <1>1 DEF segment
<1>4. e.w \in Nat /\ e.size \in Nat /\ e.w > 0 /\ n \in Nat /\ e.w <= n
  <2> HIDE DEF e
  <2>1. e.w \in Nat /\ e.size \in Nat /\ e.w > 0 BY <1>2, <1>3 DEF HeaderOf
  <2> QED BY <2>1
<1>5. n <= Len(f)
  <2>1. HeaderOf(f, n, g)
    <3> HIDE DEF e
    <3> QED BY <1>4, HeaderRead
  <2>2. SegmentOf(f, seg)
    <3> HIDE DEF e, g
    <3> QED BY <1>1, <1>2, <2>1, SegmentType
  <2> HIDE DEF seg, n
  <2> QED BY <1>3, <2>2 DEF SegmentOf
<1> HIDE DEF seg, g
<1>6. eh \in Seq(Cell) /\ Len(eh) = n /\ eh[1] = f[1]
  <2> HIDE DEF n, e
  <2>0. 0 \in Nat /\ n \in Nat /\ 0 <= n /\ n <= Len(f) BY <1>4, <1>5
  <2>1. Sliced(f, 0, n, {}) BY <2>0, SliceMarks
  <2>2. eh = SubSeq(f, 0 + 1, n) BY <1>1, <1>3
  <2>3. Slice(f, 0, n) = eh BY <2>2 DEF Slice
  <2> HIDE DEF eh
  <2>4. eh \in Seq(Cell) /\ Len(eh) = n - 0 /\ \A i \in 1..(n - 0) : eh[i] = f[0 + i] BY <2>1, <2>3 DEF Sliced
  <2>5. 1 \in 1..(n - 0) /\ 0 + 1 = 1 /\ n - 0 = n BY <1>4
  <2> QED BY <2>4, <2>5
<1>7. flat \in Seq(Cell) BY FlattenType
<1>8. b = (eh \o h) \o flat BY DEF OneSegment
<1>9. Wide \in Nat /\ Wide > 0 /\ "Segment" \in Ids BY EbmlAssumption DEF Ids
<1> HIDE DEF flat, eh, e, n
<1>10. size \in Nat BY <1>7
<1> HIDE DEF size
<1>11. h \in Seq(Cell)
  <2>1. size \in Int BY <1>10
  <2> QED BY <1>9, <2>1, SizeHeaderType
<1> HIDE DEF h
<1> DEFINE lead == eh \o h
<1>12. lead \in Seq(Cell) /\ Len(lead) = Len(eh) + Len(h) BY <1>6, <1>11, ConcatProperties
<1> HIDE DEF lead
<1>13. At(b, 0, lead \o flat) /\ b = lead \o flat BY <1>8, AtWhole DEF lead
<1>14. At(b, 0, lead) /\ At(b, 0 + Len(lead), flat) BY <1>7, <1>12, <1>13, AtParts
<1>15. At(b, 0, eh) /\ At(b, 0 + Len(eh), h) BY <1>6, <1>11, <1>14, AtParts DEF lead
<1>16. Len(b) = Len(lead) + size BY <1>7, <1>12, <1>13, ConcatProperties DEF size
<1>17. Len(b) \in Nat /\ Len(h) \in Nat /\ Len(f) \in Nat /\ Len(lead) \in Nat BY <1>11, <1>12
<1>18. size < Pow(SizeBase, Wide) - 1
  <2> DEFINE m == Pow(SizeBase, Wide)
  <2>1. Len(b) < m - 1 BY DEF Small
  <2>4. SizeBase \in Nat /\ SizeBase > 0 BY EbmlAssumption
  <2>2. m \in Nat BY <1>9, <2>4, PowNat
  <2> HIDE DEF m
  <2>3. size < m - 1 BY <1>10, <1>16, <1>17, <2>1, <2>2
  <2> QED BY <2>3 DEF m
<1>19. HeadOfSegment(b, n, size)
  <2>1. 0 + Len(eh) = n BY <1>4, <1>6
  <2>2. At(b, n, AppendSizeWidth("Segment", size, Wide)) BY <1>15, <2>1 DEF h
  <2> QED BY <1>10, <1>18, <2>2, SegmentHead
<1>20. ReadHeaderAt(b, n) = [id |-> "Segment", w |-> Wide, size |-> size] /\ Len(h) = Wide
  BY <1>19 DEF HeadOfSegment, h
<1>21. Len(b) = n + Wide + size /\ 0 + Len(lead) = n + Wide BY <1>4, <1>6, <1>9, <1>10, <1>12, <1>16, <1>20
<1>22. ReadHeaderAt(b, 0) = e
  <2> DEFINE w == e.w
  <2>1. b[1] = f[1]
    <3>1. 1 \in 1..Len(eh) BY <1>4, <1>6
    <3>2. b[0 + 1] = eh[1] BY <1>15, <3>1 DEF At
    <3> QED BY <1>6, <3>2
  <2>2. w \in Nat /\ w > 0 /\ w <= Len(b) /\ ReadHeaderAt(f, 0).id # "bad" /\ ReadHeaderAt(f, 0).w = w
    <3>1. w <= n /\ w > 0 /\ w \in Nat BY <1>4
    <3> HIDE DEF w
    <3>2. w <= Len(b) BY <1>4, <1>9, <1>10, <1>21, <3>1
    <3>3. ReadHeaderAt(f, 0).id # "bad" /\ ReadHeaderAt(f, 0).w = w BY <1>3 DEF e, w
    <3> QED BY <3>1, <3>2, <3>3
  <2> HIDE DEF w
  <2> QED BY <1>17, <2>1, <2>2, HeaderKept DEF e
<1>23. e.w + e.size = n BY DEF n
<1>24. HeadRead(b, src, size) BY <1>3, <1>4, <1>6, <1>10, <1>20, <1>21, <1>22, <1>23 DEF HeadRead, eh
<1>25. At(b, Len(eh) + Wide, flat) BY <1>6, <1>14, <1>21
<1> QED BY <1>24, <1>25 DEF src, size, flat, eh

\* A clip of these clusters, read back: they are at its end, and no cluster is read before.
OpenedAt(b, cells, q) ==
  /\ q \in Nat /\ At(b, q, FlattenSeq(cells)) /\ Len(b) = q + Len(FlattenSeq(cells))
  /\ Open(b).first \in Nat /\ q <= Open(b).first /\ Open(b).segEnd \in Nat
Opened(b, cells) == \E q : OpenedAt(b, cells, q)

LEMMA ClipOpens ==
  ASSUME NEW f, NEW b, NEW cells, f \in Seq(Cell), Open(f).ok, Open(b).ok, Small(b),
         cells \in Seq(Seq(Cell)), HasPieces(b, Open(f), cells)
  PROVE  Opened(b, cells)
<1> DEFINE src == Open(f)
           k == Tops(src)
           data == Len(src.ebmlHeader) + Wide
<1>1. PICK ss, ps : HasPiecesBy(b, src, cells, ss, ps) BY DEF HasPieces
<1>2. /\ b \in Seq(Cell) /\ ss \in Seq(Seq(Cell)) /\ Len(ss) = k + Len(cells) /\ Len(cells) \in Nat
      /\ \A i \in 1..Len(cells) : ss[k + i] = cells[i]
      /\ OneSegment(b, src, ss) /\ AllFramed(b, ss, PieceIds(src, Len(ss)))
  BY <1>1 DEF HasPiecesBy
<1> DEFINE ids == PieceIds(src, Len(ss))
           flat == FlattenSeq(ss)
           size == Len(flat)
           q == data + Start(ss, k + 1)
           top == TopOf(b)
<1>3. HeadRead(b, src, size) /\ At(b, data, flat) BY <1>2, ClipHead
<1>4. flat \in Seq(Cell) BY <1>2, FlattenType
<1>5. k \in Nat /\ k \in 0..Len(ss) /\ \A i \in 1..k : i \in 1..Len(ss)
  <2>1. k \in {4, 5} BY TopIdsAre
  <2> HIDE DEF k
  <2> QED BY <1>2, <2>1
<1>6. \A i \in 1..k : Framed(b, ss[i], ids[i]) /\ ids[i] # "Cluster"
  <2> SUFFICES ASSUME NEW i \in 1..k PROVE Framed(b, ss[i], ids[i]) /\ ids[i] # "Cluster" OBVIOUS
  <2>1. i \in 1..Len(ss) BY <1>5
  <2>2. Framed(b, ss[i], ids[i]) BY <1>2, <2>1 DEF AllFramed
  <2>3. i <= k BY <1>5
  <2>4. ids[i] = TopIds(src)[i] BY <2>1, <2>3 DEF PieceIds
  <2>5. TopIds(src)[i] # "Cluster"
    <3>1. CASE src.attachments = <<>>
      <4>1. k = 4 /\ TopIds(src) = <<"SeekHead", "Info", "Tracks", "Cues">> BY <3>1 DEF Tops, TopIds
      <4>2. i \in {1, 2, 3, 4} BY <4>1
      <4> HIDE DEF k
      <4> QED BY <4>1, <4>2
    <3>2. CASE src.attachments # <<>>
      <4>1. k = 5 /\ TopIds(src) = <<"SeekHead", "Info", "Tracks", "Attachments", "Cues">> BY <3>2 DEF Tops, TopIds
      <4>2. i \in {1, 2, 3, 4, 5} BY <4>1
      <4> HIDE DEF k
      <4> QED BY <4>1, <4>2
    <3> QED BY <3>1, <3>2
  <2> HIDE DEF ids
  <2> QED BY <2>2, <2>4, <2>5
<1> HIDE DEF ids, k
<1>7. Past(Walk(b, data, data + Len(FlattenSeq(ss)), InCluster), q) BY <1>2, <1>3, <1>5, <1>6, WalkPast
<1> DEFINE ebml == ReadHeaderAt(b, 0)
           n == ebml.w + ebml.size
           h == ReadHeaderAt(b, n)
           seg == segment(b, ebml, h)
<1>8. OpenMade(b) BY OpenIs
<1>9. /\ Has(top, "Cluster") /\ Open(b).first = LastOf(top, "Cluster").from /\ Open(b).segEnd = seg.end
      /\ top = Walk(b, seg.data, seg.end, {"Cluster"})
  BY <1>8 DEF OpenMade, TopOf
<1>10. /\ n = Len(src.ebmlHeader) /\ h.w = Wide /\ h.size = size /\ n \in Nat /\ Len(b) = n + Wide + size
       /\ size \in Nat
  BY <1>3 DEF HeadRead
<1>11. seg.data = n + h.w /\ seg.end = IF h.size # UnknownSize /\ (n + h.w) + h.size < Len(b) THEN (n + h.w) + h.size ELSE Len(b)
  BY DEF segment
<1>12. Wide \in Nat BY EbmlAssumption
<1> HIDE DEF ebml, h, seg, size, n
<1>13. seg.data = data /\ seg.end = data + size /\ data \in Nat /\ Len(b) = data + size
  <2>1. data = n + Wide BY <1>10
  <2> HIDE DEF data
  <2> QED BY <1>10, <1>11, <1>12, <2>1
<1> HIDE DEF data
<1>14. Past(top, q)
  <2>1. top = Walk(b, data, data + size, InCluster) BY <1>9, <1>13 DEF InCluster
  <2> HIDE DEF top
  <2> QED BY <1>7, <2>1 DEF size, flat
<1>15. LastFound(top, "Cluster") /\ top \in Seq(Elem)
  <2>1. Walked(b, Walk(b, data, data + size, InCluster), data, data + size, InCluster)
    <3>1. data \in Nat /\ data + size \in Int BY <1>10, <1>13
    <3> QED BY <1>2, <3>1, WalkElements
  <2>2. top = Walk(b, data, data + size, InCluster) BY <1>9, <1>13 DEF InCluster
  <2> HIDE DEF top
  <2>3. top \in Seq(Elem) BY <2>1, <2>2 DEF Walked
  <2> QED BY <1>9, <2>3, LastIsOne
<1> HIDE DEF top, q
<1>16. Open(b).first \in Nat /\ q <= Open(b).first
  <2>1. PICK j \in 1..Len(top) : LastOf(top, "Cluster") = top[j] /\ top[j].id = "Cluster" BY <1>15 DEF LastFound
  <2>2. top[j] \in Elem
    <3> DEFINE T == Elem
    <3>1. top \in Seq(T) BY <1>15
    <3> HIDE DEF T
    <3>2. top[j] \in T BY <3>1
    <3> QED BY <3>2 DEF T
  <2>3. top[j].from \in Nat BY <2>2 DEF Elem
  <2>4. q <= top[j].from BY <1>14, <2>1 DEF Past
  <2> QED BY <1>9, <2>1, <2>3, <2>4
<1> DEFINE tt == SubSeq(ss, 1, k)
           x == FlattenSeq(tt)
           y == FlattenSeq(cells)
<1>17. flat = x \o y BY <1>2, <1>5, LastParts
<1>18. x \in Seq(Cell) /\ y \in Seq(Cell)
  <2> DEFINE U == Seq(Cell)
  <2>1. ss \in Seq(U) BY <1>2
  <2> HIDE DEF U
  <2>2. 0 \in Nat /\ 0 + k <= Len(ss) /\ 0 + 1 = 1 /\ 0 + k = k BY <1>5
  <2>3. SubSeq(ss, 0 + 1, 0 + k) \in Seq(U) BY <1>5, <2>1, <2>2, SliceType
  <2>4. tt \in Seq(Seq(Cell)) BY <2>2, <2>3 DEF U
  <2> QED BY <2>4, FlattenType
<1>19. Start(ss, k + 1) = Len(x)
  <2>1. (k + 1) - 1 = k BY <1>5
  <2>2. Start(ss, k + 1) = Len(FlattenSeq(SubSeq(ss, 1, (k + 1) - 1))) BY DEF Start
  <2>3. SubSeq(ss, 1, (k + 1) - 1) = tt BY <2>1
  <2> QED BY <2>2, <2>3
<1> HIDE DEF x, y, flat
<1>20. At(b, data, x \o y) BY <1>3, <1>17 DEF data
<1>21. At(b, data + Len(x), y) BY <1>2, <1>18, <1>20, AtParts
<1>22. Len(flat) = Len(x) + Len(y) /\ Len(x) \in Nat /\ Len(y) \in Nat BY <1>17, <1>18, ConcatProperties
<1>23. q = data + Len(x) BY <1>19 DEF q
<1>24. q \in Nat /\ Len(b) = q + Len(y)
  <2> DEFINE l == Len(x)
             m == Len(y)
  <2>1. size = l + m /\ l \in Nat /\ m \in Nat BY <1>22 DEF size
  <2>2. q = data + l /\ data \in Nat /\ Len(b) = data + size BY <1>13, <1>23
  <2> HIDE DEF l, m
  <2>3. q \in Nat /\ Len(b) = q + m BY <2>1, <2>2
  <2> QED BY <2>3 DEF m
<1>25. Open(b).segEnd \in Nat BY <1>9, <1>10, <1>13
<1>26. OpenedAt(b, cells, q) BY <1>16, <1>21, <1>23, <1>24, <1>25 DEF OpenedAt, y
<1> QED BY <1>26 DEF Opened

\* What is in the i-th cluster of a clip after its timestamp, which starts at 0 in the clip.
BodyOf(f, cs, i) == Content(cs[i].body, f)
CutElement(f, cs, origin, i) == TimedElement(cs[i].timestamp - origin, BodyOf(f, cs, i))

LEMMA CutElementIs ==
  ASSUME NEW f, NEW c, NEW origin, f \in Seq(Cell), c \in CutCluster(f), origin \in Int
  PROVE  /\ newHeader(c, origin) \o Content(c.body, f) = TimedElement(c.timestamp - origin, Content(c.body, f))
         /\ Content(c.body, f) \in Seq(Cell)
<1> DEFINE d == c.timestamp - origin
           ts == AppendUint("Timestamp", d)
           body == Content(c.body, f)
           m == Len(ts) + PartsLen(c.body)
           h == AppendSizeWidth("Cluster", m, Wide)
           data == ts \o body
           x == newHeader(c, origin) \o body
<1>1. c.timestamp \in Int /\ c.body \in FileParts(f) BY DEF CutCluster
<1>2. d \in Int BY <1>1
<1>3. {"Timestamp", "Cluster"} \subseteq Ids BY DEF Ids
<1>4. newHeader(c, origin) = h \o ts BY DEF newHeader
<1>5. TimedElement(d, body) = AppendSizeWidth("Cluster", Len(data), Wide) \o data BY DEF TimedElement, TimedBody
<1> HIDE DEF d
<1>6. ts \in Seq(Cell) BY <1>2, <1>3, UintType
<1> HIDE DEF ts
<1>7. body \in Seq(Cell) BY <1>1, ContentType DEF FileParts, FilePart
<1>8. PartsLen(c.body) = Len(body) BY <1>1, PartsLenContent DEF FileParts, FilePart
<1> HIDE DEF body
<1>9. Len(data) = Len(ts) + Len(body) /\ Len(data) \in Nat
  <2>1. data \in Seq(Cell) /\ Len(data) = Len(ts) + Len(body) BY <1>6, <1>7, ConcatProperties
  <2> HIDE DEF data
  <2>2. Len(data) \in Nat BY <2>1
  <2> QED BY <2>1, <2>2
<1>10. m = Len(data) BY <1>8, <1>9
<1> HIDE DEF m
<1>11. h \in Seq(Cell)
  <2>1. m \in Int /\ Wide \in Nat /\ Wide > 0 BY <1>9, <1>10, EbmlAssumption
  <2> QED BY <1>3, <2>1, SizeHeaderType
<1>12. h = AppendSizeWidth("Cluster", Len(data), Wide) BY <1>10
<1> HIDE DEF h
<1>13. Regrouping(h, ts, body) BY <1>6, <1>7, <1>11, Associated
<1>14. (h \o ts) \o body = h \o data BY <1>13 DEF Regrouping
<1>15. x = (h \o ts) \o body BY <1>4
<1> HIDE DEF data, x
<1>16. x = TimedElement(d, body) BY <1>5, <1>12, <1>14, <1>15
<1> QED BY <1>7, <1>16 DEF x, d, body

\* How the clusters of a clip are made.
CutMade(f, cs, origin, i) ==
  LET t == cs[i].timestamp - origin
  IN  /\ t \in Nat /\ BodyOf(f, cs, i) \in Seq(Cell) /\ Clear(BodyOf(f, cs, i), {"Timestamp"})
      /\ ClusterCells(f, cs, origin)[i] = CutElement(f, cs, origin, i)
      /\ CutElement(f, cs, origin, i) \in Seq(Cell)
      /\ Marks(CutElement(f, cs, origin, i), InCluster) \subseteq {0}

LEMMA CutClusterMade ==
  ASSUME NEW f, NEW cs, NEW origin, NEW ks, NEW i, f \in Seq(Cell), cs \in Seq(CutCluster(f)), origin \in Nat,
         CutCarries(f, cs, origin, ks), i \in 1..Len(cs)
  PROVE  CutMade(f, cs, origin, i)
<1> DEFINE c == cs[i]
           t == c.timestamp - origin
           rest == BodyOf(f, cs, i)
           x == TimedElement(t, rest)
<1>1. c \in CutCluster(f) /\ DOMAIN cs = 1..Len(cs)
  <2> DEFINE T == CutCluster(f)
  <2>1. cs \in Seq(T) OBVIOUS
  <2> HIDE DEF T
  <2>2. cs[i] \in T BY <2>1
  <2> QED BY <2>1, <2>2 DEF T
<1>2. /\ c.timestamp \in Nat /\ origin <= c.timestamp
      /\ Clear(rest, {"Timestamp"}) /\ Clear(rest, InCluster)
  BY DEF CutCarries, Carried, BodyOf
<1>3. t \in Nat /\ t \in Int /\ origin \in Int
  <2> HIDE DEF c
  <2> QED BY <1>2
<1>4. ClusterCells(f, cs, origin)[i] = newHeader(c, origin) \o Content(c.body, f)
  BY <1>1 DEF ClusterCells
<1>5. rest = Content(c.body, f) BY DEF BodyOf
<1> HIDE DEF c
<1>6. newHeader(c, origin) \o Content(c.body, f) = x /\ rest \in Seq(Cell)
  BY <1>1, <1>3, <1>5, CutElementIs
<1> HIDE DEF rest, t
<1>7. TimedMade(t, rest) BY <1>2, <1>3, <1>6, TimedMarks
<1>8. x \in Seq(Cell) /\ TimedBody(t, rest) \in Seq(Cell) BY <1>7 DEF TimedMade
<1>9. Marks(x, InCluster) \subseteq {0}
  <2> DEFINE n == Len(TimedBody(t, rest))
  <2>1. n \in Int BY <1>8
  <2>2. x = AppendSizeWidth("Cluster", n, Wide) \o TimedBody(t, rest) BY DEF TimedElement
  <2>3. "Timestamp" \notin InCluster BY DEF InCluster
  <2> HIDE DEF n, x
  <2>4. Marks(AppendSizeWidth("Cluster", n, Wide) \o TimedBody(t, rest), InCluster) \subseteq {0}
    BY <1>2, <1>3, <1>6, <2>1, <2>3, ClusterHeadMarks
  <2> QED BY <2>2, <2>4
<1> HIDE DEF x
<1>10. x = CutElement(f, cs, origin, i) BY DEF x, t, c, rest, CutElement
<1> QED BY <1>2, <1>3, <1>4, <1>6, <1>8, <1>9, <1>10 DEF CutMade, t, c, rest

\* Every cluster header of a clip's clusters starts one of them, in their order.
LEMMA ClipCarries ==
  ASSUME NEW f, NEW cs, NEW origin, NEW ks, f \in Seq(Cell), cs \in Seq(CutCluster(f)), origin \in Nat,
         CutCarries(f, cs, origin, ks)
  PROVE  /\ Carries(FlattenSeq(ClusterCells(f, cs, origin)), InCluster, ClusterCells(f, cs, origin), 1..Len(cs))
         /\ FlattenSeq(ClusterCells(f, cs, origin)) \in Seq(Cell)
<1> DEFINE cells == ClusterCells(f, cs, origin)
           n == Len(cs)
           E == [i \in 1..n |-> {i}]
           D == 1..n
           x == FlattenSeq(cells)
<1>1. cells \in Seq(Seq(Cell)) /\ Len(cells) = n
  <2>1. origin \in Int OBVIOUS
  <2> QED BY <2>1, ClusterContent
<1>2. \A i \in 1..n : CutMade(f, cs, origin, i) BY CutClusterMade
<1> HIDE DEF cells, n
<1>3. ASSUME NEW i \in 1..n PROVE Carries(cells[i], InCluster, cells, {i})
  <2> DEFINE u == cells[i]
  <2>1. u \in Seq(Cell) /\ Marks(u, InCluster) \subseteq {0}
    <3>1. CutMade(f, cs, origin, i) BY <1>2
    <3>2. u = CutElement(f, cs, origin, i) BY <3>1 DEF CutMade, cells
    <3> HIDE DEF u
    <3> QED BY <3>1, <3>2 DEF CutMade
  <2>2. cells[i] = u OBVIOUS
  <2> HIDE DEF u
  <2>3. Carries(u, InCluster, cells, {i}) BY <2>1, <2>2, CarriesUnit
  <2> QED BY <2>3 DEF u
<1>4. InOrder(cells, InCluster, cells, E, D)
  <2>1. \A i \in 1..n : E[i] = {i} OBVIOUS
  <2>2. \A i, j \in 1..n : i < j => Before({i}, {j}) BY DEF Before
  <2>3. \A i \in 1..n : E[i] \subseteq D BY <2>1
  <2> HIDE DEF E, D
  <2>4. \A i \in 1..n : Carries(cells[i], InCluster, cells, E[i]) BY <1>3, <2>1
  <2>5. \A i, j \in 1..n : i < j => Before(E[i], E[j]) BY <2>1, <2>2
  <2> QED BY <1>1, <2>3, <2>4, <2>5 DEF InOrder
<1> HIDE DEF E, D
<1>5. Carries(FlattenSeq(cells), InCluster, cells, D) BY <1>1, <1>4, CarriesFlatten
<1>6. x \in Seq(Cell) BY <1>1, FlattenType
<1> QED BY <1>5, <1>6 DEF cells, n, D

\* A cluster that is read of a clip is the i-th one it is made of.
ClipCluster(b, f, cs, origin, c, i) ==
  /\ i \in 1..Len(cs) /\ c.off \in Nat
  /\ At(b, c.off, CutElement(f, cs, origin, i))
  /\ ClusterRead(b, c, c.off, cs[i].timestamp - origin, BodyOf(f, cs, i))

LEMMA ClipClusterRead ==
  ASSUME NEW f, NEW b, NEW cs, NEW origin, NEW ks, NEW q, NEW p, NEW g,
         f \in Seq(Cell), b \in Seq(Cell), Small(b), cs \in Seq(CutCluster(f)), origin \in Nat,
         CutCarries(f, cs, origin, ks), OpenedAt(b, ClusterCells(f, cs, origin), q), p \in Nat, q <= p,
         readCluster(b, p).ok,
         Numbered(FlattenSeq(ClusterCells(f, cs, origin)), InCluster, ClusterCells(f, cs, origin), 1..Len(cs), g)
  PROVE  /\ p - q \in Marks(FlattenSeq(ClusterCells(f, cs, origin)), InCluster)
         /\ ClipCluster(b, f, cs, origin, readCluster(b, p), g[p - q])
<1> DEFINE h == ReadHeaderAt(b, p)
           c == readCluster(b, p)
           cells == ClusterCells(f, cs, origin)
           x == FlattenSeq(cells)
           i == g[p - q]
           t == cs[i].timestamp - origin
           rest == BodyOf(f, cs, i)
<1>1. h.id = "Cluster"
  <2> DEFINE kids == Walk(b, p + h.w, p + h.w + h.size, BlockIds)
  <2>1. c = clusterOf(b, p, h, kids) BY DEF readCluster
  <2> HIDE DEF kids, h
  <2> QED BY <2>1 DEF clusterOf
<1>2. c.off = p
  <2>1. c \in FileCluster(b) /\ c.off = p BY ReadClusterType
  <2> QED BY <2>1
<1>3. Prefix(b, b) BY PrefixWhole
<1>4. HeaderHere(b, b, p, h) BY <1>1, <1>3, HeadIsMark
<1>5. p \in Marks(b, InCluster) BY <1>1, <1>4 DEF HeaderHere, InCluster
<1> HIDE DEF h, c
<1>6. x \in Seq(Cell) BY ClipCarries
<1>7. At(b, q, x) /\ Len(b) = q + Len(x) /\ q \in Nat BY DEF OpenedAt
<1> HIDE DEF cells, x
<1>8. p < q + Len(x)
  <2>1. p < Len(b) BY <1>5 DEF Marks
  <2> QED BY <1>7, <2>1
<1>9. p - q \in Marks(x, InCluster) BY <1>5, <1>6, <1>7, <1>8, MarkAt
<1>10. i \in 1..Len(cs) /\ At(x, p - q, cells[i]) BY <1>9 DEF Numbered, cells, x
<1> HIDE DEF i
<1>11. CutMade(f, cs, origin, i) BY <1>10, CutClusterMade
<1>12. /\ t \in Nat /\ rest \in Seq(Cell) /\ Clear(rest, {"Timestamp"})
       /\ cells[i] = CutElement(f, cs, origin, i) /\ CutElement(f, cs, origin, i) \in Seq(Cell)
  BY <1>11 DEF CutMade, cells
<1>13. CutElement(f, cs, origin, i) = TimedElement(t, rest) BY DEF CutElement
<1>14. At(b, p, cells[i])
  <2> DEFINE u == cells[i]
             d == p - q
  <2>1. u \in Seq(Cell) /\ At(x, d, u) BY <1>10, <1>12
  <2>2. q + d = p BY <1>7
  <2> HIDE DEF u, d
  <2>3. At(b, q + d, u) BY <1>6, <1>7, <2>1, AtWithin
  <2> QED BY <2>2, <2>3 DEF u
<1>15. ClusterRead(b, c, p, t, rest)
  <2>1. At(b, p, TimedElement(t, rest)) BY <1>12, <1>13, <1>14
  <2> HIDE DEF rest, t
  <2> QED BY <1>3, <1>12, <2>1, ClusterReads DEF c
<1>16. ClipCluster(b, f, cs, origin, c, i)
  BY <1>2, <1>10, <1>12, <1>14, <1>15 DEF ClipCluster
<1> QED BY <1>9, <1>16 DEF x, cells, c, i

\* The clusters that are read of a clip are some of those it is made of, in their order.
ClipClusters(b, f, cs, origin, clusters, js) ==
  \A i \in 1..Len(clusters) :
    /\ js[i] \in 1..Len(cs) /\ ClipCluster(b, f, cs, origin, clusters[i], js[i])
    /\ \A j \in 1..Len(clusters) : i < j => js[i] < js[j]
OfClip(b, f, cs, origin, clusters) == \E js : ClipClusters(b, f, cs, origin, clusters, js)

LEMMA ClipCollected ==
  ASSUME NEW f, NEW b, NEW cs, NEW origin, NEW ks, NEW clusters, NEW p, NEW q,
         f \in Seq(Cell), b \in Seq(Cell), Small(b), cs \in Seq(CutCluster(f)), origin \in Nat,
         CutCarries(f, cs, origin, ks), OpenedAt(b, ClusterCells(f, cs, origin), q),
         p \in Nat, q <= p, Lined(b, clusters, p), Intactly(b, clusters)
  PROVE  OfClip(b, f, cs, origin, clusters)
<1> DEFINE S == 1..Len(cs)
           n == Len(clusters)
           off(i) == clusters[i].off
           cells == ClusterCells(f, cs, origin)
           x == FlattenSeq(cells)
<1>1. Carries(x, InCluster, cells, S) BY ClipCarries
<1>2. PICK g : Numbered(x, InCluster, cells, S, g) BY <1>1 DEF Carries
<1> DEFINE js == [i \in 1..n |-> g[off(i) - q]]
<1>3. q \in Nat BY DEF OpenedAt
<1>4. ASSUME NEW i \in 1..n
      PROVE  /\ off(i) - q \in Marks(x, InCluster) /\ ClipCluster(b, f, cs, origin, clusters[i], g[off(i) - q])
             /\ off(i) \in Nat /\ clusters[i].end \in Int /\ off(i) < clusters[i].end
  <2>1. clusters[i] \in FileCluster(b) /\ clusters[i].ok BY <1>4 DEF Intactly
  <2>2. clusters[i] = readCluster(b, off(i)) /\ p <= off(i) BY DEF Lined
  <2>3. off(i) \in Nat /\ clusters[i].end \in Int /\ off(i) < clusters[i].end BY <2>1 DEF FileCluster
  <2>4. readCluster(b, off(i)).ok BY <2>1, <2>2
  <2>5. q <= off(i)
    <3>1. p <= off(i) BY <2>2
    <3> HIDE DEF off
    <3> QED BY <1>3, <2>3, <3>1
  <2>6. Numbered(FlattenSeq(ClusterCells(f, cs, origin)), InCluster, ClusterCells(f, cs, origin), 1..Len(cs), g)
    BY <1>2
  <2> HIDE DEF off, S, cells, x
  <2>7. /\ off(i) - q \in Marks(FlattenSeq(ClusterCells(f, cs, origin)), InCluster)
        /\ ClipCluster(b, f, cs, origin, readCluster(b, off(i)), g[off(i) - q])
    BY <2>3, <2>4, <2>5, <2>6, ClipClusterRead
  <2> QED BY <2>2, <2>3, <2>7 DEF x, cells
<1> HIDE DEF cells, x
<1>5. ASSUME NEW i \in 1..n, NEW j \in 1..n, i < j PROVE g[off(i) - q] < g[off(j) - q]
  <2>1. clusters[i].end <= off(j) BY <1>5 DEF Lined
  <2>2. off(i) - q < off(j) - q
    <3>1. off(i) \in Nat /\ off(j) \in Nat /\ clusters[i].end \in Int /\ off(i) < clusters[i].end BY <1>4
    <3> HIDE DEF off
    <3> QED BY <1>3, <2>1, <3>1
  <2>3. off(i) - q \in Marks(x, InCluster) /\ off(j) - q \in Marks(x, InCluster) BY <1>4
  <2> HIDE DEF off
  <2> QED BY <1>2, <2>2, <2>3 DEF Numbered
<1>6. \A i \in 1..n : g[off(i) - q] \in S BY <1>2, <1>4 DEF Numbered
<1> HIDE DEF off
<1>7. ClipClusters(b, f, cs, origin, clusters, js)
  <2>1. \A i \in 1..n : js[i] = g[off(i) - q] OBVIOUS
  <2> HIDE DEF js
  <2> QED BY <1>4, <1>5, <1>6, <2>1 DEF ClipClusters
<1> QED BY <1>7 DEF OfClip

\* The blocks that are read of the i-th cluster of a clip are some of the source's.
BlocksOf(b, cs, origin, ks, blocks, i) ==
  \E D \in SUBSET Places(ks[i]) : AllRead(b, blocks, cs[i].timestamp, cs[i].timestamp - origin, D)

LEMMA ClipBlocksRead ==
  ASSUME SourceInv, NEW f, NEW b, NEW cs, NEW origin, NEW ks, NEW c, NEW i,
         f \in Seq(Cell), b \in Seq(Cell), Small(b), cs \in Seq(CutCluster(f)), origin \in Nat,
         CutCarries(f, cs, origin, ks), ClipCluster(b, f, cs, origin, c, i),
         c \in FileCluster(b), c.ok, readBlocks(b, c).ok
  PROVE  BlocksOf(b, cs, origin, ks, readBlocks(b, c).blocks, i)
<1> DEFINE t == cs[i].timestamp
           t0 == t - origin
           rest == BodyOf(f, cs, i)
           p == c.off
<1>1. i \in 1..Len(cs) /\ p \in Nat /\ At(b, p, CutElement(f, cs, origin, i)) /\ ClusterRead(b, c, p, t0, rest)
  BY DEF ClipCluster
<1>2. Carried(rest, t, ks[i], origin) /\ t \in Nat /\ origin <= t BY <1>1 DEF CutCarries, BodyOf
<1>3. rest \in Seq(Cell) /\ Clear(rest, {"Timestamp"}) BY <1>2 DEF Carried
<1>4. PICK D : CarriesSome(rest, t, ks[i], origin, D) BY <1>2 DEF Carried
<1>5. /\ D \subseteq Places(ks[i]) /\ Sayable(t, D) /\ Carries(rest, BlockIds, Units(t), D)
      /\ D # {} => t0 < Pow(UintBase, Wide)
  BY <1>4 DEF CarriesSome
<1>6. At(b, p, TimedElement(t0, rest)) BY <1>1 DEF CutElement
<1>7. Prefix(b, b) BY PrefixWhole
<1> HIDE DEF t, rest, p
<1>8. t \in Int /\ t0 \in Nat BY <1>2
<1> HIDE DEF t0
<1>9. AllRead(b, readBlocks(b, c).blocks, t, t0, D) BY <1>1, <1>3, <1>5, <1>6, <1>7, <1>8, BlocksReadAs
<1> QED BY <1>5, <1>9 DEF BlocksOf, t, t0

\* A frame that is read of a clip, and that of the n-th stored block.
FrameIs(fr, n, origin) ==
  /\ n \in 1..Len(Stored) /\ fr.at = Stored[n].at /\ fr.track = Stored[n].track
  /\ fr.time = Stored[n].time - origin
\* Frames of the stored blocks with these numbers, in their order.
FramesBy(frames, origin, D, m) ==
  \A i \in 1..Len(frames) :
    /\ m[i] \in D /\ FrameIs(frames[i], m[i], origin)
    /\ \A j \in 1..Len(frames) : i < j => m[i] < m[j]
FramesIn(frames, origin, D) == \E m : FramesBy(frames, origin, D, m)
ReadFrame == [at : Nat \X Nat, track : Nat, time : Int, cluster : Nat]

LEMMA FramesRead ==
  ASSUME SourceInv, NEW b, NEW c, NEW blocks, NEW t, NEW origin, NEW D, b \in Seq(Cell),
         blocks \in Seq(FileBlock(b)), c.off \in Nat, D \subseteq 1..Len(Stored), t \in Nat, origin \in Nat,
         AllRead(b, blocks, t, t - origin, D)
  PROVE  FramesOf(b, c, blocks) \in Seq(ReadFrame) /\ FramesIn(FramesOf(b, c, blocks), origin, D)
<1> DEFINE t0 == t - origin
           n == Len(blocks)
           frames == FramesOf(b, c, blocks)
           U == FileBlock(b)
<1>1. PICK m : ReadAs(b, blocks, t, t0, D, m) BY DEF AllRead
<1>2. n \in Nat /\ DOMAIN blocks = 1..n
  <2>1. blocks \in Seq(U) OBVIOUS
  <2> HIDE DEF U
  <2> QED BY <2>1
<1>3. frames = [i \in 1..n |->
        [at |-> b[blocks[i].off + blocks[i].ts + 2].at, track |-> blocks[i].track,
         time |-> blocks[i].time, cluster |-> c.off]]
  BY <1>2 DEF FramesOf
<1>4. ASSUME NEW i \in 1..n
      PROVE  FrameIs(frames[i], m[i], origin) /\ frames[i] \in ReadFrame
  <2> DEFINE fr == frames[i]
             k == m[i]
             time == Stored[k].time
  <2>1. fr = [at |-> b[blocks[i].off + blocks[i].ts + 2].at, track |-> blocks[i].track,
              time |-> blocks[i].time, cluster |-> c.off] BY <1>3
  <2>2. k \in D /\ UnitSays(b, blocks[i], k, t, t0) BY <1>1 DEF ReadAs
  <2>3. k \in 1..Len(Stored) BY <2>2
  <2>4. /\ blocks[i].track = Stored[k].track /\ blocks[i].time = t0 + (time - t)
        /\ b[blocks[i].off + blocks[i].ts + 2] = FrameCell(Stored[k].at)
    BY <2>2 DEF UnitSays, BlockSays
  <2>5. Stored[k].at \in Nat \X Nat /\ Stored[k].track \in Nat /\ time \in Nat BY <2>3, StoredTypes
  <2> HIDE DEF fr, frames, time
  <2>6. t0 + (time - t) = time - origin BY <2>5
  <2>7. FrameCell(Stored[k].at).at = Stored[k].at BY DEF FrameCell
  <2>8. fr.at = Stored[k].at /\ fr.track = Stored[k].track /\ fr.time = time - origin
    BY <2>1, <2>4, <2>6, <2>7
  <2>9. fr \in ReadFrame
    <3>1. time - origin \in Int BY <2>5
    <3>2. fr = [at |-> Stored[k].at, track |-> Stored[k].track, time |-> time - origin, cluster |-> c.off]
      BY <2>1, <2>4, <2>6, <2>7
    <3> QED BY <2>5, <3>1, <3>2 DEF ReadFrame
  <2> QED BY <2>3, <2>8, <2>9 DEF FrameIs, fr, time
<1>5. frames \in Seq(ReadFrame) /\ Len(frames) = n
  <2> DEFINE T == ReadFrame
  <2>1. frames \in [1..n -> T]
    <3>1. \A i \in 1..n : frames[i] \in T BY <1>4
    <3> HIDE DEF T
    <3> QED BY <1>3, <3>1
  <2> HIDE DEF T, frames
  <2>2. frames \in Seq(T) BY <1>2, <2>1, FunctionIsSequence
  <2>3. Len(frames) = n BY <1>2, <2>1, <2>2
  <2> QED BY <2>2, <2>3 DEF T
<1>6. ASSUME NEW i \in 1..n PROVE m[i] \in D /\ \A j \in 1..n : i < j => m[i] < m[j] BY <1>1 DEF ReadAs
<1> HIDE DEF frames, n
<1>7. FramesBy(frames, origin, D, m) BY <1>4, <1>5, <1>6 DEF FramesBy
<1> QED BY <1>5, <1>7 DEF FramesIn, frames

\* Frames of rows, each row later in the file than those before it.
RowsIn(rows, origin, E) ==
  \A k \in 1..Len(rows) :
    /\ FramesIn(rows[k], origin, E[k])
    /\ \A l \in 1..Len(rows) : k < l => Before(E[k], E[l])

LEMMA FramesTogether ==
  ASSUME NEW T, NEW rows, NEW origin, NEW E, rows \in Seq(Seq(T)), RowsIn(rows, origin, E)
  PROVE  FramesIn(FlattenSeq(rows), origin, 1..Len(Stored))
<1> DEFINE F == FlattenSeq(rows)
           N == Len(Stored)
           by(k) == CHOOSE m : FramesBy(rows[k], origin, E[k], m)
<1>1. Flat(rows, F) BY FlatPlaces
<1>2. PICK row, col : FlatBy(rows, F, row, col) BY <1>1 DEF Flat
<1>3. \A k \in 1..Len(rows) : FramesBy(rows[k], origin, E[k], by(k)) BY DEF RowsIn, FramesIn
<1> HIDE DEF F, by, N
<1> DEFINE m == [n \in 1..Len(F) |-> by(row[n])[col[n]]]
<1>4. ASSUME NEW n \in 1..Len(F)
      PROVE  /\ row[n] \in 1..Len(rows) /\ col[n] \in 1..Len(rows[row[n]]) /\ F[n] = rows[row[n]][col[n]]
             /\ by(row[n])[col[n]] \in E[row[n]] /\ FrameIs(F[n], by(row[n])[col[n]], origin)
             /\ by(row[n])[col[n]] \in 1..N
  <2>1. row[n] \in 1..Len(rows) /\ col[n] \in 1..Len(rows[row[n]]) /\ F[n] = rows[row[n]][col[n]]
    BY <1>2 DEF FlatBy
  <2>2. FramesBy(rows[row[n]], origin, E[row[n]], by(row[n])) BY <1>3, <2>1
  <2>3. /\ by(row[n])[col[n]] \in E[row[n]]
        /\ FrameIs(rows[row[n]][col[n]], by(row[n])[col[n]], origin)
    BY <2>1, <2>2 DEF FramesBy
  <2>4. by(row[n])[col[n]] \in 1..N BY <2>3 DEF FrameIs, N
  <2> QED BY <2>1, <2>3, <2>4
<1>5. ASSUME NEW n \in 1..Len(F), NEW j \in 1..Len(F), n < j
      PROVE  by(row[n])[col[n]] < by(row[j])[col[j]]
  <2>1. row[n] < row[j] \/ (row[n] = row[j] /\ col[n] < col[j]) BY <1>2, <1>5 DEF FlatBy
  <2>2. CASE row[n] < row[j]
    <3>1. Before(E[row[n]], E[row[j]]) BY <1>4, <2>2 DEF RowsIn
    <3> QED BY <1>4, <3>1 DEF Before
  <2>3. CASE row[n] = row[j] /\ col[n] < col[j]
    <3>1. FramesBy(rows[row[n]], origin, E[row[n]], by(row[n])) BY <1>3, <1>4
    <3>2. col[n] \in 1..Len(rows[row[n]]) /\ col[j] \in 1..Len(rows[row[n]]) BY <1>4, <2>3
    <3>3. by(row[n])[col[n]] < by(row[n])[col[j]] BY <2>3, <3>1, <3>2 DEF FramesBy
    <3> QED BY <2>3, <3>3
  <2> QED BY <2>1, <2>2, <2>3
<1>6. \A n \in 1..Len(F) : m[n] = by(row[n])[col[n]] OBVIOUS
<1> HIDE DEF m
<1>7. FramesBy(F, origin, 1..N, m) BY <1>4, <1>5, <1>6 DEF FramesBy
<1> QED BY <1>7 DEF FramesIn, F, N

\* What is read of a clip whose clusters carry some of the source's.
FrameRows(b, clusters) ==
  [k \in DOMAIN clusters |-> FramesOf(b, clusters[k], readBlocks(b, clusters[k]).blocks)]
ReadsFaithfully(b, clusters, origin) ==
  /\ FlattenSeq(FrameRows(b, clusters)) \in Seq(ReadFrame)
  /\ FramesIn(FlattenSeq(FrameRows(b, clusters)), origin, 1..Len(Stored))

LEMMA ClipFramesRead ==
  ASSUME SourceInv, NEW f, NEW b, NEW cs, NEW origin, NEW ks, NEW clusters,
         f \in Seq(Cell), b \in Seq(Cell), Small(b), cs \in Seq(CutCluster(f)), origin \in Nat,
         CutCarries(f, cs, origin, ks), OfClip(b, f, cs, origin, clusters),
         clusters \in Seq(FileCluster(b)), Intactly(b, clusters),
         \A k \in 1..Len(clusters) : readBlocks(b, clusters[k]).ok
  PROVE  ReadsFaithfully(b, clusters, origin)
<1> DEFINE n == Len(clusters)
           rows == FrameRows(b, clusters)
           blocks(k) == readBlocks(b, clusters[k]).blocks
           U == FileCluster(b)
<1>1. PICK js : ClipClusters(b, f, cs, origin, clusters, js) BY DEF OfClip
<1> DEFINE E == [k \in 1..n |-> Places(ks[js[k]])]
<1>2. n \in Nat /\ DOMAIN clusters = 1..n
  <2>1. clusters \in Seq(U) OBVIOUS
  <2> HIDE DEF U
  <2> QED BY <2>1
<1>3. rows = [k \in 1..n |-> FramesOf(b, clusters[k], blocks(k))] BY <1>2 DEF FrameRows
<1>4. ASSUME NEW k \in 1..n
      PROVE  /\ rows[k] \in Seq(ReadFrame) /\ FramesIn(rows[k], origin, E[k])
             /\ js[k] \in 1..Len(cs) /\ ks[js[k]] \in 1..Len(source)
  <2> DEFINE c == clusters[k]
             i == js[k]
  <2>1. c \in FileCluster(b) /\ c.ok /\ readBlocks(b, c).ok BY <1>4 DEF Intactly
  <2>2. i \in 1..Len(cs) /\ ClipCluster(b, f, cs, origin, c, i) BY <1>1 DEF ClipClusters
  <2>3. rows[k] = FramesOf(b, c, readBlocks(b, c).blocks) /\ E[k] = Places(ks[i]) BY <1>3
  <2>4. c.off \in Nat BY <2>2 DEF ClipCluster
  <2> HIDE DEF c, i, rows, E
  <2>5. BlocksOf(b, cs, origin, ks, readBlocks(b, c).blocks, i) BY <2>1, <2>2, ClipBlocksRead
  <2>6. PICK D \in SUBSET Places(ks[i]) :
          AllRead(b, readBlocks(b, c).blocks, cs[i].timestamp, cs[i].timestamp - origin, D)
    BY <2>5 DEF BlocksOf
  <2>7. ks[i] \in 1..Len(source) /\ cs[i].timestamp \in Nat BY <2>2 DEF CutCarries
  <2>8. Places(ks[i]) \subseteq 1..Len(Stored) BY <2>7, PlacesStored
  <2>9. readBlocks(b, c).blocks \in Seq(FileBlock(b)) BY <2>1, ReadBlocksType
  <2>10. D \subseteq 1..Len(Stored) BY <2>8
  <2> DEFINE B == readBlocks(b, c).blocks
             t == cs[i].timestamp
  <2>11. B \in Seq(FileBlock(b)) /\ t \in Nat /\ AllRead(b, B, t, t - origin, D) BY <2>6, <2>7, <2>9
  <2> HIDE DEF B, t
  <2>12. FramesOf(b, c, B) \in Seq(ReadFrame) /\ FramesIn(FramesOf(b, c, B), origin, D)
    BY <2>4, <2>10, <2>11, FramesRead
  <2>13. FramesIn(FramesOf(b, c, B), origin, Places(ks[i])) BY <2>12 DEF FramesIn, FramesBy
  <2> QED BY <2>2, <2>3, <2>7, <2>12, <2>13 DEF i, B
<1>5. ASSUME NEW k \in 1..n, NEW l \in 1..n, k < l PROVE Before(E[k], E[l])
  <2>1. js[k] < js[l] BY <1>1, <1>5 DEF ClipClusters
  <2>2. js[k] \in 1..Len(cs) /\ js[l] \in 1..Len(cs) BY <1>4
  <2>3. ks[js[k]] < ks[js[l]] BY <2>1, <2>2 DEF CutCarries
  <2> DEFINE a == ks[js[k]]
             z == ks[js[l]]
  <2>4. a \in 1..Len(source) /\ z \in 1..Len(source) /\ a < z BY <1>4, <2>3
  <2>5. E[k] = Places(a) /\ E[l] = Places(z) OBVIOUS
  <2> HIDE DEF E, a, z
  <2>6. Before(Places(a), Places(z)) BY <2>4, PlacesStored
  <2> QED BY <2>5, <2>6
<1>6. rows \in Seq(Seq(ReadFrame)) /\ Len(rows) = n
  <2> DEFINE T == Seq(ReadFrame)
  <2>1. \A k \in 1..n : rows[k] \in T BY <1>4
  <2> HIDE DEF T
  <2>2. rows \in [1..n -> T] BY <1>3, <2>1
  <2> HIDE DEF rows
  <2>3. rows \in Seq(T) /\ Len(rows) = n BY <1>2, <2>2, FunctionIsSequence
  <2> QED BY <2>3 DEF T
<1> HIDE DEF rows, E, n
<1>7. RowsIn(rows, origin, E) BY <1>4, <1>5, <1>6 DEF RowsIn
<1>8. FramesIn(FlattenSeq(rows), origin, 1..Len(Stored)) BY <1>6, <1>7, FramesTogether
<1>9. FlattenSeq(rows) \in Seq(ReadFrame) BY <1>6, FlattenType
<1> QED BY <1>8, <1>9 DEF ReadsFaithfully, rows

LEMMA JunkKept ==
  ASSUME format' = format, source' = source
  PROVE  \A id : Junk(id)' = Junk(id)
BY DEF Junk
LEMMA BlockElementKept ==
  ASSUME format' = format, source' = source
  PROVE  \A k, i : BlockElement(k, i)' = BlockElement(k, i)
BY DEF BlockElement, Frame
LEMMA StoredKept ==
  ASSUME format' = format, source' = source
  PROVE  Stored' = Stored
BY DEF Stored
LEMMA ClusterElementKept ==
  ASSUME format' = format, source' = source
  PROVE  \A k : ClusterElement(k)' = ClusterElement(k)
<1>1. \A id : Junk(id)' = Junk(id) BY JunkKept
<1>2. \A k, i : BlockElement(k, i)' = BlockElement(k, i) BY BlockElementKept
<1> QED BY <1>1, <1>2 DEF ClusterElement
LEMMA DurationKept ==
  ASSUME format' = format, source' = source
  PROVE  Duration' = Duration
BY StoredKept DEF Duration
LEMMA CuesKept ==
  ASSUME format' = format, source' = source
  PROVE  \A offs : CuesElement(offs)' = CuesElement(offs)
BY StoredKept DEF CuesElement
\* The parts of the file.
ClusterStart(k) == Len(FlattenSeq([j \in 1..(k - 1) |-> ClusterElement(j)]))
ClusterPlaces(first) == [k \in DOMAIN source |-> first + ClusterStart(k)]
IndexFrom(first) == CuesElement(ClusterPlaces(first))
FileTrack(n, type) == AppendElement("TrackEntry", AppendUint("TrackNumber", n) \o AppendUint("TrackType", type))
FileSeekHead(cues, pos) == IF cues = "back" THEN seekHead(<<<<"Cues", pos>>>>) ELSE <<>>
FileMeta(noisy, void, duration) ==
  AppendElement("Info", void \o AppendUint("TimestampScale", 1)
                  \o AppendUint("Title", 1) \o AppendUintWidth("Duration", duration, Wide))
    \o AppendElement("Tracks", (IF noisy THEN FileTrack(AudioTrack, 2) ELSE <<>>) \o FileTrack(VideoTrack, 1))
    \o (IF noisy THEN AppendElement("Attachments", <<Num(7), Num(8)>>) ELSE <<>>)
FrontLen(cues, index) == IF cues = "front" THEN Len(index) ELSE 0
FirstAt(cues, meta, index) == Len(FileSeekHead(cues, 0)) + Len(meta) + FrontLen(cues, index)
FileWith(cues, meta, first, index, clusters, tail) ==
  LET body == FileSeekHead(cues, first + Len(clusters) + Len(tail)) \o meta
                \o (IF cues = "front" THEN index ELSE <<>>) \o clusters \o tail
                \o (IF cues = "back" THEN index ELSE <<>>)
  IN  AppendElement("EBML", <<Num(4)>>) \o AppendSizeWidth("Segment", Len(body), Wide) \o body
MetaHere == FileMeta(format.noisy, Junk("Void"), Duration)
FirstHere == FirstAt(format.cues, MetaHere, IndexFrom(0))

LEMMA FileIs == File = FileWith(format.cues, MetaHere, FirstHere, IndexFrom(FirstHere), FileClusters, Junk("Tags"))
BY DEF File, FileWith, MetaHere, FirstHere, FirstAt, FrontLen, FileMeta, FileSeekHead, FileTrack, IndexFrom,
       ClusterPlaces, ClusterStart, FileClusters

LEMMA FileKept ==
  ASSUME format' = format, source' = source
  PROVE  File' = File
<1>1. \A k : ClusterElement(k)' = ClusterElement(k) BY ClusterElementKept
<1>2. \A k : ClusterStart(k)' = ClusterStart(k) BY <1>1 DEF ClusterStart
<1>3. \A first : ClusterPlaces(first)' = ClusterPlaces(first) BY <1>2 DEF ClusterPlaces
<1>4. \A first : IndexFrom(first)' = IndexFrom(first)
  <2>1. \A offs : CuesElement(offs)' = CuesElement(offs) BY CuesKept
  <2> QED BY <1>3, <2>1 DEF IndexFrom
<1>5. \A id : Junk(id)' = Junk(id) BY JunkKept
<1>6. MetaHere' = MetaHere BY <1>5, DurationKept DEF MetaHere
<1>7. FirstHere' = FirstHere BY <1>4, <1>6 DEF FirstHere
<1>8. FileClusters' = FileClusters BY <1>1 DEF FileClusters
<1>9. File = FileWith(format.cues, MetaHere, FirstHere, IndexFrom(FirstHere), FileClusters, Junk("Tags")) BY FileIs
<1>10. File' = FileWith(format'.cues, MetaHere', FirstHere', IndexFrom(FirstHere)', FileClusters', Junk("Tags")')
  BY DEF File, FileWith, MetaHere, FirstHere, FirstAt, FrontLen, FileMeta, FileSeekHead, FileTrack, IndexFrom,
         ClusterPlaces, ClusterStart, FileClusters
<1> QED BY <1>4, <1>5, <1>6, <1>7, <1>8, <1>9, <1>10

\* What is read back of a clip without an error.
ReadWell(b, src) ==
  LET clusters == collectClusters(b, src, src.first, Len(b))
      read == ReadBack(b, src)
  IN  /\ src.ok /\ \A k \in DOMAIN clusters : clusters[k].ok /\ readBlocks(b, clusters[k]).ok
      /\ read.frames = FlattenSeq(FrameRows(b, clusters))

LEMMA ReadBackIs ==
  ASSUME NEW b, NEW src, ReadBack(b, src).ok
  PROVE  ReadWell(b, src)
<1> DEFINE clusters == collectClusters(b, src, src.first, Len(b))
           read == ReadBack(b, src)
           blocks == [k \in DOMAIN clusters |-> readBlocks(b, clusters[k])]
<1>1. ~Failed.ok BY DEF Failed
<1>2. src.ok /\ read = ReadClusters(b, src, clusters) BY <1>1 DEF ReadBack
<1> HIDE DEF clusters, read
<1>3. (\A k \in DOMAIN clusters : clusters[k].ok) /\ read = Frames(b, src, clusters, blocks)
  <2>1. read.ok BY DEF read
  <2> HIDE DEF blocks
  <2>2. CASE \E k \in DOMAIN clusters : ~clusters[k].ok
    <3>1. read = Failed BY <1>2, <2>2 DEF ReadClusters
    <3> QED BY <1>1, <2>1, <3>1
  <2>3. CASE ~(\E k \in DOMAIN clusters : ~clusters[k].ok)
    <3>1. read = Frames(b, src, clusters, blocks) BY <1>2, <2>3 DEF ReadClusters, blocks
    <3> QED BY <2>3, <3>1
  <2> QED BY <2>2, <2>3
<1>4. \A k \in DOMAIN clusters : readBlocks(b, clusters[k]) = blocks[k] OBVIOUS
<1>5. DOMAIN blocks = DOMAIN clusters OBVIOUS
<1> DEFINE rows == [k \in DOMAIN clusters |-> FramesOf(b, clusters[k], blocks[k].blocks)]
<1>6. rows = FrameRows(b, clusters) BY DEF FrameRows
<1> HIDE DEF blocks
<1>7. (\A k \in DOMAIN clusters : blocks[k].ok) /\ read.frames = FlattenSeq(rows)
  <2>1. read.ok BY DEF read
  <2>2. CASE \E k \in DOMAIN blocks : ~blocks[k].ok
    <3>1. read = Failed BY <1>3, <2>2 DEF Frames
    <3> QED BY <1>1, <2>1, <3>1
  <2>3. CASE ~(\E k \in DOMAIN blocks : ~blocks[k].ok)
    <3>1. read = [ok |-> TRUE, src |-> src, clusters |-> clusters, frames |-> FlattenSeq(rows)]
      BY <1>3, <2>3 DEF Frames
    <3>2. read.frames = FlattenSeq(rows) BY <3>1
    <3> QED BY <1>5, <2>3, <3>2
  <2> QED BY <2>2, <2>3
<1> HIDE DEF rows
<1>8. \A k \in DOMAIN clusters : clusters[k].ok /\ readBlocks(b, clusters[k]).ok BY <1>3, <1>4, <1>7
<1>9. read.frames = FlattenSeq(FrameRows(b, clusters)) BY <1>6, <1>7
<1> QED BY <1>2, <1>8, <1>9 DEF ReadWell, clusters, read

\* The frames read of a clip of what there is of the file.
ClipReadsFaithfully(b, origin) ==
  /\ ReadBack(b, Open(b)).frames \in Seq(ReadFrame)
  /\ FramesIn(ReadBack(b, Open(b)).frames, origin, 1..Len(Stored))

LEMMA BuiltReads ==
  ASSUME SourceInv, NEW f, NEW built, NEW b, Prefix(f, File), Small(File), BuiltAs(f, Open(f), built),
         built.ok, Open(f).ok, b = Content(built.parts, f), b \in Seq(Cell), Small(b), ReadBack(b, Open(b)).ok
  PROVE  ClipReadsFaithfully(b, built.start)
<1> DEFINE src == Open(f)
           origin == built.start
           read == ReadBack(b, Open(b))
           parts == built.parts
           seen == Open(b)
           clusters == collectClusters(b, seen, seen.first, Len(b))
           cells(cs) == ClusterCells(f, cs, origin)
<1>0. f \in Seq(Cell) BY DEF Prefix
<1>1. SourceOf(f, src) /\ \E cs, endT, ks : BuiltBy(f, src, built, cs, endT, ks) BY DEF BuiltAs
<1>2. PICK cs, endT, ks : BuiltBy(f, src, built, cs, endT, ks) BY <1>1
<1>3. /\ cs \in Seq(CutCluster(f)) /\ cs # <<>> /\ endT \in Int /\ origin \in Nat
      /\ Shape(src, cs, origin, endT, parts) /\ CutCarries(f, cs, origin, ks)
  <2>1. Titled(f, src, cs, origin, endT, parts) BY <1>2 DEF BuiltBy
  <2> HIDE DEF src, origin, parts
  <2>2. Shape(src, cs, origin, endT, parts) BY <2>1 DEF Titled, AssembledAs, Shape
  <2> QED BY <1>2, <2>2 DEF BuiltBy, origin
<1>4. PICK info, tracks, pos : Shaped(src, cs, origin, endT, parts, info, tracks, pos)
  BY <1>3 DEF Shape
<1>5. ReadWell(b, seen) BY ReadBackIs
<1>6. b = Content(parts, f) /\ Small(Content(parts, f)) OBVIOUS
<1>7. Open(f).ok /\ seen.ok BY <1>5 DEF ReadWell
<1> HIDE DEF src, origin, parts
<1>8. HasPieces(b, src, cells(cs))
  <2>1. origin \in Int BY <1>3
  <2>2. HasPieces(Content(parts, f), src, ClusterCells(f, cs, origin))
    BY <1>0, <1>1, <1>3, <1>4, <1>6, <2>1, ShapedPieces
  <2> QED BY <1>6, <2>2
<1>9. Opened(b, cells(cs))
  <2>1. cells(cs) \in Seq(Seq(Cell))
    <3>1. origin \in Int BY <1>3
    <3> QED BY <1>0, <1>3, <3>1, ClusterContent
  <2>2. HasPieces(b, Open(f), cells(cs)) BY <1>8 DEF src
  <2>3. Open(b).ok BY <1>7
  <2> HIDE DEF cells
  <2> QED BY <1>0, <1>7, <2>1, <2>2, <2>3, ClipOpens
<1>10. PICK q : OpenedAt(b, cells(cs), q) BY <1>9 DEF Opened
<1>11. q \in Nat /\ seen.first \in Nat /\ q <= seen.first /\ seen.segEnd \in Nat BY <1>10 DEF OpenedAt
<1> DEFINE p == seen.first
<1>12. Lined(b, clusters, p) BY <1>11, CollectedLined
<1>13. /\ \A k \in DOMAIN clusters : clusters[k].ok /\ readBlocks(b, clusters[k]).ok
       /\ read.frames = FlattenSeq(FrameRows(b, clusters))
  BY <1>5 DEF ReadWell
<1>14. p \in Nat /\ q <= p BY <1>11
<1> HIDE DEF clusters, p, seen
<1>15. Intactly(b, clusters) /\ clusters \in Seq(FileCluster(b)) BY <1>12, <1>13, LinedIntactly
<1>16. OfClip(b, f, cs, origin, clusters) BY <1>0, <1>3, <1>10, <1>12, <1>14, <1>15, ClipCollected
<1>17. \A k \in 1..Len(clusters) : readBlocks(b, clusters[k]).ok
  <2> DEFINE U == FileCluster(b)
  <2>1. clusters \in Seq(U) BY <1>15
  <2> HIDE DEF U
  <2>2. DOMAIN clusters = 1..Len(clusters) BY <2>1
  <2> QED BY <1>13, <2>2
<1>18. ReadsFaithfully(b, clusters, origin) BY <1>0, <1>3, <1>15, <1>16, <1>17, ClipFramesRead
<1> QED BY <1>13, <1>18 DEF ReadsFaithfully, ClipReadsFaithfully, origin

\* A clip is cut of what there is of the file, and is read back.
CutOf(c) ==
  /\ Prefix(c.file, File)
  /\ \E start \in Nat, end \in 0..MaxTime : c.built = buildMKV(c.file, Open(c.file), start, end)
  /\ c.ok => c.read = ReadBack(c.bytes, Open(c.bytes))
\* The inductive invariant with the file a clip is of.
FrameInv == CutInv /\ (clip # None => CutOf(clip))

\* A clip that was cut just now.
LEMMA ServedCut ==
  ASSUME NEW asked, NEW lost, NEW f, NEW start, NEW end, f \in Seq(Cell), Prefix(f, File),
         start \in Nat, end \in 0..MaxTime
  PROVE  CutOf(ServedFrom(asked, lost, f, buildMKV(f, Open(f), start, end)))
<1> DEFINE built == buildMKV(f, Open(f), start, end)
           bytes == IF built.ok THEN Content(built.parts, f) ELSE <<>>
           c == ServedFrom(asked, lost, f, built)
<1>1. c = Served(asked, lost, f, built, bytes) BY DEF ServedFrom
<1>2. \E s \in Nat, e \in 0..MaxTime : built = buildMKV(f, Open(f), s, e) OBVIOUS
<1> HIDE DEF bytes, built
<1> DEFINE read == ReadBack(bytes, Open(bytes))
<1>3. \/ c = [asked |-> asked, lost |-> lost, file |-> f, built |-> built,
              ok |-> TRUE, bytes |-> bytes, read |-> read]
      \/ c = [asked |-> asked, lost |-> lost, file |-> f, built |-> built, ok |-> FALSE]
  BY <1>1 DEF Served
<1>4. /\ c.file = f /\ c.built = built
      /\ c.ok => c.read = ReadBack(c.bytes, Open(c.bytes))
  <2> HIDE DEF c
  <2>1. CASE c = [asked |-> asked, lost |-> lost, file |-> f, built |-> built,
                  ok |-> TRUE, bytes |-> bytes, read |-> read]
    <3>1. c.file = f /\ c.built = built /\ c.bytes = bytes /\ c.read = read BY <2>1
    <3> QED BY <3>1
  <2>2. CASE c = [asked |-> asked, lost |-> lost, file |-> f, built |-> built, ok |-> FALSE]
    <3>1. c.file = f /\ c.built = built /\ ~c.ok BY <2>2
    <3> QED BY <3>1
  <2> QED BY <1>3, <2>1, <2>2
<1> HIDE DEF c, read
<1>5. CutOf(c) BY <1>2, <1>4 DEF CutOf
<1> QED BY <1>5 DEF c, built

LEMMA FirstCells ==
  ASSUME NEW F, NEW n, F \in Seq(Cell), n \in Int, n <= Len(F)
  PROVE  Prefix(SubSeq(F, 1, n), F)
<1>1. CASE n >= 0
  <2> DEFINE x == SubSeq(F, 1, n)
             T == Cell
  <2>1. n \in Nat /\ F \in Seq(T) BY <1>1
  <2> HIDE DEF T
  <2>2. x \in Seq(T) /\ Len(x) = n /\ \A i \in 1..n : x[i] = F[i] BY <2>1
  <2> HIDE DEF x
  <2>3. Len(x) <= Len(F) /\ \A i \in 1..Len(x) : x[i] = F[i] BY <2>2
  <2>4. x \in Seq(Cell) BY <2>2 DEF T
  <2>5. Prefix(x, F) BY <2>3, <2>4 DEF Prefix
  <2> QED BY <2>5 DEF x
<1>2. CASE ~(n >= 0)
  <2>1. SubSeq(F, 1, n) = <<>> BY <1>2
  <2>2. Len(F) \in Nat /\ Len(<<>>) = 0 /\ <<>> \in Seq(Cell) OBVIOUS
  <2>3. Prefix(<<>>, F) BY <2>2 DEF Prefix
  <2> QED BY <2>1, <2>3
<1> QED BY <1>1, <1>2

LEMMA FrameNext == FrameInv /\ [Next]_vars => FrameInv'
<1> SUFFICES ASSUME FrameInv, [Next]_vars PROVE FrameInv' OBVIOUS
<1>1. CutInv' BY CutNext DEF FrameInv
<1>2. SourceInv BY DEF FrameInv, CutInv
<1> SUFFICES clip' # None => CutOf(clip)' BY <1>1 DEF FrameInv
<1>3. CASE CutClip
  <2>0. PICK start \in 0..(MaxTime - 1) :
          \E end \in (start + 1)..MaxTime : \E lost \in 0..format.lost :
            \E whole \in {File} : \E f \in {SubSeq(whole, 1, Len(whole) - lost)} :
              clip' = ServedFrom(<<start, end>>, lost, f, buildMKV(f, Open(f), start, end))
    BY <1>3 DEF CutClip
  <2>1. PICK end \in (start + 1)..MaxTime, lost \in 0..format.lost :
          \E whole \in {File} : \E f \in {SubSeq(whole, 1, Len(whole) - lost)} :
            clip' = ServedFrom(<<start, end>>, lost, f, buildMKV(f, Open(f), start, end))
    BY <2>0
  <2> DEFINE whole == File
             n == Len(whole) - lost
             f == SubSeq(whole, 1, n)
             asked == <<start, end>>
  <2>2. clip' = ServedFrom(asked, lost, f, buildMKV(f, Open(f), start, end)) BY <2>1
  <2>3. start \in Nat /\ end \in 0..MaxTime BY CutAssumption
  <2>4. whole \in Seq(Cell) BY <1>2, FileType
  <2>5. format.lost \in Nat BY <1>2, CutAssumption DEF SourceInv
  <2>6. format' = format /\ source' = source BY <1>3 DEF CutClip
  <2> HIDE DEF whole
  <2>7. n \in Int /\ n <= Len(whole) BY <2>4, <2>5
  <2> HIDE DEF n
  <2>8. Prefix(f, whole) BY <2>4, <2>7, FirstCells
  <2> HIDE DEF f, asked
  <2>9. Prefix(f, File) /\ f \in Seq(Cell) BY <2>8 DEF whole, Prefix
  <2> DEFINE c == ServedFrom(asked, lost, f, buildMKV(f, Open(f), start, end))
  <2>10. CutOf(c) BY <2>3, <2>9, ServedCut
  <2>11. CutOf(clip')  BY <2>2, <2>10
  <2> HIDE DEF c
  <2>12. File' = File BY <2>6, FileKept
  <2>13. CutOf(clip)' BY <2>11, <2>12 DEF CutOf
  <2> QED BY <2>13
<1>4. CASE ~CutClip
  <2>1. \/ clip' = None
        \/ clip' = clip /\ format' = format /\ source' = source
    <3>1. CASE \E ts \in 0..(MaxTime - 1) : AddCluster(ts) BY <3>1 DEF AddCluster
    <3>2. CASE \E b \in BlockKinds : AddBlock(b) BY <3>2 DEF AddBlock
    <3>3. CASE Forget BY <3>3 DEF Forget
    <3>4. CASE UNCHANGED vars BY <3>4 DEF vars
    <3> QED BY <1>4, <3>1, <3>2, <3>3, <3>4 DEF Next
  <2>2. CASE clip' = clip /\ format' = format /\ source' = source
    <3>1. clip # None => CutOf(clip) BY DEF FrameInv
    <3>2. File' = File BY <2>2, FileKept
    <3>3. clip # None => CutOf(clip)' BY <2>2, <3>1, <3>2 DEF CutOf
    <3> QED BY <2>2, <3>3
  <2> QED BY <2>1, <2>2
<1> QED BY <1>3, <1>4

LEMMA FrameCorrect == Spec => []FrameInv
<1>1. Init => FrameInv BY CutInit DEF FrameInv, Init
<1>2. FrameInv /\ [Next]_vars => FrameInv' BY FrameNext
<1> QED BY <1>1, <1>2, PTL DEF Spec

\* The file and the clip are not longer than a size can say, and the clip is read.
Legible == Small(File) /\ (HasClip => Small(clip.bytes) /\ clip.read.ok)

LEMMA FaithfulHere ==
  ASSUME FrameInv, Legible
  PROVE  FramesFaithful
<1> DEFINE frames == clip.read.frames
           b == clip.bytes
           built == clip.built
           f == clip.file
           origin == built.start
           index(fr) == CHOOSE i \in DOMAIN Stored : Stored[i].at = fr.at
<1> SUFFICES ASSUME HasClip
             PROVE  \A i \in DOMAIN frames :
                      /\ LET s == Stored[index(frames[i])]
                         IN  frames[i].track = s.track /\ frames[i].time = s.time - clip.built.start
                      /\ i > 1 => index(frames[i - 1]) < index(frames[i])
  BY DEF FramesFaithful
<1>1. SourceInv /\ ClipOf(clip) /\ CutOf(clip) /\ clip.ok BY DEF FrameInv, CutInv, HasClip
<1>2. Small(File) /\ Small(b) /\ clip.read.ok BY DEF Legible
<1>3. /\ f \in Seq(Cell) /\ built.ok /\ b = Content(built.parts, f) /\ Fits(f, Open(f), built) BY <1>1 DEF ClipOf
<1>4. /\ Prefix(f, File) /\ clip.read = ReadBack(b, Open(b))
      /\ \E start \in Nat, end \in Nat : built = buildMKV(f, Open(f), start, end)
  BY <1>1, CutAssumption DEF CutOf
<1>5. PICK start \in Nat, end \in Nat : built = buildMKV(f, Open(f), start, end) BY <1>4
<1>6. Open(f).ok
  <2>1. ~Failed.ok BY DEF Failed
  <2> QED BY <1>3, <1>5, <2>1 DEF buildMKV
<1> HIDE DEF frames, b, built, f
<1>7. BuiltAs(f, Open(f), built) BY <1>1, <1>2, <1>4, <1>5, MkvBuilt
<1>8. b \in Seq(Cell)
  <2>1. built.parts \in Laid(f) BY <1>3 DEF Fits
  <2> DEFINE parts == built.parts
  <2>2. parts \in FileParts(f) BY <1>3, <2>1, LaidAreParts
  <2> HIDE DEF parts
  <2>3. Content(parts, f) \in Seq(Cell) BY <1>3, <2>2, ContentType DEF FileParts, FilePart
  <2> QED BY <1>3, <2>3 DEF parts
<1>9. ReadBack(b, Open(b)).ok BY <1>2, <1>4
<1>10. ClipReadsFaithfully(b, built.start) BY <1>1, <1>2, <1>3, <1>4, <1>6, <1>7, <1>8, <1>9, BuiltReads
<1>11. frames \in Seq(ReadFrame) /\ FramesIn(frames, origin, 1..Len(Stored))
  BY <1>4, <1>10 DEF ClipReadsFaithfully, frames
<1>12. PICK m : FramesBy(frames, origin, 1..Len(Stored), m) BY <1>11 DEF FramesIn
<1>13. DOMAIN frames = 1..Len(frames) /\ Len(frames) \in Nat
  <2> DEFINE T == ReadFrame
  <2>1. frames \in Seq(T) BY <1>11
  <2> HIDE DEF T
  <2> QED BY <2>1
<1>14. ASSUME NEW i \in 1..Len(frames)
       PROVE  /\ index(frames[i]) = m[i] /\ frames[i].track = Stored[m[i]].track
              /\ frames[i].time = Stored[m[i]].time - origin
  <2>1. FrameIs(frames[i], m[i], origin) BY <1>12 DEF FramesBy
  <2>2. /\ m[i] \in 1..Len(Stored) /\ frames[i].at = Stored[m[i]].at /\ frames[i].track = Stored[m[i]].track
        /\ frames[i].time = Stored[m[i]].time - origin
    BY <2>1 DEF FrameIs
  <2>3. Index(Stored[m[i]].at) = m[i] BY <1>1, <2>2, SourceIndexed DEF Indexed
  <2>4. index(frames[i]) = Index(frames[i].at) BY DEF Index
  <2> QED BY <2>2, <2>3, <2>4
<1> HIDE DEF index
<1>15. ASSUME NEW i \in DOMAIN frames
       PROVE  /\ LET s == Stored[index(frames[i])]
                 IN  frames[i].track = s.track /\ frames[i].time = s.time - clip.built.start
              /\ i > 1 => index(frames[i - 1]) < index(frames[i])
  <2>1. i \in 1..Len(frames) BY <1>13
  <2>2. origin = clip.built.start BY DEF built
  <2>3. i > 1 => index(frames[i - 1]) < index(frames[i])
    <3>1. SUFFICES ASSUME i > 1 PROVE index(frames[i - 1]) < index(frames[i]) OBVIOUS
    <3>2. i - 1 \in 1..Len(frames) /\ i - 1 < i BY <1>13, <2>1, <3>1
    <3>3. m[i - 1] < m[i] BY <1>12, <2>1, <3>2 DEF FramesBy
    <3> QED BY <1>14, <2>1, <3>2, <3>3
  <2> QED BY <1>14, <2>1, <2>2, <2>3
<1> QED BY <1>15 DEF index, frames

\* The index of a file, point by point.
IndexedBlocks ==
  Where(Stored, {i \in DOMAIN Stored : IF Stored[i].track = VideoTrack THEN Stored[i].key ELSE format.noisy})
IndexTrack(offs, b) ==
  AppendUint("CueTrack", b.track) \o AppendUintWidth("CueClusterPosition", offs[b.at[1]], Wide)
IndexPoint(offs, b) ==
  AppendElement("CuePoint", AppendUint("CueTime", b.time) \o AppendElement("CueTrackPositions", IndexTrack(offs, b)))
IndexPoints(offs) == [i \in DOMAIN IndexedBlocks |-> IndexPoint(offs, IndexedBlocks[i])]
PointIds == {"Cues", "CuePoint", "CueTime", "CueTrackPositions", "CueTrack"}
PositionOf(o) == AppendUintWidth("CueClusterPosition", o, Wide)

LEMMA IndexIs ==
  ASSUME SourceInv
  PROVE  /\ \A offs : CuesElement(offs) = AppendElement("Cues", FlattenSeq(IndexPoints(offs)))
         /\ IndexedBlocks \in Seq(SourceBlock)
<1> DEFINE T == SourceBlock
           I == {i \in DOMAIN Stored : IF Stored[i].track = VideoTrack THEN Stored[i].key ELSE format.noisy}
<1>1. \A offs : CuesElement(offs) = AppendElement("Cues", FlattenSeq(IndexPoints(offs)))
  BY DEF CuesElement, IndexPoints, IndexedBlocks, IndexPoint, IndexTrack
<1>2. Stored \in Seq(T) BY StoredType
<1> HIDE DEF T
<1>3. \A i \in 1..Len(Stored) : Stored[i] \in T BY <1>2
<1> HIDE DEF I
<1>4. Where(Stored, I) \in Seq(T) BY <1>2, <1>3, WhereType
<1> QED BY <1>1, <1>4 DEF T, I, IndexedBlocks

LEMMA BlockNumbers ==
  ASSUME SourceInv, NEW b, b \in SourceBlock
  PROVE  b.track \in Int /\ b.time \in Int /\ b.at[1] \in 1..Len(source)
<1>1. b.track \in Nat /\ b.time \in 0..MaxTime /\ b.at[1] \in 1..Len(source) BY DEF SourceBlock
<1> QED BY <1>1, CutAssumption

LEMMA IndexOnly ==
  ASSUME SourceInv, NEW offs, NEW ids, NEW W, ids \cap PointIds = {},
         \A k \in 1..Len(source) : PositionOf(offs[k]) \in Only(ids, W)
  PROVE  CuesElement(offs) \in Only(ids, W)
<1> DEFINE P == Only(ids, W)
           ib == IndexedBlocks
           g == IndexPoints(offs)
<1>1. OnlyMade(ids, W) BY OnlyCells
<1>2. \A id \in PointIds : id \in Ids /\ id \notin ids BY DEF PointIds, Ids
<1>3. /\ \A x, y \in P : x \o y \in P
      /\ \A id \in PointIds : \A x \in P : AppendElement(id, x) \in P
      /\ \A s \in Seq(P) : FlattenSeq(s) \in P
  BY <1>1, <1>2 DEF OnlyMade
<1>4. \A id \in PointIds : \A v \in Int : AppendUint(id, v) \in P
  <2>1. PlainMade(ids) BY PlainCells
  <2>2. \A id \in PointIds : \A v \in Int : AppendUint(id, v) \in Plain(ids) BY <1>2, <2>1 DEF PlainMade
  <2> QED BY <1>1, <2>2 DEF OnlyMade
<1>5. {"Cues", "CuePoint", "CueTime", "CueTrackPositions", "CueTrack"} \subseteq PointIds BY DEF PointIds
<1> HIDE DEF P
<1>6. ASSUME NEW b \in SourceBlock PROVE IndexPoint(offs, b) \in P
  <2> DEFINE a == AppendUint("CueTrack", b.track)
             p == PositionOf(offs[b.at[1]])
             d == AppendUint("CueTime", b.time)
  <2>1. b.track \in Int /\ b.time \in Int /\ b.at[1] \in 1..Len(source) BY BlockNumbers
  <2>2. a \in P /\ d \in P BY <1>4, <1>5, <2>1
  <2>3. p \in P BY <2>1 DEF P
  <2>4. IndexTrack(offs, b) = a \o p BY DEF IndexTrack, PositionOf
  <2>5. IndexPoint(offs, b) = AppendElement("CuePoint", d \o AppendElement("CueTrackPositions", IndexTrack(offs, b)))
    BY DEF IndexPoint
  <2> HIDE DEF a, p, d
  <2>6. IndexTrack(offs, b) \in P BY <1>3, <2>2, <2>3, <2>4
  <2>7. AppendElement("CueTrackPositions", IndexTrack(offs, b)) \in P BY <1>3, <1>5, <2>6
  <2>8. d \o AppendElement("CueTrackPositions", IndexTrack(offs, b)) \in P BY <1>3, <2>2, <2>7
  <2> QED BY <1>3, <1>5, <2>5, <2>8
<1>7. CuesElement(offs) = AppendElement("Cues", FlattenSeq(g)) /\ ib \in Seq(SourceBlock) BY IndexIs
<1>8. \A i \in 1..Len(ib) : g[i] \in P
  <2> DEFINE T == SourceBlock
  <2>1. ib \in Seq(T) BY <1>7
  <2> HIDE DEF T, ib
  <2>2. \A i \in 1..Len(ib) : ib[i] \in T /\ i \in DOMAIN ib BY <2>1
  <2>3. \A i \in 1..Len(ib) : IndexPoint(offs, ib[i]) \in P BY <1>6, <2>2 DEF T
  <2> QED BY <2>2, <2>3 DEF IndexPoints, ib
<1>9. DOMAIN g = DOMAIN ib /\ g = [i \in DOMAIN g |-> g[i]] BY DEF IndexPoints
<1> HIDE DEF g, ib
<1>10. g \in Seq(P) BY <1>7, <1>8, <1>9, EachOf
<1>11. AppendElement("Cues", FlattenSeq(g)) \in P BY <1>3, <1>5, <1>10
<1> QED BY <1>7, <1>11 DEF P

\* An index is as long wherever the clusters are.
LEMMA LenOfIndex ==
  ASSUME SourceInv, NEW offs, NEW offs2, \A k \in 1..Len(source) : offs[k] \in Int /\ offs2[k] \in Int
  PROVE  Len(CuesElement(offs)) = Len(CuesElement(offs2))
<1> DEFINE s == IndexPoints(offs)
           t == IndexPoints(offs2)
           ib == IndexedBlocks
           U == Seq(Cell)
<1>1. CuesElement(offs) = AppendElement("Cues", FlattenSeq(s)) /\ CuesElement(offs2) = AppendElement("Cues", FlattenSeq(t))
      /\ ib \in Seq(SourceBlock)
  BY IndexIs
<1>2. ASSUME NEW b \in SourceBlock
      PROVE  /\ IndexPoint(offs, b) \in U /\ IndexPoint(offs2, b) \in U
             /\ Len(IndexPoint(offs, b)) = Len(IndexPoint(offs2, b))
  <2> DEFINE m(o) == AppendUint("CueTrack", b.track) \o PositionOf(o)
             q(o) == AppendUint("CueTime", b.time) \o AppendElement("CueTrackPositions", m(o))
             v == offs[b.at[1]]
             v2 == offs2[b.at[1]]
  <2>1. b.track \in Int /\ b.time \in Int /\ b.at[1] \in 1..Len(source) BY BlockNumbers
  <2>2. v \in Int /\ v2 \in Int BY <2>1
  <2>3. IndexPoint(offs, b) = AppendElement("CuePoint", q(v)) /\ IndexPoint(offs2, b) = AppendElement("CuePoint", q(v2))
    BY DEF IndexPoint, IndexTrack, PositionOf
  <2>4. \A id \in PointIds : id \in Ids BY DEF PointIds, Ids
  <2>5. {"CuePoint", "CueTime", "CueTrackPositions", "CueTrack"} \subseteq PointIds /\ "CueClusterPosition" \in Ids
    BY DEF PointIds, Ids
  <2>6. AppendUint("CueTrack", b.track) \in U /\ AppendUint("CueTime", b.time) \in U BY <2>1, <2>4, <2>5, UintType
  <2> HIDE DEF v, v2
  <2> DEFINE x == AppendUint("CueTrack", b.track)
             y == AppendUint("CueTime", b.time)
             size == Len(x) + ElementLen(Wide)
             all == Len(y) + ElementLen(size)
  <2>7. ASSUME NEW o \in Int PROVE q(o) \in U /\ Len(q(o)) = all
    <3> DEFINE p == PositionOf(o)
               z == AppendElement("CueTrackPositions", x \o p)
    <3>1. Wide \in Nat BY EbmlAssumption
    <3>2. p \in U /\ Len(p) = ElementLen(Wide) BY <2>5, <3>1, LenOfUint, UintWidthType DEF PositionOf
    <3> HIDE DEF p, x, y
    <3>3. x \o p \in U /\ Len(x \o p) = size
      <4>1. x \in Seq(Cell) /\ p \in Seq(Cell) BY <2>6, <3>2 DEF x
      <4>2. Joined(Cell, x, p) BY <4>1, ConcatJoins
      <4> QED BY <3>2, <4>2 DEF Joined
    <3>4. z \in U /\ Len(z) = ElementLen(size)
      <4>1. x \o p \in Seq(Cell) /\ "CueTrackPositions" \in Ids BY <2>4, <2>5, <3>3
      <4>2. AppendElement("CueTrackPositions", x \o p) \in Seq(Cell) BY <4>1, ElementType
      <4>3. Len(AppendElement("CueTrackPositions", x \o p)) = ElementLen(Len(x \o p)) BY <4>1, LenOfElement
      <4> QED BY <3>3, <4>2, <4>3
    <3> HIDE DEF z, size
    <3>5. y \o z \in U /\ Len(y \o z) = all
      <4>1. y \in Seq(Cell) /\ z \in Seq(Cell) BY <2>6, <3>4 DEF y
      <4>2. Joined(Cell, y, z) BY <4>1, ConcatJoins
      <4> QED BY <3>4, <4>2 DEF Joined
    <3> QED BY <3>5 DEF z, p, x, y
  <2> HIDE DEF q, all
  <2>8. q(v) \in U /\ q(v2) \in U /\ Len(q(v)) = Len(q(v2)) BY <2>2, <2>7
  <2>9. "CuePoint" \in Ids BY <2>4, <2>5
  <2>10. /\ AppendElement("CuePoint", q(v)) \in Seq(Cell) /\ AppendElement("CuePoint", q(v2)) \in Seq(Cell)
         /\ Len(AppendElement("CuePoint", q(v))) = ElementLen(Len(q(v)))
         /\ Len(AppendElement("CuePoint", q(v2))) = ElementLen(Len(q(v2)))
    BY <2>8, <2>9, ElementType, LenOfElement
  <2> QED BY <2>3, <2>8, <2>10
<1>3. \A i \in 1..Len(ib) : s[i] \in U /\ t[i] \in U /\ Len(s[i]) = Len(t[i])
  <2> DEFINE T == SourceBlock
  <2>1. ib \in Seq(T) BY <1>1
  <2> HIDE DEF T, ib, U
  <2>2. \A i \in 1..Len(ib) : ib[i] \in T /\ i \in DOMAIN ib BY <2>1
  <2>3. \A i \in 1..Len(ib) : s[i] = IndexPoint(offs, ib[i]) /\ t[i] = IndexPoint(offs2, ib[i])
    BY <2>2 DEF IndexPoints, ib
  <2> HIDE DEF s, t
  <2> QED BY <1>2, <2>2, <2>3 DEF T
<1>4. DOMAIN s = DOMAIN ib /\ s = [i \in DOMAIN s |-> s[i]] /\ DOMAIN t = DOMAIN ib /\ t = [i \in DOMAIN t |-> t[i]]
  BY DEF IndexPoints
<1> HIDE DEF s, t, ib, U
<1>5. s \in Seq(U) /\ t \in Seq(U) BY <1>1, <1>3, <1>4, EachOf
<1>6. Len(s) = Len(ib) /\ Len(t) = Len(ib)
  <2> DEFINE T == SourceBlock
  <2>1. ib \in Seq(T) BY <1>1
  <2> HIDE DEF T
  <2> QED BY <1>4, <1>5, <2>1
<1>7. Len(FlattenSeq(s)) = Len(FlattenSeq(t)) /\ FlattenSeq(s) \in Seq(Cell) /\ FlattenSeq(t) \in Seq(Cell)
  BY <1>3, <1>5, <1>6, FlattenLens, FlattenType DEF U
<1>8. "Cues" \in Ids BY DEF Ids
<1> QED BY <1>1, <1>7, <1>8, LenOfElement

TopWords == SeekIds \cup {"EBML", "Segment", "Info", "TimestampScale", "Title", "Duration", "Tracks", "Attachments",
                          "Tags", "Void"}
ClusterWords == InBlock \cup SpareIds \cup {"Cluster", "Timestamp"}
FileTracks == {FileTrack(AudioTrack, 2), FileTrack(VideoTrack, 1)}

\* What is at the top of a file, when its tracks are such cells.
LEMMA MetaOnly ==
  ASSUME SourceInv, NEW ids, NEW W, ids \cap TopWords = {}, FileTracks \subseteq Only(ids, W)
  PROVE  /\ MetaHere \in Only(ids, W) /\ AppendElement("EBML", <<Num(4)>>) \in Only(ids, W)
         /\ \A n \in Int : AppendSizeWidth("Segment", n, Wide) \in Only(ids, W)
         /\ Junk("Tags") \in Only(ids, W)
         /\ \A cues, pos : pos \in Int => FileSeekHead(cues, pos) \in Only(ids, W)
<1> DEFINE P == Only(ids, W)
           two == <<Num(7), Num(8)>>
           duration == AppendUintWidth("Duration", Duration, Wide)
           scale == AppendUint("TimestampScale", 1)
           title == AppendUint("Title", 1)
           info == AppendElement("Info", Junk("Void") \o scale \o title \o duration)
           audio == FileTrack(AudioTrack, 2)
           video == FileTrack(VideoTrack, 1)
           tracks == AppendElement("Tracks", (IF format.noisy THEN audio ELSE <<>>) \o video)
           attached == IF format.noisy THEN AppendElement("Attachments", two) ELSE <<>>
<1>1. OnlyMade(ids, W) /\ PlainMade(ids) BY OnlyCells, PlainCells
<1>2. \A id \in TopWords : id \in Ids /\ id \notin ids BY DEF TopWords, SeekIds, Ids
<1>3. Wide \in Nat /\ Wide > 0 BY EbmlAssumption
<1>4. /\ \A x, y \in P : x \o y \in P
      /\ \A id \in TopWords : \A x \in P : AppendElement(id, x) \in P
  BY <1>1, <1>2 DEF OnlyMade
<1>5. Plain(ids) \subseteq P BY <1>1 DEF OnlyMade
<1>6. /\ <<>> \in P
      /\ \A c \in Cell : c.is # "head" => <<c>> \in P
      /\ \A id \in TopWords : \A v \in Int : AppendUint(id, v) \in P
      /\ \A id \in TopWords : \A v \in Int : AppendUintWidth(id, v, Wide) \in P
      /\ \A id \in TopWords : \A n \in Int : AppendSizeWidth(id, n, Wide) \in P
  BY <1>1, <1>2, <1>3, <1>5 DEF PlainMade
<1>7. \A id \in TopWords : Junk(id) \in P BY <1>2, <1>5, JunkMarks DEF Plain
<1>8. {"EBML", "Segment", "Info", "TimestampScale", "Title", "Duration", "Tracks", "Attachments", "Tags", "Void"}
        \subseteq TopWords
  BY DEF TopWords
<1>9. audio \in P /\ video \in P BY DEF FileTracks
<1> HIDE DEF P
<1>10. \A v \in Nat : <<Num(v)>> \in P
  <2>1. \A v \in Nat : Num(v) \in Cell /\ Num(v).is # "head" BY NewCells DEF Num
  <2> QED BY <1>6, <2>1
<1>11. two \in P
  <2>1. <<Num(7)>> \o <<Num(8)>> \in P BY <1>4, <1>10
  <2>2. Num(7) \in Cell /\ Num(8) \in Cell BY NewCells
  <2>3. <<Num(7)>> \o <<Num(8)>> = two
    <3> DEFINE s == Num(7)
               e == Num(8)
               T == Cell
    <3>1. s \in T /\ e \in T BY <2>2
    <3> HIDE DEF s, e, T
    <3>2. <<s>> \o <<e>> = <<s, e>> /\ <<s>> \o <<s, e>> = <<s, s, e>> BY <3>1, TwoAndThree
    <3> QED BY <3>2 DEF s, e
  <2> QED BY <2>1, <2>3
<1> HIDE DEF two, audio, video
<1>12. duration \in P /\ scale \in P /\ title \in P
  <2>1. Duration \in Int BY DurationType
  <2> QED BY <1>6, <1>8, <2>1
<1> HIDE DEF duration, scale, title
<1>13. Junk("Void") \in P /\ Junk("Tags") \in P BY <1>7, <1>8
<1>14. info \in P BY <1>4, <1>8, <1>12, <1>13
<1>15. tracks \in P BY <1>4, <1>6, <1>8, <1>9
<1>16. attached \in P BY <1>4, <1>6, <1>8, <1>11
<1>17. MetaHere = info \o tracks \o attached
  BY DEF MetaHere, FileMeta, info, tracks, attached, two, duration, scale, title, audio, video
<1> HIDE DEF info, tracks, attached
<1>18. MetaHere \in P BY <1>4, <1>14, <1>15, <1>16, <1>17
<1>19. AppendElement("EBML", <<Num(4)>>) \in P BY <1>4, <1>8, <1>10
<1>20. \A n \in Int : AppendSizeWidth("Segment", n, Wide) \in P BY <1>6, <1>8
<1>21. ASSUME NEW cues, NEW pos, pos \in Int PROVE FileSeekHead(cues, pos) \in P
  <2> DEFINE T == Ids \X Int
             ps == <<<<"Cues", pos>>>>
  <2>1. "Cues" \in Ids BY DEF Ids
  <2>2. <<"Cues", pos>> \in T BY <1>21, <2>1
  <2> HIDE DEF T
  <2>3. ps \in Seq(T) BY <2>2
  <2>4. ps \in SeekPositions BY <2>3 DEF SeekPositions, T
  <2>5. ids \cap SeekIds = {} BY DEF TopWords
  <2> HIDE DEF ps
  <2>6. seekHead(ps) \in P BY <1>5, <2>4, <2>5, SeekHeadPlain
  <2> QED BY <1>6, <2>6 DEF ps, FileSeekHead
<1> QED BY <1>13, <1>18, <1>19, <1>20, <1>21 DEF P

LEMMA TrackIs ==
  ASSUME NEW n, NEW type, n \in Int, type \in Int
  PROVE  /\ FileTrack(n, type) \in Seq(Cell) /\ Marks(FileTrack(n, type), {"TrackEntry"}) \subseteq {0}
         /\ FileTrack(n, type) \in Plain({"CueClusterPosition"})
<1> DEFINE a == AppendUint("TrackNumber", n)
           b == AppendUint("TrackType", type)
           q == {"CueClusterPosition"}
           t == {"TrackEntry"}
<1>1. {"TrackNumber", "TrackType", "TrackEntry"} \subseteq Ids BY DEF Ids
<1>2. "TrackNumber" \notin q \cup t /\ "TrackType" \notin q \cup t /\ "TrackEntry" \notin q OBVIOUS
<1> HIDE DEF q, t
<1>3. /\ a \in Seq(Cell) /\ b \in Seq(Cell) /\ Clear(a, q) /\ Clear(a, t) /\ Clear(b, q) /\ Clear(b, t)
  BY <1>1, <1>2, UintMarks
<1>4. FileTrack(n, type) = AppendElement("TrackEntry", a \o b) BY DEF FileTrack
<1> HIDE DEF a, b
<1>5. a \o b \in Seq(Cell) /\ Clear(a \o b, q) /\ Clear(a \o b, t)
  <2>1. a \o b \in Seq(Cell) BY <1>3
  <2> QED BY <1>3, <2>1, ClearConcat
<1> DEFINE x == a \o b
<1> HIDE DEF x
<1>6. /\ AppendElement("TrackEntry", x) \in Seq(Cell) /\ Marks(AppendElement("TrackEntry", x), t) \subseteq {0}
      /\ Clear(AppendElement("TrackEntry", x), q)
  BY <1>1, <1>2, <1>5, ElementMarks DEF x
<1> QED BY <1>4, <1>6 DEF Plain, x, q, t

\* Where the clusters and what is before them are.
FileTyped ==
  /\ MetaHere \in Seq(Cell) /\ AppendElement("EBML", <<Num(4)>>) \in Seq(Cell) /\ Junk("Tags") \in Seq(Cell)
  /\ FirstHere \in Nat /\ \A k \in 1..Len(source) : ClusterStart(k) \in Nat
  /\ \A o \in Int : IndexFrom(o) \in Seq(Cell) /\ Len(IndexFrom(o)) = Len(IndexFrom(0))
  /\ \A cues, pos : pos \in Int => /\ FileSeekHead(cues, pos) \in Seq(Cell)
                                   /\ Len(FileSeekHead(cues, pos)) = Len(FileSeekHead(cues, 0))
  /\ Len(source) \in Nat /\ DOMAIN source = 1..Len(source)

LEMMA StartTypes ==
  ASSUME SourceInv
  PROVE  /\ \A k \in 1..Len(source) : ClusterStart(k) \in Nat
         /\ Len(source) \in Nat /\ DOMAIN source = 1..Len(source)
<1>1. DOMAIN source = 1..Len(source) /\ Len(source) \in Nat
  <2> DEFINE T == TimedCluster
  <2>1. source \in Seq(T) BY DEF SourceInv
  <2> HIDE DEF T
  <2> QED BY <2>1
<1>2. ASSUME NEW k \in 1..Len(source) PROVE ClusterStart(k) \in Nat
  <2> DEFINE m == k - 1
             earlier == [j \in 1..m |-> ClusterElement(j)]
             U == Seq(Cell)
  <2>1. m \in Nat /\ \A j \in 1..m : j \in 1..Len(source) BY <1>1
  <2>2. \A j \in 1..Len(source) : ClusterElement(j) \in U BY ClusterElementType
  <2>3. earlier \in [1..m -> U]
    <3> HIDE DEF U, m
    <3> QED BY <2>1, <2>2
  <2> HIDE DEF earlier
  <2>4. FlattenSeq(earlier) \in U
    <3> HIDE DEF m
    <3> QED BY <2>1, <2>3, FlattenOf
  <2>5. ClusterStart(k) = Len(FlattenSeq(earlier)) BY DEF earlier, ClusterStart
  <2>6. \A u \in U : Len(u) \in Nat OBVIOUS
  <2> HIDE DEF U
  <2> QED BY <2>4, <2>5, <2>6
<1> QED BY <1>1, <1>2

LEMMA FileTypes ==
  ASSUME SourceInv
  PROVE  FileTyped
<1> DEFINE U == Seq(Cell)
<1>1. \A x \in U : Len(x) \in Nat OBVIOUS
<1>2. /\ (\A k \in 1..Len(source) : ClusterStart(k) \in Nat)
      /\ Len(source) \in Nat /\ DOMAIN source = 1..Len(source)
  BY StartTypes
<1>3. /\ MetaHere \in U /\ AppendElement("EBML", <<Num(4)>>) \in U /\ Junk("Tags") \in U
      /\ \A cues, pos : pos \in Int => FileSeekHead(cues, pos) \in U
  <2>1. \A x \in Seq(Cell) : x \in Only({}, {}) BY DEF Only, Marks
  <2>2. Only({}, {}) \subseteq U BY DEF Only
  <2>3. AudioTrack \in Int /\ 2 \in Int /\ VideoTrack \in Int /\ 1 \in Int BY DEF AudioTrack, VideoTrack
  <2>4. FileTracks \subseteq Only({}, {}) BY <2>1, <2>3, TrackIs DEF FileTracks
  <2>5. {} \cap TopWords = {} OBVIOUS
  <2> HIDE DEF U
  <2>6. /\ MetaHere \in Only({}, {}) /\ AppendElement("EBML", <<Num(4)>>) \in Only({}, {})
        /\ Junk("Tags") \in Only({}, {})
        /\ \A cues, pos : pos \in Int => FileSeekHead(cues, pos) \in Only({}, {})
    BY <2>4, <2>5, MetaOnly
  <2> QED BY <2>2, <2>6
<1>4. ASSUME NEW o \in Int PROVE IndexFrom(o) \in U /\ Len(IndexFrom(o)) = Len(IndexFrom(0))
  <2> DEFINE a == ClusterPlaces(o)
             b == ClusterPlaces(0)
  <2>1. \A k \in 1..Len(source) : a[k] \in Int /\ b[k] \in Int BY <1>2 DEF ClusterPlaces
  <2> HIDE DEF a, b, U
  <2>2. CuesElement(a) \in U BY <2>1, CuesType DEF U
  <2>3. Len(CuesElement(a)) = Len(CuesElement(b)) BY <2>1, LenOfIndex
  <2> QED BY <2>2, <2>3 DEF IndexFrom, a, b
<1>5. ASSUME NEW cues, NEW pos, pos \in Int PROVE Len(FileSeekHead(cues, pos)) = Len(FileSeekHead(cues, 0))
  <2> DEFINE T == Ids \X Int
             ps == <<<<"Cues", pos>>>>
             qs == <<<<"Cues", 0>>>>
  <2>1. "Cues" \in Ids BY DEF Ids
  <2>2. <<"Cues", pos>> \in T /\ <<"Cues", 0>> \in T BY <1>5, <2>1
  <2>3. ps \in Seq(T) /\ qs \in Seq(T) /\ Len(ps) = 1 /\ Len(qs) = 1
    <3> HIDE DEF T
    <3> QED BY <2>2
  <2>4. ps \in SeekPositions /\ qs \in SeekPositions /\ Len(ps) = Len(qs) BY <2>3 DEF SeekPositions
  <2> HIDE DEF ps, qs
  <2>5. Len(seekHead(ps)) = Len(seekHead(qs)) BY <2>4, LenOfSeekHead
  <2> QED BY <2>5 DEF ps, qs, FileSeekHead
<1>6. FirstHere \in Nat
  <2>1. FileSeekHead(format.cues, 0) \in U BY <1>3
  <2>2. IndexFrom(0) \in U BY <1>4
  <2> HIDE DEF U
  <2>3. Len(FileSeekHead(format.cues, 0)) \in Nat /\ Len(MetaHere) \in Nat /\ Len(IndexFrom(0)) \in Nat
    BY <1>1, <1>3, <2>1, <2>2
  <2>4. FrontLen(format.cues, IndexFrom(0)) \in Nat BY <2>3 DEF FrontLen
  <2> QED BY <2>3, <2>4 DEF FirstHere, FirstAt
<1> HIDE DEF U
<1>7. /\ (\A o \in Int : IndexFrom(o) \in U /\ Len(IndexFrom(o)) = Len(IndexFrom(0)))
      /\ \A cues, pos : pos \in Int => /\ FileSeekHead(cues, pos) \in U
                                       /\ Len(FileSeekHead(cues, pos)) = Len(FileSeekHead(cues, 0))
  BY <1>3, <1>4, <1>5
<1> QED BY <1>2, <1>3, <1>6, <1>7 DEF FileTyped, U

\* The file: its header, what is before its clusters, the clusters and what is after them.
FilePieces(head, before, after) ==
  /\ File = head \o ((before \o FileClusters) \o after)
  /\ head \in Seq(Cell) /\ before \in Seq(Cell) /\ after \in Seq(Cell) /\ FileClusters \in Seq(Cell)
  /\ head = AppendElement("EBML", <<Num(4)>>)
              \o AppendSizeWidth("Segment", Len((before \o FileClusters) \o after), Wide)
  /\ Len(before) = FirstHere
FilePieced(P) == \E head, before, after \in P : FilePieces(head, before, after)

LEMMA FileParted ==
  ASSUME SourceInv, NEW ids, NEW W, ids \cap TopWords = {}, FileTracks \subseteq Only(ids, W),
         IndexFrom(FirstHere) \in Only(ids, W)
  PROVE  FilePieced(Only(ids, W))
<1> DEFINE P == Only(ids, W)
           U == Seq(Cell)
           ebml == AppendElement("EBML", <<Num(4)>>)
           index == IndexFrom(FirstHere)
           tail == Junk("Tags")
           place == FirstHere + Len(FileClusters) + Len(tail)
           sh == FileSeekHead(format.cues, place)
           front == IF format.cues = "front" THEN index ELSE <<>>
           back == IF format.cues = "back" THEN index ELSE <<>>
           before == (sh \o MetaHere) \o front
           after == tail \o back
           body == (before \o FileClusters) \o after
           head == ebml \o AppendSizeWidth("Segment", Len(body), Wide)
<1>1. OnlyMade(ids, W) BY OnlyCells
<1>2. P \subseteq U /\ (\A x, y \in P : x \o y \in P) /\ <<>> \in P
  <2>1. <<>> \in Plain(ids)
    <3>1. PlainMade(ids) BY PlainCells
    <3> QED BY <3>1 DEF PlainMade
  <2> QED BY <1>1, <2>1 DEF OnlyMade
<1>3. FileTyped BY FileTypes
<1>4. FileClusters \in U BY ClustersMade
<1>5. \A x, y \in U : Len(x) \in Nat /\ x \o y \in U /\ Len(x \o y) = Len(x) + Len(y)
  <2> SUFFICES ASSUME NEW x \in U, NEW y \in U
               PROVE  Len(x) \in Nat /\ x \o y \in U /\ Len(x \o y) = Len(x) + Len(y)
    OBVIOUS
  <2>1. Joined(Cell, x, y) BY ConcatJoins
  <2> QED BY <2>1 DEF Joined
<1>6. place \in Int BY <1>3, <1>4, <1>5 DEF FileTyped
<1>7. MetaHere \in P /\ ebml \in P /\ tail \in P /\ sh \in P /\ \A n \in Int : AppendSizeWidth("Segment", n, Wide) \in P
  <2> HIDE DEF place
  <2> QED BY <1>6, MetaOnly
<1>8. index \in P OBVIOUS
<1>9. Len(sh) = Len(FileSeekHead(format.cues, 0)) /\ Len(index) = Len(IndexFrom(0))
  <2> HIDE DEF place
  <2> QED BY <1>3, <1>6 DEF FileTyped
<1>10. Len(front) = FrontLen(format.cues, IndexFrom(0)) BY <1>9 DEF FrontLen
<1>11. File = ebml \o AppendSizeWidth("Segment", Len((((before \o FileClusters) \o tail) \o back)), Wide)
                \o (((before \o FileClusters) \o tail) \o back)
  BY FileIs DEF FileWith
<1> HIDE DEF P, U, sh, index
<1>12. front \in P /\ back \in P BY <1>2, <1>8
<1> HIDE DEF front, back, ebml, tail
<1>13. before \in P /\ after \in P BY <1>2, <1>7, <1>12
<1>14. Len(before) = FirstHere
  <2>1. sh \in U /\ MetaHere \in U /\ front \in U BY <1>2, <1>7, <1>12
  <2>2. sh \o MetaHere \in U /\ Len(sh \o MetaHere) = Len(sh) + Len(MetaHere) BY <1>5, <2>1
  <2>3. Len(before) = Len(sh \o MetaHere) + Len(front) BY <1>5, <2>1, <2>2
  <2> QED BY <1>9, <1>10, <2>2, <2>3 DEF FirstHere, FirstAt
<1>15. after = tail \o back OBVIOUS
<1>16. tail \in U /\ back \in U /\ before \in U /\ after \in U BY <1>2, <1>7, <1>12, <1>13
<1> HIDE DEF before, after
<1>17. ((before \o FileClusters) \o tail) \o back = body
  <2> DEFINE x == before \o FileClusters
  <2>1. x \in U BY <1>4, <1>5, <1>16
  <2> HIDE DEF x
  <2>2. Regrouping(x, tail, back)
    <3>1. x \in Seq(Cell) /\ tail \in Seq(Cell) /\ back \in Seq(Cell) BY <1>16, <2>1 DEF U
    <3> QED BY <3>1, Associated
  <2>3. (x \o tail) \o back = x \o after BY <1>15, <2>2 DEF Regrouping
  <2> QED BY <2>3 DEF x
<1>18. body \in U /\ Len(body) \in Int
  <2>1. before \o FileClusters \in U BY <1>4, <1>5, <1>16
  <2>2. body \in U BY <1>5, <1>16, <2>1
  <2> HIDE DEF body
  <2> QED BY <1>5, <2>2
<1>19. File = head \o body BY <1>11, <1>17
<1>20. head \in P
  <2> HIDE DEF body
  <2> QED BY <1>2, <1>7, <1>18
<1>21. head \in U BY <1>2, <1>20
<1>22. FilePieces(head, before, after) BY <1>4, <1>14, <1>16, <1>19, <1>21 DEF FilePieces, ebml, U
<1> QED BY <1>13, <1>20, <1>22 DEF FilePieced, P

LEMMA FileOnly ==
  ASSUME SourceInv, NEW ids, NEW W, ids \cap TopWords = {}, ids \cap ClusterWords = {},
         FileTracks \subseteq Only(ids, W), IndexFrom(FirstHere) \in Only(ids, W)
  PROVE  File \in Only(ids, W)
<1> DEFINE P == Only(ids, W)
<1>1. OnlyMade(ids, W) BY OnlyCells
<1>2. FileClusters \in P
  <2>1. FileClusters \in Plain(ids) BY ClustersPlain DEF ClusterWords
  <2> QED BY <1>1, <2>1 DEF OnlyMade
<1>3. \A x, y \in P : x \o y \in P BY <1>1 DEF OnlyMade
<1>4. FilePieced(P) BY FileParted
<1> HIDE DEF P
<1>5. PICK head \in P, before \in P, after \in P : FilePieces(head, before, after) BY <1>4 DEF FilePieced
<1>6. before \o FileClusters \in P BY <1>2, <1>3
<1>7. (before \o FileClusters) \o after \in P BY <1>3, <1>6
<1>8. head \o ((before \o FileClusters) \o after) \in P BY <1>3, <1>7
<1>9. File = head \o ((before \o FileClusters) \o after) BY <1>5 DEF FilePieces
<1> QED BY <1>8, <1>9 DEF P

\* The headers of the file, and where its clusters are.
SegmentStart == Len(AppendElement("EBML", <<Num(4)>>)) + Wide
ClusterPlace(k) == SegmentStart + (FirstHere + ClusterStart(k))
FilePlaced ==
  /\ SegmentStart \in Nat /\ FirstHere \in Nat
  /\ \E n \in Nat : At(File, 0, AppendElement("EBML", <<Num(4)>>)) /\ n < Len(File)
                    /\ At(File, Len(AppendElement("EBML", <<Num(4)>>)), AppendSizeWidth("Segment", n, Wide))
  /\ \A k \in 1..Len(source) : /\ At(File, ClusterPlace(k), ClusterElement(k)) /\ ClusterStart(k) \in Nat
                               /\ FirstHere + ClusterStart(k) < Len(File)

LEMMA FilePlaces ==
  ASSUME SourceInv
  PROVE  FilePlaced
<1> DEFINE U == Seq(Cell)
           ebml == AppendElement("EBML", <<Num(4)>>)
<1>1. FilePieced(U)
  <2>1. \A x \in Seq(Cell) : x \in Only({}, {}) BY DEF Only, Marks
  <2>2. AudioTrack \in Int /\ 2 \in Int /\ VideoTrack \in Int /\ 1 \in Int BY DEF AudioTrack, VideoTrack
  <2>3. FileTracks \subseteq Only({}, {}) BY <2>1, <2>2, TrackIs DEF FileTracks
  <2>4. {} \cap TopWords = {} OBVIOUS
  <2>5. IndexFrom(FirstHere) \in Only({}, {})
    <3>1. FileTyped BY FileTypes
    <3> QED BY <2>1, <3>1 DEF FileTyped
  <2>6. FilePieced(Only({}, {})) BY <2>3, <2>4, <2>5, FileParted
  <2>7. Only({}, {}) \subseteq U BY DEF Only
  <2> HIDE DEF U
  <2> QED BY <2>6, <2>7 DEF FilePieced
<1> HIDE DEF U
<1>2. PICK head \in U, before \in U, after \in U : FilePieces(head, before, after) BY <1>1 DEF FilePieced
<1> DEFINE body == (before \o FileClusters) \o after
           seg == AppendSizeWidth("Segment", Len(body), Wide)
<1>3. /\ File = head \o body /\ head = ebml \o seg /\ Len(before) = FirstHere
      /\ head \in Seq(Cell) /\ before \in Seq(Cell) /\ after \in Seq(Cell) /\ FileClusters \in Seq(Cell)
  BY <1>2 DEF FilePieces
<1>4. FileTyped BY FileTypes
<1>5. before \o FileClusters \in Seq(Cell) /\ Len(before) \in Nat BY <1>3
<1>6. body \in Seq(Cell)
  <2> DEFINE x == before \o FileClusters
  <2> HIDE DEF x
  <2>1. x \in Seq(Cell) BY <1>5 DEF x
  <2>2. x \o after \in Seq(Cell) BY <1>3, <2>1
  <2> QED BY <2>2 DEF x
<1> DEFINE n == Len(body)
<1>7. n \in Nat /\ File \in Seq(Cell) /\ Len(File) = Len(head) + n /\ Len(head) \in Nat
  <2> HIDE DEF body
  <2>1. Joined(Cell, head, body) BY <1>3, <1>6, ConcatJoins
  <2> QED BY <1>3, <2>1 DEF Joined
<1>8. At(File, 0, File) BY <1>7, AtWhole
<1>9. At(File, 0, head) /\ At(File, Len(head), body)
  <2> HIDE DEF body
  <2>1. At(File, 0, head \o body) BY <1>3, <1>8
  <2>2. At(File, 0, head) /\ At(File, 0 + Len(head), body) BY <1>3, <1>6, <1>7, <2>1, AtParts
  <2> QED BY <1>7, <2>2
<1>10. Wide \in Nat /\ Wide > 0 BY EbmlAssumption
<1>11. ebml \in Seq(Cell) /\ seg \in Seq(Cell) /\ Len(seg) = Wide
  <2>1. "Segment" \in Ids BY DEF Ids
  <2>2. ebml \in Seq(Cell) BY <1>4 DEF FileTyped
  <2> HIDE DEF body, ebml
  <2> DEFINE m == Len(body)
  <2>4. m \in Int BY <1>7
  <2> HIDE DEF m
  <2>5. Marks(AppendSizeWidth("Segment", m, Wide), {}) \subseteq {0} /\ AppendSizeWidth("Segment", m, Wide) \in Seq(Cell)
        /\ Len(AppendSizeWidth("Segment", m, Wide)) = Wide
    BY <1>10, <2>1, <2>4, HeaderMarks
  <2>3. seg \in Seq(Cell) /\ Len(seg) = Wide BY <2>5 DEF m
  <2> QED BY <2>2, <2>3
<1> DEFINE h == Len(ebml)
<1>12. At(File, 0, ebml) /\ At(File, h, seg) /\ Len(head) = h + Wide /\ h \in Nat
  <2> HIDE DEF body, seg, ebml
  <2>1. At(File, 0, ebml \o seg) BY <1>3, <1>9
  <2>2. At(File, 0, ebml) /\ At(File, 0 + h, seg) /\ Len(ebml \o seg) = h + Len(seg) BY <1>7, <1>11, <2>1, AtParts
  <2>3. h \in Nat BY <1>11
  <2> QED BY <1>3, <1>11, <2>2, <2>3
<1>13. SegmentStart = Len(head) BY <1>12 DEF SegmentStart
<1>14. n < Len(File) BY <1>7, <1>10, <1>12
<1>15. At(File, Len(head) + FirstHere, FileClusters)
  <2> DEFINE x == before \o FileClusters
             p == Len(head)
  <2>1. x \in Seq(Cell) BY <1>5
  <2> HIDE DEF x
  <2>2. At(File, p, x)
    <3>1. At(File, p, x \o after) BY <1>9 DEF x
    <3> HIDE DEF p
    <3> QED BY <1>3, <1>7, <2>1, <3>1, AtParts
  <2> HIDE DEF p
  <2>3. At(File, p, before \o FileClusters) BY <2>2 DEF x
  <2>4. At(File, p + Len(before), FileClusters) BY <1>3, <1>7, <2>3, AtParts
  <2> QED BY <1>3, <2>4 DEF p
<1> HIDE DEF body, seg
<1> DEFINE ss == [k \in DOMAIN source |-> ClusterElement(k)]
           d == Len(head) + FirstHere
<1>16. /\ ss \in Seq(Seq(Cell)) /\ Len(ss) = Len(source) /\ \A k \in 1..Len(source) : ss[k] = ClusterElement(k)
  BY ClustersMade
<1>17. FileClusters = FlattenSeq(ss) BY DEF FileClusters
<1>18. DOMAIN source = 1..Len(source) /\ Len(source) \in Nat BY <1>4 DEF FileTyped
<1>19. ASSUME NEW k \in 1..Len(source) PROVE Start(ss, k) = ClusterStart(k)
  <2> DEFINE m == k - 1
             a == SubSeq(ss, 1, m)
             b == [j \in 1..m |-> ClusterElement(j)]
             V == Seq(Cell)
  <2>1. m \in Nat /\ m <= Len(ss) /\ \A j \in 1..m : j \in 1..Len(source) BY <1>16, <1>18
  <2>2. ss \in Seq(V) BY <1>16
  <2>3. ss \in [1..Len(source) -> V] /\ Len(ss) = Len(source)
    <3> HIDE DEF V, ss
    <3> QED BY <1>16, <2>2
  <2> HIDE DEF ss, V
  <2>4. a = [j \in 1..m |-> ss[j]]
    <3> HIDE DEF m
    <3>1. a = [j \in 1..(m - 1 + 1) |-> ss[1 + j - 1]] BY <2>1, <2>2
    <3>2. m - 1 + 1 = m BY <2>1
    <3>3. \A j \in 1..m : ss[1 + j - 1] = ss[j]
      <4>1. \A j \in 1..m : 1 + j - 1 = j BY <2>1
      <4> QED BY <4>1
    <3> QED BY <3>1, <3>2, <3>3
  <2>5. a = b BY <1>16, <2>1, <2>4
  <2> QED BY <2>5 DEF Start, ClusterStart
<1> HIDE DEF ss
<1>20. EachAt(File, d, ss)
  <2> HIDE DEF d
  <2>1. At(File, d, FlattenSeq(ss)) BY <1>15, <1>17 DEF d
  <2> QED BY <1>7, <1>16, <2>1, FlattenAt
<1>21. ASSUME NEW k \in 1..Len(source)
       PROVE  /\ At(File, ClusterPlace(k), ClusterElement(k)) /\ ClusterStart(k) \in Nat
              /\ FirstHere + ClusterStart(k) < Len(File)
  <2>1. At(File, d + Start(ss, k), ss[k]) BY <1>16, <1>20 DEF EachAt
  <2>2. ClusterStart(k) \in Nat /\ FirstHere \in Nat BY <1>4 DEF FileTyped
  <2>3. d + Start(ss, k) = ClusterPlace(k) BY <1>7, <1>13, <1>19, <2>2 DEF ClusterPlace
  <2>4. At(File, ClusterPlace(k), ClusterElement(k)) BY <1>16, <2>1, <2>3
  <2>5. ClusterElement(k) \in Seq(Cell)
    <3>1. ClusterMade(k) BY ClusterElementMade
    <3> QED BY <3>1 DEF ClusterMade
  <2>6. Len(ClusterElement(k)) \in Nat BY <2>5
  <2>7. ClusterPlace(k) + Len(ClusterElement(k)) <= Len(File) BY <2>4 DEF At
  <2>8. ClusterPlace(k) = Len(head) + (FirstHere + ClusterStart(k)) BY <1>13 DEF ClusterPlace
  <2>9. FirstHere + ClusterStart(k) < Len(File) BY <1>7, <1>10, <1>12, <2>2, <2>6, <2>7, <2>8
  <2> QED BY <2>2, <2>4, <2>9
<1>22. SegmentStart \in Nat /\ FirstHere \in Nat BY <1>4, <1>7, <1>13 DEF FileTyped
<1>23. At(File, 0, ebml) /\ n < Len(File) /\ At(File, h, AppendSizeWidth("Segment", n, Wide)) /\ n \in Nat
  BY <1>7, <1>12, <1>14 DEF seg
<1> QED BY <1>21, <1>22, <1>23 DEF FilePlaced

-----------------------------------------------------------------------------
(* What Open reads of a file.                                                 *)
SegOf(f) == LET ebml == ReadHeaderAt(f, 0) IN segment(f, ebml, ReadHeaderAt(f, ebml.w + ebml.size))
InfoEl(f) == LastOf(TopOf(f), "Info")
TracksEl(f) == LastOf(TopOf(f), "Tracks")
Entries(f) == Named(Children(f, TracksEl(f)), "TrackEntry")
Video(f) == parseTracks(f, Entries(f))
CuesEl(f) == readElement(f, cuesOffset(f, SegOf(f), TopOf(f)), "Cues")
Points(f) == Named(Children(f, CuesEl(f)), "CuePoint")
ParsedCues(f) == parseCues(f, Points(f), Video(f), SegOf(f).data)
Openable(f) ==
  /\ SegOf(f).ok /\ Has(TopOf(f), "Cluster") /\ Has(TopOf(f), "Info") /\ Has(TopOf(f), "Tracks")
  /\ Intact(f, InfoEl(f)) /\ Intact(f, TracksEl(f)) /\ CuesEl(f).id # "bad" /\ Intact(f, CuesEl(f))
  /\ Video(f) # 0 /\ ParsedCues(f) # <<>>
\* The source that is read.
SourceRead(f) ==
  LET src == Open(f)
      top == TopOf(f)
  IN  /\ src.ok /\ src.segData = SegOf(f).data /\ src.segEnd = SegOf(f).end /\ src.video = Video(f)
      /\ src.cues = ParsedCues(f) /\ src.duration = Value(f, Children(f, InfoEl(f)), "Duration")
      /\ src.info = Children(f, InfoEl(f)) /\ src.tracks = Children(f, TracksEl(f))
      /\ src.attachments = IF Has(top, "Attachments") THEN <<LastOf(top, "Attachments")>> ELSE <<>>
      /\ src.first = LastOf(top, "Cluster").from /\ src.ebmlHeader = SubSeq(f, 1, SegOf(f).header)

LEMMA OpenReads ==
  ASSUME NEW f
  PROVE  /\ Open(f).ok => Openable(f)
         /\ Openable(f) => SourceRead(f)
<1> DEFINE seg == SegOf(f)
           top == TopOf(f)
           infoEl == InfoEl(f)
           tracksEl == TracksEl(f)
           info == Children(f, infoEl)
           tracks == Children(f, tracksEl)
           video == Video(f)
           el == CuesEl(f)
           cues == ParsedCues(f)
<1>0. ~Failed.ok BY DEF Failed
<1>1. Open(f) = inSegment(f, seg) /\ top = Walk(f, seg.data, seg.end, {"Cluster"}) BY DEF Open, SegOf, TopOf
<1>2. inSegment(f, seg) = IF seg.ok THEN segmentSource(f, seg, top) ELSE Failed BY <1>1 DEF inSegment
<1>3. segmentSource(f, seg, top)
        = IF Has(top, "Cluster") /\ Has(top, "Info") /\ Has(top, "Tracks")
          THEN describedSource(f, seg, top, infoEl, tracksEl) ELSE Failed
  BY DEF segmentSource, InfoEl, TracksEl
<1>4. describedSource(f, seg, top, infoEl, tracksEl)
        = IF Intact(f, infoEl) /\ Intact(f, tracksEl) THEN indexedSource(f, seg, top, info, tracks, video, el) ELSE Failed
  BY DEF describedSource, Video, Entries, CuesEl
<1>5. indexedSource(f, seg, top, info, tracks, video, el)
        = IF el.id # "bad" /\ Intact(f, el) THEN sourceOf(f, seg, top, info, tracks, video, cues) ELSE Failed
  BY DEF indexedSource, ParsedCues, Points
<1>6. Openable(f) <=> /\ seg.ok /\ Has(top, "Cluster") /\ Has(top, "Info") /\ Has(top, "Tracks")
                      /\ Intact(f, infoEl) /\ Intact(f, tracksEl) /\ el.id # "bad" /\ Intact(f, el)
                      /\ video # 0 /\ cues # <<>>
  BY DEF Openable
<1>7. sourceOf(f, seg, top, info, tracks, video, cues)
        = IF video # 0 /\ cues # <<>>
          THEN [ok |-> TRUE, ebmlHeader |-> SubSeq(f, 1, seg.header),
                segData |-> seg.data, segEnd |-> seg.end, video |-> video, cues |-> cues,
                duration |-> Value(f, info, "Duration"), info |-> info, tracks |-> tracks,
                attachments |-> IF Has(top, "Attachments") THEN <<LastOf(top, "Attachments")>> ELSE <<>>,
                first |-> LastOf(top, "Cluster").from]
          ELSE Failed
  BY DEF sourceOf
<1> HIDE DEF seg, top, infoEl, tracksEl, video, el, cues
<1>8. Open(f).ok => Openable(f) BY <1>0, <1>1, <1>2, <1>3, <1>4, <1>5, <1>6, <1>7
<1>9. ASSUME Openable(f) PROVE SourceRead(f)
  <2> DEFINE s == sourceOf(f, seg, top, info, tracks, video, cues)
  <2>1. Open(f) = s BY <1>1, <1>2, <1>3, <1>4, <1>5, <1>6, <1>9
  <2>2. s = [ok |-> TRUE, ebmlHeader |-> SubSeq(f, 1, seg.header),
             segData |-> seg.data, segEnd |-> seg.end, video |-> video, cues |-> cues,
             duration |-> Value(f, info, "Duration"), info |-> info, tracks |-> tracks,
             attachments |-> IF Has(top, "Attachments") THEN <<LastOf(top, "Attachments")>> ELSE <<>>,
             first |-> LastOf(top, "Cluster").from]
    BY <1>6, <1>7, <1>9
  <2> HIDE DEF s, info, tracks
  <2>3. /\ s.ok /\ s.segData = seg.data /\ s.segEnd = seg.end /\ s.video = video /\ s.cues = cues
        /\ s.duration = Value(f, info, "Duration") /\ s.info = info /\ s.tracks = tracks
        /\ s.attachments = IF Has(top, "Attachments") THEN <<LastOf(top, "Attachments")>> ELSE <<>>
        /\ s.first = LastOf(top, "Cluster").from /\ s.ebmlHeader = SubSeq(f, 1, seg.header)
    BY <2>2
  <2> QED BY <2>1, <2>3 DEF SourceRead, seg, top, infoEl, tracksEl, video, cues, info, tracks
<1> QED BY <1>8, <1>9

-----------------------------------------------------------------------------
(* Elements that are read as they were written.                               *)
\* A child of an element that has these cells.
ChildAt(b, k, id, x) == k \in Elem /\ k.id = id /\ HeadedBy(b, k) /\ At(b, k.from, x) /\ k.to <= Len(b)

\* An element with two children.
TwoHeld(b, e, x, y, idx, idy) ==
  LET kids == Children(b, e)
  IN  /\ Intact(b, e) /\ e.to <= Len(b) /\ kids \in Seq(Elem) /\ Has(kids, idx) /\ Has(kids, idy)
      /\ ChildAt(b, LastOf(kids, idx), idx, x) /\ ChildAt(b, LastOf(kids, idy), idy, y)
      /\ \A i \in DOMAIN kids : kids[i].id = idy => kids[i] = LastOf(kids, idy)

LEMMA TwoChildren ==
  ASSUME NEW b, NEW e, NEW id, NEW x, NEW y, NEW idx, NEW idy, b \in Seq(Cell), Small(b), e \in Elem, HeadedBy(b, e),
         id \in Ids, x \in Seq(Cell), y \in Seq(Cell), Framed(b, x, idx), Framed(b, y, idy), idx # idy,
         idx # "bad", idy # "bad", At(b, e.from, AppendElement(id, x \o y))
  PROVE  TwoHeld(b, e, x, y, idx, idy)
<1> DEFINE U == Seq(Cell)
           ss == <<x, y>>
           ids == <<idx, idy>>
           kids == Children(b, e)
<1>1. x \in U /\ y \in U OBVIOUS
<1> HIDE DEF U
<1>2. ss \in Seq(U) /\ Len(ss) = 2 /\ ss[1] = x /\ ss[2] = y BY <1>1
<1>3. FlattenSeq(ss) = x \o y
  <2>1. <<x>> \in Seq(U) /\ ss = Append(<<x>>, y) BY <1>1
  <2>2. FlattenSeq(Append(<<x>>, y)) = FlattenSeq(<<x>>) \o y BY <1>1, <2>1, FlattenAppend DEF U
  <2>3. FlattenSeq(<<x>>) = x BY <1>1, FlattenSingle DEF U
  <2> QED BY <2>1, <2>2, <2>3
<1>4. ids[1] = idx /\ ids[2] = idy OBVIOUS
<1> HIDE DEF ss, ids
<1>5. 1..Len(ss) = {1, 2} BY <1>2
<1>6. \A i \in 1..Len(ss) : Framed(b, ss[i], ids[i]) /\ ids[i] # "bad" BY <1>2, <1>4, <1>5
<1>7. At(b, e.from, AppendElement(id, FlattenSeq(ss))) BY <1>3
<1>8. ss \in Seq(Seq(Cell)) BY <1>2 DEF U
<1>9. Held(b, kids, ss, ids, e.to) /\ e.to <= Len(b) BY <1>6, <1>7, <1>8, ChildrenHold
<1> HIDE DEF kids
<1>10. /\ Len(kids) = 2 /\ kids \in Seq(Elem)
       /\ kids[1] \in Elem /\ kids[1].id = idx /\ HeadedBy(b, kids[1]) /\ At(b, kids[1].from, x)
       /\ kids[2] \in Elem /\ kids[2].id = idy /\ HeadedBy(b, kids[2]) /\ At(b, kids[2].from, y)
       /\ kids[1].to <= e.to /\ kids[2].to <= e.to
  BY <1>2, <1>4, <1>5, <1>9 DEF Held
<1>11. DOMAIN kids = {1, 2} /\ 1..Len(kids) = {1, 2}
  <2> DEFINE T == Elem
  <2>1. kids \in Seq(T) BY <1>10
  <2> HIDE DEF T
  <2>2. DOMAIN kids = 1..2 BY <1>10, <2>1
  <2> QED BY <1>10, <2>2
<1>12. Has(kids, idx) /\ Has(kids, idy) BY <1>10, <1>11 DEF Has
<1>13. LastOf(kids, idx) = kids[1] /\ LastOf(kids, idy) = kids[2]
  <2>1. LastFound(kids, idx) /\ LastFound(kids, idy) BY <1>10, <1>12, LastIsOne
  <2> QED BY <1>10, <1>11, <2>1 DEF LastFound
<1>14. e.to \in Nat /\ kids[1].to \in Nat /\ kids[2].to \in Nat /\ Len(b) \in Nat BY <1>10 DEF Elem
<1>15. ~Malformed(kids, e.to)
  <2>1. \A i \in DOMAIN kids : kids[i].id # "bad" /\ ~(kids[i].to > e.to) BY <1>10, <1>11, <1>14
  <2> QED BY <2>1 DEF Malformed
<1>16. kids[1].to <= Len(b) /\ kids[2].to <= Len(b) BY <1>9, <1>10, <1>14
<1>17. \A i \in DOMAIN kids : kids[i].id = idy => kids[i] = LastOf(kids, idy) BY <1>10, <1>11, <1>13
<1>18. Intact(b, e) BY <1>15 DEF Intact, kids
<1>19. ChildAt(b, LastOf(kids, idx), idx, x) /\ ChildAt(b, LastOf(kids, idy), idy, y)
  BY <1>10, <1>13, <1>16 DEF ChildAt
<1> QED BY <1>9, <1>10, <1>12, <1>17, <1>18, <1>19 DEF TwoHeld, kids

\* A child that holds a number.
LEMMA ChildUint ==
  ASSUME NEW b, NEW k, NEW id, NEW v, b \in Seq(Cell), Small(b), id \in Ids, id # "bad",
         ChildAt(b, k, id, AppendUint(id, v)), v \in Nat, v < Pow(UintBase, Wide)
  PROVE  Uint(b, k) = v
<1>1. Prefix(b, b) BY PrefixWhole
<1>2. k \in Elem /\ k.id = id /\ HeadedBy(b, k) /\ At(b, k.from, AppendUint(id, v)) /\ k.to <= Len(b) BY DEF ChildAt
<1> QED BY <1>1, <1>2, NumberReads

LEMMA ChildWidth ==
  ASSUME NEW b, NEW k, NEW id, NEW v, b \in Seq(Cell), Small(b), id \in Ids, id # "bad",
         ChildAt(b, k, id, AppendUintWidth(id, v, Wide)), v \in Nat, v < Pow(UintBase, Wide)
  PROVE  Uint(b, k) = v
<1>1. Prefix(b, b) BY PrefixWhole
<1>2. k \in Elem /\ k.id = id /\ HeadedBy(b, k) /\ At(b, k.from, AppendUintWidth(id, v, Wide)) /\ k.to <= Len(b)
  BY DEF ChildAt
<1> QED BY <1>1, <1>2, WidthReads

\* A track of the file, wherever it is.
TrackSays(b, e, n, type) ==
  Intact(b, e) /\ videoNumber(b, Children(b, e)) = IF type = 1 THEN n ELSE 0

LEMMA TrackReads ==
  ASSUME NEW b, NEW e, NEW n, NEW type, b \in Seq(Cell), Small(b), e \in Elem, HeadedBy(b, e),
         n \in Nat, n < Pow(UintBase, Wide), type \in Nat, type < Pow(UintBase, Wide), At(b, e.from, FileTrack(n, type))
  PROVE  TrackSays(b, e, n, type)
<1> DEFINE x == AppendUint("TrackNumber", n)
           y == AppendUint("TrackType", type)
           kids == Children(b, e)
<1>1. {"TrackEntry", "TrackNumber", "TrackType"} \subseteq Ids BY DEF Ids
<1>2. x \in Seq(Cell) /\ y \in Seq(Cell) BY <1>1, UintType
<1>3. Framed(b, x, "TrackNumber") /\ Framed(b, y, "TrackType")
  <2>1. "TrackNumber" # "bad" /\ "TrackType" # "bad" OBVIOUS
  <2> QED BY <1>1, <2>1, UintFramed
<1>4. At(b, e.from, AppendElement("TrackEntry", x \o y)) BY DEF FileTrack
<1> HIDE DEF x, y
<1>5. TwoHeld(b, e, x, y, "TrackNumber", "TrackType")
  <2>1. "TrackNumber" # "bad" /\ "TrackType" # "bad" /\ "TrackNumber" # "TrackType" OBVIOUS
  <2> QED BY <1>1, <1>2, <1>3, <1>4, <2>1, TwoChildren
<1>6. /\ Intact(b, e) /\ Has(kids, "TrackNumber") /\ Has(kids, "TrackType")
      /\ ChildAt(b, LastOf(kids, "TrackNumber"), "TrackNumber", x) /\ ChildAt(b, LastOf(kids, "TrackType"), "TrackType", y)
  BY <1>5 DEF TwoHeld
<1>7. Value(b, kids, "TrackNumber") = n
  <2>1. Uint(b, LastOf(kids, "TrackNumber")) = n BY <1>1, <1>6, ChildUint DEF x
  <2> QED BY <1>6, <2>1 DEF Value
<1>8. Value(b, kids, "TrackType") = type
  <2>1. Uint(b, LastOf(kids, "TrackType")) = type BY <1>1, <1>6, ChildUint DEF y
  <2> QED BY <1>6, <2>1 DEF Value
<1>9. videoNumber(b, kids) = IF type = 1 THEN n ELSE 0 BY <1>7, <1>8 DEF videoNumber
<1> QED BY <1>6, <1>9 DEF TrackSays

\* Entries that are tracks of the file: the video is there when one of them is it.
TracksHere(b, entries) ==
  /\ entries \in Seq(Elem)
  /\ \A i \in 1..Len(entries) : HeadedBy(b, entries[i]) /\ \E u \in FileTracks : At(b, entries[i].from, u)
IsVideo(b, e) == At(b, e.from, FileTrack(VideoTrack, 1))

LEMMA TracksParsed ==
  ASSUME NEW b, NEW entries, b \in Seq(Cell), Small(b), TracksHere(b, entries)
  PROVE  /\ parseTracks(b, entries) # 0 => \E i \in 1..Len(entries) : IsVideo(b, entries[i])
         /\ (\E i \in 1..Len(entries) : IsVideo(b, entries[i])) => parseTracks(b, entries) = VideoTrack
<1> DEFINE n(i) == videoNumber(b, Children(b, entries[i]))
           video == {i \in DOMAIN entries : n(i) # 0}
<1>1. DOMAIN entries = 1..Len(entries) /\ \A i \in 1..Len(entries) : entries[i] \in Elem
  <2> DEFINE T == Elem
  <2>1. entries \in Seq(T) BY DEF TracksHere
  <2> HIDE DEF T
  <2>2. DOMAIN entries = 1..Len(entries) /\ \A i \in 1..Len(entries) : entries[i] \in T BY <2>1
  <2> QED BY <2>2 DEF T
<1>2. VideoTrack \in Nat /\ AudioTrack \in Nat /\ VideoTrack < Pow(UintBase, Wide) /\ AudioTrack < Pow(UintBase, Wide)
      /\ Pow(UintBase, Wide) \in Nat /\ 1 < Pow(UintBase, Wide) /\ 2 < Pow(UintBase, Wide)
  <2>1. Wide \in Nat /\ UintBase \in Nat /\ UintBase > 0 BY EbmlAssumption
  <2>2. Pow(UintBase, Wide) \in Nat BY <2>1, PowNat
  <2> QED BY <2>2, CutAssumption DEF VideoTrack, AudioTrack
<1>3. ASSUME NEW i \in 1..Len(entries)
      PROVE  /\ Intact(b, entries[i]) /\ n(i) \in {0, VideoTrack} /\ (n(i) # 0 => IsVideo(b, entries[i]))
             /\ (IsVideo(b, entries[i]) => n(i) = VideoTrack)
  <2> DEFINE e == entries[i]
  <2>1. e \in Elem /\ HeadedBy(b, e) /\ \E u \in FileTracks : At(b, e.from, u) BY <1>1 DEF TracksHere
  <2> HIDE DEF e
  <2>2. At(b, e.from, FileTrack(VideoTrack, 1)) => TrackSays(b, e, VideoTrack, 1)
    <3> DEFINE one == 1
    <3>1. one \in Nat /\ one < Pow(UintBase, Wide) /\ one = 1 BY <1>2
    <3> HIDE DEF one
    <3>2. At(b, e.from, FileTrack(VideoTrack, one)) => TrackSays(b, e, VideoTrack, one) BY <1>2, <2>1, <3>1, TrackReads
    <3> QED BY <3>1, <3>2
  <2>3. At(b, e.from, FileTrack(AudioTrack, 2)) => TrackSays(b, e, AudioTrack, 2)
    <3> DEFINE two == 2
    <3>1. two \in Nat /\ two < Pow(UintBase, Wide) /\ two = 2 BY <1>2
    <3> HIDE DEF two
    <3>2. At(b, e.from, FileTrack(AudioTrack, two)) => TrackSays(b, e, AudioTrack, two) BY <1>2, <2>1, <3>1, TrackReads
    <3> QED BY <3>1, <3>2
  <2>4. At(b, e.from, FileTrack(VideoTrack, 1)) \/ At(b, e.from, FileTrack(AudioTrack, 2)) BY <2>1 DEF FileTracks
  <2>5. VideoTrack # 0 /\ 2 # 1 BY DEF VideoTrack
  <2>6. Intact(b, e) BY <2>2, <2>3, <2>4 DEF TrackSays
  <2> DEFINE m == videoNumber(b, Children(b, e))
  <2>7. IsVideo(b, e) => m = VideoTrack BY <2>2 DEF TrackSays, IsVideo
  <2>8. ~IsVideo(b, e) => m = 0 BY <2>3, <2>4, <2>5 DEF TrackSays, IsVideo
  <2>9. m = n(i) BY DEF e
  <2> HIDE DEF m, n
  <2>10. Intact(b, e) /\ n(i) \in {0, VideoTrack} /\ (n(i) # 0 => IsVideo(b, e)) /\ (IsVideo(b, e) => n(i) = VideoTrack)
    BY <2>6, <2>7, <2>8, <2>9
  <2> QED BY <2>10 DEF e
<1>4. parseTracks(b, entries) = IF video = {} THEN 0 ELSE n(Min(video))
  <2>1. \A i \in DOMAIN entries : Intact(b, entries[i]) BY <1>1, <1>3
  <2> QED BY <2>1 DEF parseTracks
<1>5. video # {} => Min(video) \in video
  <2>1. video \subseteq Nat BY <1>1
  <2> HIDE DEF video
  <2> QED BY <2>1, SmallestNumber
<1> HIDE DEF n
<1>6. parseTracks(b, entries) # 0 => \E i \in 1..Len(entries) : IsVideo(b, entries[i])
  <2>1. parseTracks(b, entries) # 0 => \E i \in video : TRUE BY <1>4
  <2>2. \A i \in video : i \in 1..Len(entries) /\ n(i) # 0 BY <1>1
  <2> QED BY <1>3, <2>1, <2>2
<1>7. ASSUME NEW i \in 1..Len(entries), IsVideo(b, entries[i]) PROVE parseTracks(b, entries) = VideoTrack
  <2>1. n(i) # 0 BY <1>3, <1>7 DEF VideoTrack
  <2>2. i \in video BY <1>1, <2>1
  <2>3. Min(video) \in video BY <1>5, <2>2
  <2>4. \A j \in video : n(j) = VideoTrack BY <1>1, <1>3
  <2> HIDE DEF video
  <2>5. n(Min(video)) = VideoTrack BY <2>3, <2>4
  <2> QED BY <1>4, <2>2, <2>5
<1> QED BY <1>6, <1>7

-----------------------------------------------------------------------------
(* What the source is that is read of what there is of the file.              *)
\* Elements of f that say what they are.
SolidElem(f) == {e \in FileElem(f) : Solid(f, e)}
SolidNamed(f, id) == {e \in SolidElem(f) : e.id = id}

LEMMA SolidChildren ==
  ASSUME NEW f, NEW e, f \in Seq(Cell), e \in FileElem(f), Intact(f, e)
  PROVE  Children(f, e) \in Seq(SolidElem(f))
<1> DEFINE kids == Children(f, e)
<1>1. e \in Elem BY DEF FileElem
<1>2. Walked(f, kids, e.data, e.to, {}) /\ kids \in Seq(FileElem(f)) BY <1>1, ChildrenWalked, IntactChildren
<1>3. ~Malformed(kids, e.to) BY DEF Intact
<1> HIDE DEF kids
<1> DEFINE T == FileElem(f)
<1>4. kids \in Seq(T) BY <1>2
<1> HIDE DEF T
<1>5. DOMAIN kids = 1..Len(kids) /\ \A i \in 1..Len(kids) : kids[i] \in T BY <1>4
<1>6. ASSUME NEW i \in 1..Len(kids) PROVE kids[i] \in SolidElem(f)
  <2>1. kids[i].id # "bad" BY <1>3, <1>5 DEF Malformed
  <2>2. ElemOf(f, kids[i], e.data, e.to, {}) BY <1>2 DEF Walked
  <2>3. kids[i].id \notin {} \cup {"bad"} BY <2>1
  <2>4. kids[i].from < kids[i].data /\ kids[i].data <= kids[i].to /\ HeadedBy(f, kids[i])
    BY <2>2, <2>3 DEF ElemOf
  <2> QED BY <1>5, <2>1, <2>4 DEF SolidElem, Solid, T
<1>7. kids \in Seq(SolidElem(f)) BY <1>4, <1>5, <1>6
<1> QED BY <1>7 DEF kids

LEMMA SolidNames ==
  ASSUME NEW f, NEW es, NEW id, es \in Seq(SolidElem(f))
  PROVE  Named(es, id) \in Seq(SolidNamed(f, id))
<1> DEFINE T == SolidElem(f)
           W == SolidNamed(f, id)
           I == {i \in DOMAIN es : es[i].id = id}
<1>1. es \in Seq(T) OBVIOUS
<1>2. \A i \in 1..Len(es) : i \in I => es[i] \in W
  <2>1. \A i \in 1..Len(es) : es[i] \in SolidElem(f) BY <1>1
  <2> QED BY <2>1 DEF SolidNamed
<1> HIDE DEF T, W
<1>3. Where(es, I) \in Seq(W)
  <2> HIDE DEF I
  <2> QED BY <1>1, <1>2, WhereType
<1> QED BY <1>3 DEF Named, W

\* An element of what there is of the file is in it as it was written.
LEMMA ElementHere ==
  ASSUME NEW f, NEW F, NEW e, NEW id, NEW data, Prefix(f, F), Small(F), e \in SolidNamed(f, id), id \in Ids,
         data \in Seq(Cell), At(F, e.from, AppendElement(id, data))
  PROVE  At(f, e.from, AppendElement(id, data)) /\ Raw(f, e) = AppendElement(id, data)
<1> DEFINE x == AppendElement(id, data)
<1>1. e \in Elem /\ e.id = id /\ id # "bad" /\ HeadedBy(f, e) /\ e.to <= Len(f) /\ e.from \in Nat /\ e.to \in Nat
  BY DEF SolidNamed, SolidElem, Solid, FileElem, Elem
<1>2. f \in Seq(Cell) /\ F \in Seq(Cell) BY DEF Prefix
<1>3. ReadHeaderAt(f, e.from).id # "bad" BY <1>1 DEF HeadedBy
<1>4. ReadHeaderAt(F, e.from) = ReadHeaderAt(f, e.from) BY <1>1, <1>3, HeadIsMark DEF HeaderHere
<1>5. HeadedBy(F, e) BY <1>1, <1>4 DEF HeadedBy
<1>6. PayloadIs(F, e, data) BY <1>1, <1>2, <1>5, PayloadPlaced
<1>7. Len(x) = ElementLen(Len(data)) /\ x \in Seq(Cell) BY LenOfElement, ElementType
<1>8. e.from + Len(x) = e.to
  <2>1. Len(data) \in Nat OBVIOUS
  <2> HIDE DEF x
  <2> QED BY <1>6, <1>7, <2>1 DEF PayloadIs, ElementLen
<1> HIDE DEF x
<1>9. At(f, e.from, x)
  <2>1. At(F, e.from, x) BY DEF x
  <2> QED BY <1>1, <1>7, <1>8, <2>1, PrefixAt
<1>10. SubSeq(f, e.from + 1, e.from + Len(x)) = x BY <1>2, <1>7, <1>9, AtSlice
<1> QED BY <1>8, <1>9, <1>10 DEF Raw, x

\* What stands in the file where an element of what there is of it does.
LEMMA UnitHere ==
  ASSUME NEW f, NEW F, NEW e, NEW id, NEW W, Prefix(f, F), e \in SolidNamed(f, id), F \in Only({id}, W)
  PROVE  \E u \in W : u \in Seq(Cell) /\ At(F, e.from, u)
<1>1. e \in Elem /\ e.id = id /\ id # "bad" /\ HeadedBy(f, e) /\ e.from \in Nat
  BY DEF SolidNamed, SolidElem, Solid, FileElem, Elem
<1>2. ReadHeaderAt(f, e.from).id = id BY <1>1 DEF HeadedBy
<1>3. e.from \in Marks(F, {id}) BY <1>1, <1>2, HeadIsMark DEF HeaderHere
<1> QED BY <1>3 DEF Only

\* An entry for a track is one of the file's.
TrackHere(f, e) == \E u \in FileTracks : At(f, e.from, u) /\ Raw(f, e) = u

LEMMA EntryHere ==
  ASSUME SourceInv, NEW f, NEW e, Prefix(f, File), Small(File), e \in SolidNamed(f, "TrackEntry")
  PROVE  TrackHere(f, e)
<1> DEFINE ids == {"TrackEntry"}
<1>1. ids \cap TopWords = {} /\ ids \cap ClusterWords = {} /\ ids \cap PointIds = {} /\ ids \subseteq Ids
      /\ "CueClusterPosition" \notin ids /\ "CueClusterPosition" \in Ids
  BY DEF TopWords, ClusterWords, PointIds, Ids, SeekIds, InBlock, SpareIds
<1>2. VideoTrack \in Int /\ AudioTrack \in Int BY DEF VideoTrack, AudioTrack
<1>3. \A u \in FileTracks : u \in Seq(Cell) /\ Marks(u, ids) \subseteq {0}
  <2>1. FileTrack(VideoTrack, 1) \in Seq(Cell) /\ Marks(FileTrack(VideoTrack, 1), ids) \subseteq {0}
    <3> DEFINE one == 1
    <3>1. one \in Int OBVIOUS
    <3> HIDE DEF one
    <3>2. FileTrack(VideoTrack, one) \in Seq(Cell) /\ Marks(FileTrack(VideoTrack, one), ids) \subseteq {0}
      BY <1>2, <3>1, TrackIs
    <3> QED BY <3>2 DEF one
  <2>2. FileTrack(AudioTrack, 2) \in Seq(Cell) /\ Marks(FileTrack(AudioTrack, 2), ids) \subseteq {0}
    <3> DEFINE two == 2
    <3>1. two \in Int OBVIOUS
    <3> HIDE DEF two
    <3>2. FileTrack(AudioTrack, two) \in Seq(Cell) /\ Marks(FileTrack(AudioTrack, two), ids) \subseteq {0}
      BY <1>2, <3>1, TrackIs
    <3> QED BY <3>2 DEF two
  <2> QED BY <2>1, <2>2 DEF FileTracks
<1> HIDE DEF ids
<1>4. OnlyMade(ids, FileTracks) BY OnlyCells
<1>5. FileTracks \subseteq Only(ids, FileTracks) BY <1>3, <1>4 DEF OnlyMade
<1>6. IndexFrom(FirstHere) \in Only(ids, FileTracks)
  <2>1. FileTyped BY FileTypes
  <2> DEFINE offs == ClusterPlaces(FirstHere)
  <2>2. \A k \in 1..Len(source) : offs[k] \in Int
    <3>1. \A k \in 1..Len(source) : offs[k] = FirstHere + ClusterStart(k) BY <2>1 DEF FileTyped, ClusterPlaces
    <3>2. FirstHere \in Nat /\ \A k \in 1..Len(source) : ClusterStart(k) \in Nat BY <2>1 DEF FileTyped
    <3> HIDE DEF offs
    <3> QED BY <3>1, <3>2
  <2> HIDE DEF offs
  <2>3. \A k \in 1..Len(source) : PositionOf(offs[k]) \in Only(ids, FileTracks)
    <3> TAKE k \in 1..Len(source)
    <3>1. Wide \in Nat BY EbmlAssumption
    <3>2. Clear(PositionOf(offs[k]), ids) /\ PositionOf(offs[k]) \in Seq(Cell)
      BY <1>1, <2>2, <3>1, UintWidthMarks DEF PositionOf
    <3> QED BY <1>4, <3>2 DEF OnlyMade, Plain
  <2>4. CuesElement(offs) \in Only(ids, FileTracks) BY <1>1, <2>3, IndexOnly
  <2> QED BY <2>4 DEF IndexFrom, offs
<1>7. File \in Only(ids, FileTracks) BY <1>1, <1>5, <1>6, FileOnly
<1>8. PICK u \in FileTracks : At(File, e.from, u) BY <1>7, UnitHere DEF ids
<1>9. PICK n \in Int, type \in Int : u = FileTrack(n, type)
  <2>1. 1 \in Int /\ 2 \in Int OBVIOUS
  <2> QED BY <1>2, <2>1 DEF FileTracks
<1> DEFINE data == AppendUint("TrackNumber", n) \o AppendUint("TrackType", type)
<1>10. data \in Seq(Cell)
  <2>1. {"TrackNumber", "TrackType"} \subseteq Ids BY DEF Ids
  <2>2. AppendUint("TrackNumber", n) \in Seq(Cell) /\ AppendUint("TrackType", type) \in Seq(Cell)
    BY <2>1, UintType
  <2> QED BY <2>2
<1>11. u = AppendElement("TrackEntry", data) BY <1>9 DEF FileTrack
<1> HIDE DEF data
<1>12. "TrackEntry" \in Ids BY DEF Ids
<1>13. At(f, e.from, u) /\ Raw(f, e) = u BY <1>8, <1>10, <1>11, <1>12, ElementHere
<1> QED BY <1>13 DEF TrackHere

\* The cues of the source lead to its clusters.
ClusterPositions == {FirstHere + ClusterStart(k) : k \in 1..Len(source)}

LEMMA PositionHere ==
  ASSUME SourceInv, NEW f, NEW e, Prefix(f, File), Small(File), Len(File) < Pow(UintBase, Wide),
         e \in SolidNamed(f, "CueClusterPosition")
  PROVE  Uint(f, e) \in ClusterPositions
<1> DEFINE ids == {"CueClusterPosition"}
           W == {PositionOf(o) : o \in ClusterPositions}
<1>1. ids \cap TopWords = {} /\ ids \cap ClusterWords = {} /\ ids \cap PointIds = {}
      /\ "CueClusterPosition" \in Ids /\ "CueClusterPosition" # "bad"
  BY DEF TopWords, ClusterWords, PointIds, Ids, SeekIds, InBlock, SpareIds
<1>2. VideoTrack \in Int /\ AudioTrack \in Int BY DEF VideoTrack, AudioTrack
<1>3. FileTracks \subseteq Plain(ids)
  <2>1. FileTrack(VideoTrack, 1) \in Plain(ids)
    <3> DEFINE one == 1
    <3>1. one \in Int OBVIOUS
    <3> HIDE DEF one
    <3>2. FileTrack(VideoTrack, one) \in Plain(ids) BY <1>2, <3>1, TrackIs
    <3> QED BY <3>2 DEF one
  <2>2. FileTrack(AudioTrack, 2) \in Plain(ids)
    <3> DEFINE two == 2
    <3>1. two \in Int OBVIOUS
    <3> HIDE DEF two
    <3>2. FileTrack(AudioTrack, two) \in Plain(ids) BY <1>2, <3>1, TrackIs
    <3> QED BY <3>2 DEF two
  <2> QED BY <2>1, <2>2 DEF FileTracks
<1>4. ClusterPositions \subseteq Nat /\ \A o \in ClusterPositions : o < Len(File)
  <2>1. FilePlaced BY FilePlaces
  <2>2. FirstHere \in Nat /\ \A k \in 1..Len(source) : ClusterStart(k) \in Nat /\ FirstHere + ClusterStart(k) < Len(File)
    BY <2>1 DEF FilePlaced
  <2> QED BY <2>2 DEF ClusterPositions
<1>5. Wide \in Nat /\ Pow(UintBase, Wide) \in Nat
  <2>1. Wide \in Nat /\ UintBase \in Nat /\ UintBase > 0 BY EbmlAssumption
  <2> QED BY <2>1, PowNat
<1>6. \A o \in ClusterPositions : PositionOf(o) \in Seq(Cell) /\ Marks(PositionOf(o), ids) \subseteq {0}
  <2> TAKE o \in ClusterPositions
  <2>1. o % Pow(UintBase, Wide) \in Nat
    <3>1. o \in Nat BY <1>4
    <3>2. Pow(UintBase, Wide) > 0
      <4>1. UintBase \in Nat /\ UintBase > 0 /\ Wide \in Nat BY EbmlAssumption
      <4> QED BY <4>1, PowNat
    <3> QED BY <1>5, <3>1, <3>2
  <2> DEFINE c == Num(o % Pow(UintBase, Wide))
  <2>2. c \in Cell /\ c.is # "head" BY <2>1, NewCells DEF Num
  <2> HIDE DEF c
  <2>3. Clear(Cells(c, Wide), ids) /\ Cells(c, Wide) \in Seq(Cell) BY <1>5, <2>2, CellMarks
  <2>4. PositionOf(o) = AppendElement("CueClusterPosition", Cells(c, Wide)) BY DEF PositionOf, AppendUintWidth, c
  <2> QED BY <1>1, <2>3, <2>4, ElementMarks
<1> HIDE DEF ids
<1>7. OnlyMade(ids, W) BY OnlyCells
<1>8. \A o \in ClusterPositions : PositionOf(o) \in Only(ids, W)
  <2>1. \A u \in W : u \in Seq(Cell) /\ Marks(u, ids) \subseteq {0} BY <1>6
  <2> QED BY <1>7, <2>1 DEF OnlyMade
<1>9. FileTracks \subseteq Only(ids, W) BY <1>3, <1>7 DEF OnlyMade
<1> HIDE DEF W
<1>10. IndexFrom(FirstHere) \in Only(ids, W)
  <2>1. FileTyped BY FileTypes
  <2> DEFINE offs == ClusterPlaces(FirstHere)
  <2>2. \A k \in 1..Len(source) : offs[k] = FirstHere + ClusterStart(k) BY <2>1 DEF FileTyped, ClusterPlaces
  <2> HIDE DEF offs
  <2>3. \A k \in 1..Len(source) : offs[k] \in ClusterPositions BY <2>2 DEF ClusterPositions
  <2>4. \A k \in 1..Len(source) : PositionOf(offs[k]) \in Only(ids, W) BY <1>8, <2>3
  <2>5. CuesElement(offs) \in Only(ids, W) BY <1>1, <2>4, IndexOnly
  <2> QED BY <2>5 DEF IndexFrom, offs
<1>11. File \in Only(ids, W) BY <1>1, <1>9, <1>10, FileOnly
<1>12. PICK u \in W : At(File, e.from, u) BY <1>11, UnitHere DEF ids
<1>13. PICK o \in ClusterPositions : u = PositionOf(o) BY <1>12 DEF W
<1>14. o \in Nat /\ o < Pow(UintBase, Wide)
  <2>1. o \in Nat /\ o < Len(File) BY <1>4
  <2>2. Len(File) \in Nat BY DEF Prefix
  <2> QED BY <1>5, <2>1, <2>2
<1>15. e \in Elem /\ e.id = "CueClusterPosition" /\ HeadedBy(f, e) /\ e.to <= Len(f)
  BY DEF SolidNamed, SolidElem, Solid, FileElem
<1>16. At(File, e.from, AppendUintWidth("CueClusterPosition", o, Wide)) BY <1>12, <1>13 DEF PositionOf
<1>17. Uint(f, e) = o BY <1>1, <1>14, <1>15, <1>16, WidthReads
<1> QED BY <1>17

\* Cues of clusters of the source.
SourceCue(segData) == {c \in Cue : \E o \in ClusterPositions : c.off = segData + o}

LEMMA CueHere ==
  ASSUME SourceInv, NEW f, NEW time, NEW pos, NEW video, NEW segData, Prefix(f, File), Small(File),
         Len(File) < Pow(UintBase, Wide), time \in Nat, pos \in Seq(SolidElem(f)), segData \in Nat
  PROVE  cueAt(f, time, pos, video, segData) \in Seq(SourceCue(segData))
<1> DEFINE id == "CueClusterPosition"
<1>1. f \in Seq(Cell) BY DEF Prefix
<1>2. pos \in Seq(Elem)
  <2>1. SolidElem(f) \subseteq Elem BY DEF SolidElem, FileElem
  <2> QED BY <2>1
<1>3. CASE Has(pos, id)
  <2> DEFINE p == Value(f, pos, id)
  <2>1. PICK k \in 1..Len(pos) : LastOf(pos, id) = pos[k] /\ pos[k].id = id BY <1>2, <1>3, LastIsOne DEF LastFound
  <2>2. LastOf(pos, id) \in SolidNamed(f, id)
    <3>1. pos[k] \in SolidElem(f) OBVIOUS
    <3> QED BY <2>1, <3>1 DEF SolidNamed
  <2>3. Uint(f, LastOf(pos, id)) \in ClusterPositions BY <2>2, PositionHere
  <2>4. p \in ClusterPositions BY <1>3, <2>3 DEF Value
  <2>5. cueAt(f, time, pos, video, segData) \in {<<>>, <<[time |-> time, off |-> segData + p]>>} BY DEF cueAt
  <2>6. p \in Nat BY <1>1, <1>2, ValueNat
  <2> HIDE DEF p
  <2> DEFINE c == [time |-> time, off |-> segData + p]
             W == SourceCue(segData)
  <2>7. c \in W BY <2>4, <2>6 DEF SourceCue, Cue
  <2>8. cueAt(f, time, pos, video, segData) \in {<<>>, <<c>>} BY <2>5
  <2> HIDE DEF c, W
  <2>9. <<>> \in Seq(W) /\ <<c>> \in Seq(W) BY <2>7
  <2>10. cueAt(f, time, pos, video, segData) \in Seq(W) BY <2>8, <2>9
  <2> QED BY <2>10 DEF W
<1>4. CASE ~Has(pos, id)
  <2>1. cueAt(f, time, pos, video, segData) = <<>> BY <1>4 DEF cueAt
  <2> QED BY <2>1
<1> QED BY <1>3, <1>4

LEMMA CuesHere ==
  ASSUME SourceInv, NEW f, NEW kids, NEW video, NEW segData, Prefix(f, File), Small(File),
         Len(File) < Pow(UintBase, Wide), kids \in Seq(SolidElem(f)), segData \in Nat,
         \A i \in DOMAIN kids : kids[i].id = "CueTrackPositions" => Intact(f, kids[i])
  PROVE  cuesOf(f, kids, video, segData) \in Seq(SourceCue(segData))
<1> DEFINE at == Named(kids, "CueTrackPositions")
           T == {k \in SolidElem(f) : Intact(f, k)}
           U == SolidElem(f)
           I == {i \in DOMAIN kids : kids[i].id = "CueTrackPositions"}
<1>1. f \in Seq(Cell) BY DEF Prefix
<1>2. kids \in Seq(U) /\ U \subseteq Elem BY DEF SolidElem, FileElem
<1>3. \A i \in 1..Len(kids) : i \in I => kids[i] \in T
  <2>1. \A i \in 1..Len(kids) : kids[i] \in U BY <1>2
  <2> QED BY <2>1
<1> HIDE DEF U, T
<1>4. at \in Seq(T)
  <2> HIDE DEF I
  <2>1. Where(kids, I) \in Seq(T) BY <1>2, <1>3, WhereType
  <2> QED BY <2>1 DEF Named, I
<1> DEFINE time == Value(f, kids, "CueTime")
<1>5. time \in Nat
  <2>1. kids \in Seq(Elem) BY <1>2
  <2> QED BY <1>1, <2>1, ValueNat
<1> HIDE DEF time, at
<1>6. DOMAIN at = 1..Len(at) /\ Len(at) \in Nat /\ \A i \in 1..Len(at) : at[i] \in T BY <1>4
<1> DEFINE W == SourceCue(segData)
           g == [i \in DOMAIN at |-> cueAt(f, time, Children(f, at[i]), video, segData)]
<1>7. \A i \in 1..Len(at) : cueAt(f, time, Children(f, at[i]), video, segData) \in Seq(W)
  <2> TAKE i \in 1..Len(at)
  <2>1. at[i] \in FileElem(f) /\ Intact(f, at[i]) BY <1>6 DEF T, SolidElem
  <2>2. Children(f, at[i]) \in Seq(SolidElem(f)) BY <1>1, <2>1, SolidChildren
  <2> QED BY <1>5, <2>2, CueHere
<1> HIDE DEF W
<1>8. g \in [1..Len(at) -> Seq(W)] BY <1>6, <1>7
<1> HIDE DEF g
<1>9. FlattenSeq(g) \in Seq(W) BY <1>6, <1>8, FlattenOf
<1>10. cuesOf(f, kids, video, segData) = FlattenSeq(g) BY DEF cuesOf, g, at, time
<1> QED BY <1>9, <1>10 DEF W

LEMMA ParsedHere ==
  ASSUME SourceInv, NEW f, NEW points, NEW video, NEW segData, Prefix(f, File), Small(File),
         Len(File) < Pow(UintBase, Wide), points \in Seq(SolidElem(f)), segData \in Nat
  PROVE  parseCues(f, points, video, segData) \in Seq(SourceCue(segData))
<1> DEFINE broken(p) == ~Intact(f, p) \/ \E i \in DOMAIN Children(f, p) :
                          Children(f, p)[i].id = "CueTrackPositions" /\ ~Intact(f, Children(f, p)[i])
           W == SourceCue(segData)
<1>1. f \in Seq(Cell) BY DEF Prefix
<1>2. DOMAIN points = 1..Len(points) /\ Len(points) \in Nat /\ \A i \in 1..Len(points) : points[i] \in SolidElem(f)
  <2> DEFINE T == SolidElem(f)
  <2>1. points \in Seq(T) OBVIOUS
  <2> HIDE DEF T
  <2>2. DOMAIN points = 1..Len(points) /\ Len(points) \in Nat /\ \A i \in 1..Len(points) : points[i] \in T BY <2>1
  <2> QED BY <2>2 DEF T
<1>3. CASE \E i \in DOMAIN points : broken(points[i])
  <2>1. parseCues(f, points, video, segData) = <<>> BY <1>3 DEF parseCues
  <2> QED BY <2>1
<1>4. CASE ~\E i \in DOMAIN points : broken(points[i])
  <2> DEFINE g == [i \in DOMAIN points |-> cuesOf(f, Children(f, points[i]), video, segData)]
  <2>1. parseCues(f, points, video, segData) = SortByTime(FlattenSeq(g)) BY <1>4 DEF parseCues
  <2>2. \A i \in 1..Len(points) : cuesOf(f, Children(f, points[i]), video, segData) \in Seq(W)
    <3> TAKE i \in 1..Len(points)
    <3> DEFINE kids == Children(f, points[i])
    <3>1. Intact(f, points[i]) /\ \A j \in DOMAIN kids : kids[j].id = "CueTrackPositions" => Intact(f, kids[j])
      BY <1>2, <1>4
    <3>2. points[i] \in FileElem(f) BY <1>2 DEF SolidElem
    <3>3. kids \in Seq(SolidElem(f)) BY <1>1, <3>1, <3>2, SolidChildren
    <3> HIDE DEF kids
    <3>4. cuesOf(f, kids, video, segData) \in Seq(SourceCue(segData)) BY <3>1, <3>3, CuesHere
    <3> QED BY <3>4 DEF kids
  <2> HIDE DEF W, broken
  <2>3. g \in [1..Len(points) -> Seq(W)] BY <1>2, <2>2
  <2> HIDE DEF g
  <2>4. FlattenSeq(g) \in Seq(W) BY <1>2, <2>3, FlattenOf
  <2> DEFINE all == FlattenSeq(g)
  <2> HIDE DEF all
  <2>5. SortByTime(all) \in Seq(W) BY <2>4, SortType DEF all
  <2> QED BY <2>1, <2>5 DEF all, W
<1> QED BY <1>3, <1>4

\* Where the segment of the source starts.
SegmentHere(f) == SegOf(f).data = SegmentStart /\ SegmentOf(f, SegOf(f))

LEMMA SegmentIsHere ==
  ASSUME SourceInv, NEW f, Prefix(f, File), Small(File), SegOf(f).ok
  PROVE  SegmentHere(f)
<1> DEFINE ebml == ReadHeaderAt(f, 0)
           h == ReadHeaderAt(f, ebml.w + ebml.size)
           seg == segment(f, ebml, h)
           F == File
           data == <<Num(4)>>
           el == AppendElement("EBML", data)
<1>1. SegOf(f) = seg BY DEF SegOf
<1>2. f \in Seq(Cell) /\ F \in Seq(Cell) BY DEF Prefix
<1>3. ebml.id = "EBML" /\ ebml.size # UnknownSize /\ h.id = "Segment"
  <2> HIDE DEF h, ebml
  <2>1. seg.ok BY <1>1
  <2> QED BY <2>1 DEF segment
<1>4. HeaderOf(f, 0, ebml) BY <1>2, HeaderRead
<1>5. ebml.w + ebml.size \in Nat
  <2> HIDE DEF ebml
  <2> QED BY <1>3, <1>4 DEF HeaderOf
<1>6. HeaderOf(f, ebml.w + ebml.size, h)
  <2> HIDE DEF ebml
  <2> QED BY <1>2, <1>5, HeaderRead
<1>7. SegmentOf(f, seg)
  <2> HIDE DEF ebml, h
  <2>1. seg.ok BY <1>1
  <2> QED BY <1>2, <1>4, <1>6, <2>1, SegmentType
<1>8. FilePlaced BY FilePlaces
<1>9. PICK n \in Nat : /\ At(File, 0, el) /\ n < Len(File)
                       /\ At(File, Len(el), AppendSizeWidth("Segment", n, Wide))
  BY <1>8 DEF FilePlaced
<1>10. "EBML" \in Ids /\ "Segment" \in Ids /\ data \in Seq(Cell)
  <2>1. Num(4) \in Cell BY NewCells
  <2> QED BY <2>1 DEF Ids
<1>11. ReadHeaderAt(F, 0) = ebml
  <2>1. 0 \in Nat OBVIOUS
  <2>2. HeaderHere(f, F, 0, ebml) BY <1>3, <2>1, HeadIsMark
  <2> QED BY <2>2 DEF HeaderHere
<1>12. ebml.w + ebml.size = Len(el) /\ Len(el) \in Nat
  <2> HIDE DEF data, ebml
  <2>0. At(F, 0, AppendElement("EBML", data)) BY <1>9
  <2>1. el \in Seq(Cell) BY <1>10, ElementType
  <2> DEFINE to == 0 + Len(el)
  <2>2. Reads(F, 0, "EBML", data, to)
    <3> HIDE DEF F
    <3>1. At(F, 0, AppendElement("EBML", data)) BY <2>0
    <3>2. Small(F) BY DEF F
    <3> QED BY <1>2, <1>10, <3>1, <3>2, ElementAt
  <2>3. to = Len(el) /\ Len(el) \in Nat BY <2>1
  <2> HIDE DEF to, el
  <2>4. PICK w \in Nat : ReadHeaderAt(F, 0) = [id |-> "EBML", w |-> w, size |-> Len(data)] /\ to = 0 + w + Len(data)
    BY <2>2 DEF Reads
  <2>5. Len(data) \in Nat BY <1>10
  <2>6. ebml.w = w /\ ebml.size = Len(data) BY <1>11, <2>4
  <2> QED BY <2>3, <2>4, <2>5, <2>6
<1>13. ReadHeaderAt(F, Len(el)) = h
  <2> DEFINE p == ebml.w + ebml.size
  <2> HIDE DEF ebml
  <2>1. p \in Nat /\ p = Len(el) BY <1>12
  <2> HIDE DEF p
  <2>2. h = ReadHeaderAt(f, p) BY DEF p
  <2> HIDE DEF h
  <2>3. HeaderHere(f, F, p, h) BY <1>3, <2>1, <2>2, HeadIsMark
  <2> QED BY <2>1, <2>3 DEF HeaderHere
<1>14. h.w = Wide
  <2>1. Wide \in Nat /\ Wide > 0 /\ SizeBase \in Nat /\ SizeBase > 0 BY EbmlAssumption
  <2>2. Pow(SizeBase, Wide) \in Nat BY <2>1, PowNat
  <2>3. n < Pow(SizeBase, Wide) - 1
    <3>1. Len(File) < Pow(SizeBase, Wide) - 1 BY DEF Small
    <3>2. Len(File) \in Nat BY <1>2
    <3> QED BY <1>9, <2>2, <3>1, <3>2
  <2> DEFINE p == Len(el)
  <2>4. At(F, p, AppendSizeWidth("Segment", n, Wide)) BY <1>9
  <2>5. ReadHeaderAt(F, p) = h BY <1>13
  <2> HIDE DEF F, p, h
  <2>6. ReadHeaderAt(F, p) = [id |-> "Segment", w |-> Wide, size |-> n]
    BY <1>2, <1>10, <2>1, <2>3, <2>4, HeadAt
  <2> QED BY <2>5, <2>6
<1>15. seg.data = SegmentStart
  <2>1. seg.data = ebml.w + ebml.size + h.w BY DEF segment
  <2>2. SegmentStart = Len(el) + Wide BY DEF SegmentStart
  <2> HIDE DEF ebml, h, seg, el
  <2> QED BY <1>12, <1>14, <2>1, <2>2
<1> QED BY <1>1, <1>7, <1>15 DEF SegmentHere

\* The elements at the top of a file that can be opened.
TopHere(f) ==
  /\ SegmentOf(f, SegOf(f)) /\ Walked(f, TopOf(f), SegOf(f).data, SegOf(f).end, {"Cluster"}) /\ TopOf(f) \in Seq(Elem)
  /\ InfoEl(f) \in FileElem(f) /\ TracksEl(f) \in FileElem(f) /\ CuesEl(f) \in FileElem(f)

LEMMA TopIsHere ==
  ASSUME NEW f, f \in Seq(Cell), Openable(f), SegmentOf(f, SegOf(f))
  PROVE  TopHere(f)
<1> DEFINE seg == SegOf(f)
           top == TopOf(f)
<1>1. top = Walk(f, seg.data, seg.end, {"Cluster"}) BY DEF TopOf, SegOf
<1>2. seg.data \in Nat /\ seg.end \in Nat BY DEF SegmentOf
<1>3. Walked(f, top, seg.data, seg.end, {"Cluster"})
  <2> HIDE DEF seg, top
  <2>1. seg.end \in Int BY <1>2
  <2> QED BY <1>1, <1>2, <2>1, WalkElements
<1>4. top \in Seq(Elem) BY <1>3 DEF Walked
<1>5. Has(top, "Cluster") /\ Has(top, "Info") /\ Has(top, "Tracks") BY DEF Openable
<1>6. InfoEl(f) \in FileElem(f) /\ TracksEl(f) \in FileElem(f)
  <2>1. "Info" # "Cluster" /\ "Tracks" # "Cluster" OBVIOUS
  <2>2. LastOf(top, "Info") \in FileElem(f) /\ LastOf(top, "Tracks") \in FileElem(f)
    BY <1>3, <1>5, <2>1, TopElement
  <2> QED BY <2>2 DEF InfoEl, TracksEl
<1>7. CuesEl(f) \in FileElem(f)
  <2> DEFINE off == cuesOffset(f, seg, top)
  <2>1. off \in Nat BY <1>2, <1>4, CuesOffsetType
  <2>2. CuesEl(f) = readElement(f, off, "Cues") /\ CuesEl(f).id # "bad" BY DEF CuesEl, Openable
  <2> HIDE DEF off
  <2> QED BY <2>1, <2>2, ReadElementType
<1> QED BY <1>3, <1>4, <1>6, <1>7 DEF TopHere

\* The tracks of the source, its video among them.
TrackList(f, es) ==
  /\ es \in Seq(SolidElem(f)) /\ \A i \in 1..Len(es) : es[i].id = "TrackEntry" => Raw(f, es[i]) \in FileTracks
  /\ \E i \in 1..Len(es) : es[i].id = "TrackEntry" /\ Raw(f, es[i]) = FileTrack(VideoTrack, 1)
\* What is known of the source.
SourceKnown(f) ==
  LET src == Open(f)
  IN  /\ SourceRead(f) /\ TopHere(f) /\ Openable(f)
      /\ src.info \in Seq(SolidElem(f)) /\ TrackList(f, src.tracks) /\ src.video = VideoTrack /\ Cued(f, src)

LEMMA SourceTracks ==
  ASSUME SourceInv, NEW f, NEW es, Prefix(f, File), Small(File), Small(f), es \in Seq(SolidElem(f)),
         parseTracks(f, Named(es, "TrackEntry")) # 0
  PROVE  TrackList(f, es) /\ parseTracks(f, Named(es, "TrackEntry")) = VideoTrack
<1> DEFINE id == "TrackEntry"
           entries == Named(es, id)
           I == {i \in DOMAIN es : es[i].id = id}
           T == SolidElem(f)
<1>1. f \in Seq(Cell) BY DEF Prefix
<1>2. entries \in Seq(SolidNamed(f, id)) BY SolidNames
<1>3. es \in Seq(T) OBVIOUS
<1>4. Picked(entries, es, I)
  <2> HIDE DEF T, I
  <2>1. Picked(Where(es, I), es, I) BY <1>3, WherePicks
  <2> QED BY <2>1 DEF Named, I
<1>5. DOMAIN es = 1..Len(es) /\ \A i \in 1..Len(es) : es[i] \in T
  <2> HIDE DEF T
  <2> QED BY <1>3
<1>6. \A i \in 1..Len(es) : es[i].id = id => es[i] \in SolidNamed(f, id) BY <1>5 DEF SolidNamed
<1>7. \A i \in 1..Len(es) : es[i].id = id => TrackHere(f, es[i]) BY <1>6, EntryHere
<1> HIDE DEF entries
<1>8. \A j \in 1..Len(entries) : entries[j] \in SolidNamed(f, id)
  <2> DEFINE W == SolidNamed(f, id)
  <2>1. entries \in Seq(W) BY <1>2
  <2> HIDE DEF W
  <2>2. \A j \in 1..Len(entries) : entries[j] \in W BY <2>1
  <2> QED BY <2>2 DEF W
<1>9. TracksHere(f, entries)
  <2>1. entries \in Seq(Elem)
    <3>1. SolidNamed(f, id) \subseteq Elem BY DEF SolidNamed, SolidElem, FileElem
    <3> QED BY <1>2, <3>1
  <2>2. \A j \in 1..Len(entries) : HeadedBy(f, entries[j]) BY <1>8 DEF SolidNamed, SolidElem, Solid
  <2>3. \A j \in 1..Len(entries) : TrackHere(f, entries[j]) BY <1>8, EntryHere
  <2> QED BY <2>1, <2>2, <2>3 DEF TracksHere, TrackHere
<1>10. PICK j \in 1..Len(entries) : IsVideo(f, entries[j])
  <2>1. parseTracks(f, entries) # 0 BY DEF entries
  <2> QED BY <1>1, <1>9, <2>1, TracksParsed
<1>11. parseTracks(f, entries) = VideoTrack BY <1>1, <1>9, <1>10, TracksParsed
<1>12. PICK m : PickedBy(entries, es, I, m) BY <1>4 DEF Picked
<1>13. m[j] \in 1..Len(es) /\ entries[j] = es[m[j]] /\ es[m[j]].id = id BY <1>5, <1>10, <1>12 DEF PickedBy
<1>14. Raw(f, entries[j]) = FileTrack(VideoTrack, 1)
  <2> DEFINE e == entries[j]
             one == 1
  <2>1. e \in SolidNamed(f, id) /\ At(f, e.from, FileTrack(VideoTrack, one)) BY <1>8, <1>10 DEF IsVideo
  <2>2. VideoTrack \in Int /\ one \in Int BY DEF VideoTrack
  <2> HIDE DEF e, one
  <2> DEFINE data == AppendUint("TrackNumber", VideoTrack) \o AppendUint("TrackType", one)
  <2>3. data \in Seq(Cell)
    <3>1. {"TrackNumber", "TrackType"} \subseteq Ids BY DEF Ids
    <3>2. AppendUint("TrackNumber", VideoTrack) \in Seq(Cell) /\ AppendUint("TrackType", one) \in Seq(Cell)
      BY <2>2, <3>1, UintType
    <3> QED BY <3>2
  <2>4. FileTrack(VideoTrack, one) = AppendElement("TrackEntry", data) BY DEF FileTrack
  <2> HIDE DEF data
  <2>5. Prefix(f, f) /\ "TrackEntry" \in Ids BY <1>1, PrefixWhole DEF Ids
  <2>6. Raw(f, e) = AppendElement("TrackEntry", data) BY <2>1, <2>3, <2>4, <2>5, ElementHere
  <2> QED BY <2>4, <2>6 DEF e, one
<1>15. TrackList(f, es)
  <2>1. \A i \in 1..Len(es) : es[i].id = id => Raw(f, es[i]) \in FileTracks BY <1>7 DEF TrackHere
  <2>2. es[m[j]].id = id /\ Raw(f, es[m[j]]) = FileTrack(VideoTrack, 1) BY <1>13, <1>14
  <2> QED BY <1>13, <2>1, <2>2 DEF TrackList
<1> QED BY <1>11, <1>15 DEF entries

LEMMA ClusterHeadHere ==
  ASSUME SourceInv, NEW f, NEW k, Prefix(f, File), k \in 1..Len(source)
  PROVE  ReadHeaderAt(f, ClusterPlace(k)).id \in {"Cluster", "bad"}
<1> DEFINE p == ClusterPlace(k)
           F == File
           h == ReadHeaderAt(f, p)
           x == ClusterElement(k)
<1>1. FilePlaced BY FilePlaces
<1>2. At(F, p, x) BY <1>1 DEF FilePlaced
<1>3. p \in Nat BY <1>2 DEF At
<1>4. PICK n \in Int, y \in Seq(Cell) : x = AppendSizeWidth("Cluster", n, Wide) \o y
  <2> DEFINE t == source[k].ts
             rest == RestOf(k)
  <2>1. ClusterMade(k) BY ClusterElementMade
  <2>2. t \in Nat /\ rest \in Seq(Cell) /\ Clear(rest, {"Timestamp"}) BY <2>1 DEF ClusterMade, RestMade
  <2>3. x = IF format.live THEN AppendSizeWidth("Cluster", Pow(SizeBase, Wide) - 1, Wide) \o TimedBody(t, rest)
            ELSE AppendSizeWidth("Cluster", Len(TimedBody(t, rest)), Wide) \o TimedBody(t, rest)
    BY <2>1 DEF ClusterMade, TimedElement
  <2> HIDE DEF t, rest, x
  <2>4. TimedMade(t, rest) BY <2>2, TimedMarks
  <2>5. TimedBody(t, rest) \in Seq(Cell) BY <2>4 DEF TimedMade
  <2>6. Pow(SizeBase, Wide) - 1 \in Int
    <3>1. Wide \in Nat /\ SizeBase \in Nat /\ SizeBase > 0 BY EbmlAssumption
    <3>2. Pow(SizeBase, Wide) \in Nat BY <3>1, PowNat
    <3> QED BY <3>2
  <2> DEFINE n1 == Pow(SizeBase, Wide) - 1
             y == TimedBody(t, rest)
             n2 == Len(y)
  <2>7. n1 \in Int /\ n2 \in Int /\ y \in Seq(Cell) BY <2>5, <2>6
  <2>8. x = AppendSizeWidth("Cluster", n1, Wide) \o y \/ x = AppendSizeWidth("Cluster", n2, Wide) \o y BY <2>3
  <2> HIDE DEF n1, n2, y
  <2> QED BY <2>7, <2>8
<1>5. AppendSizeWidth("Cluster", n, Wide) \in Seq(Cell) /\ Len(AppendSizeWidth("Cluster", n, Wide)) = Wide
  BY <1>4, WideHeader DEF Ids
<1>6. Wide \in Nat /\ Wide > 0 BY EbmlAssumption
<1>7. x[1].id = "Cluster" /\ 1 \in 1..Len(x)
  <2> DEFINE a == AppendSizeWidth("Cluster", n, Wide)
  <2>1. a[1].id = "Cluster" BY <1>6 DEF AppendSizeWidth, Cells
  <2>2. a \in Seq(Cell) /\ Len(a) = Wide BY <1>5
  <2> HIDE DEF a, x
  <2>3. x = a \o y BY <1>4 DEF a
  <2>4. x[1] = a[1] /\ 1 \in 1..Len(x) BY <1>4, <1>6, <2>2, <2>3
  <2> QED BY <2>1, <2>4
<1> SUFFICES ASSUME h.id # "bad" PROVE h.id = "Cluster" OBVIOUS
<1>8. HeaderHere(f, F, p, h) BY <1>3, HeadIsMark
<1>9. p \in Marks(F, {h.id}) BY <1>8 DEF HeaderHere
<1> HIDE DEF x, p, h, F
<1>10. F[p + 1].id = h.id BY <1>9 DEF Marks
<1>11. F[p + 1] = x[1] BY <1>2, <1>7 DEF At
<1> QED BY <1>7, <1>10, <1>11

LEMMA SourceCued ==
  ASSUME SourceInv, NEW f, Prefix(f, File), Small(File), Len(File) < Pow(UintBase, Wide), Openable(f),
         TopHere(f), SegmentHere(f), SourceRead(f)
  PROVE  Cued(f, Open(f))
<1> DEFINE data == SegOf(f).data
           cues == Open(f).cues
           W == SourceCue(data)
<1>1. f \in Seq(Cell) BY DEF Prefix
<1>2. data = SegmentStart /\ data \in Nat BY DEF SegmentHere, SegmentOf
<1>3. CuesEl(f) \in FileElem(f) /\ Intact(f, CuesEl(f)) BY DEF TopHere, Openable
<1>4. Children(f, CuesEl(f)) \in Seq(SolidElem(f)) BY <1>1, <1>3, SolidChildren
<1>5. Points(f) \in Seq(SolidElem(f)) BY <1>4, NamedType DEF Points
<1>6. ParsedCues(f) \in Seq(W) BY <1>2, <1>5, ParsedHere DEF ParsedCues
<1>7. cues = ParsedCues(f) BY DEF SourceRead
<1> HIDE DEF cues, W, data
<1>8. cues \in Seq(W) BY <1>6, <1>7
<1>9. ASSUME NEW i \in 1..Len(cues) PROVE ReadHeaderAt(f, cues[i].off).id \in {"Cluster", "bad"}
  <2>1. cues[i] \in W BY <1>8
  <2>2. PICK o \in ClusterPositions : cues[i].off = data + o BY <2>1 DEF W, SourceCue
  <2>3. PICK k \in 1..Len(source) : o = FirstHere + ClusterStart(k) BY DEF ClusterPositions
  <2>4. cues[i].off = ClusterPlace(k) BY <1>2, <2>2, <2>3 DEF ClusterPlace
  <2> QED BY <2>4, ClusterHeadHere
<1> QED BY <1>9 DEF Cued, cues

LEMMA SourceIsKnown ==
  ASSUME SourceInv, NEW f, Prefix(f, File), Small(File), Len(File) < Pow(UintBase, Wide), Open(f).ok
  PROVE  SourceKnown(f)
<1> DEFINE src == Open(f)
<1>1. f \in Seq(Cell) BY DEF Prefix
<1>2. Openable(f) /\ SourceRead(f) BY OpenReads
<1>3. SegmentHere(f)
  <2>1. SegOf(f).ok BY <1>2 DEF Openable
  <2> QED BY <2>1, SegmentIsHere
<1>4. TopHere(f)
  <2>1. SegmentOf(f, SegOf(f)) BY <1>3 DEF SegmentHere
  <2> QED BY <1>1, <1>2, <2>1, TopIsHere
<1>5. Cued(f, src) BY <1>2, <1>3, <1>4, SourceCued
<1>6. Small(f)
  <2>1. Len(f) \in Nat /\ Len(File) \in Nat /\ Len(f) <= Len(File) BY DEF Prefix
  <2>2. Pow(SizeBase, Wide) \in Nat
    <3>1. Wide \in Nat /\ SizeBase \in Nat /\ SizeBase > 0 BY EbmlAssumption
    <3> QED BY <3>1, PowNat
  <2> QED BY <2>1, <2>2 DEF Small
<1>7. InfoEl(f) \in FileElem(f) /\ Intact(f, InfoEl(f)) /\ TracksEl(f) \in FileElem(f) /\ Intact(f, TracksEl(f))
  BY <1>2, <1>4 DEF TopHere, Openable
<1>8. Children(f, InfoEl(f)) \in Seq(SolidElem(f)) /\ Children(f, TracksEl(f)) \in Seq(SolidElem(f))
  BY <1>1, <1>7, SolidChildren
<1>9. /\ src.info = Children(f, InfoEl(f)) /\ src.tracks = Children(f, TracksEl(f)) /\ src.video = Video(f)
  BY <1>2 DEF SourceRead
<1> HIDE DEF src
<1>10. Video(f) # 0 BY <1>2 DEF Openable
<1>11. TrackList(f, src.tracks) /\ src.video = VideoTrack
  <2>1. Video(f) = parseTracks(f, Named(src.tracks, "TrackEntry")) BY <1>9 DEF Video, Entries
  <2>2. src.tracks \in Seq(SolidElem(f)) BY <1>8, <1>9
  <2>3. TrackList(f, src.tracks) /\ parseTracks(f, Named(src.tracks, "TrackEntry")) = VideoTrack
    BY <1>6, <1>10, <2>1, <2>2, SourceTracks
  <2> QED BY <1>9, <2>1, <2>3
<1>12. src.info \in Seq(SolidElem(f)) BY <1>8, <1>9
<1> QED BY <1>2, <1>4, <1>5, <1>11, <1>12 DEF SourceKnown, src

-----------------------------------------------------------------------------
(* What a clip takes over of its source.                                      *)
\* Whatever is picked is there.
LEMMA WhereHas ==
  ASSUME NEW T, NEW s, NEW I, NEW k, s \in Seq(T), k \in 1..Len(s), k \in I
  PROVE  \E j \in 1..Len(Where(s, I)) : Where(s, I)[j] = s[k]
<1> DEFINE U == Seq(T)
           pick == [i \in DOMAIN s |-> IF i \in I THEN <<s[i]>> ELSE <<>>]
           F == FlattenSeq(pick)
<1>1. DOMAIN s = 1..Len(s) /\ Len(s) \in Nat /\ \A i \in 1..Len(s) : s[i] \in T OBVIOUS
<1>2. \A x \in T : <<x>> \in U OBVIOUS
<1>3. <<>> \in U OBVIOUS
<1>4. pick \in [1..Len(s) -> U]
  <2> HIDE DEF U
  <2> QED BY <1>1, <1>2, <1>3
<1>5. pick[k] = <<s[k]>> /\ Len(<<s[k]>>) = 1 /\ <<s[k]>>[1] = s[k] BY <1>1
<1>6. Where(s, I) = F BY DEF Where
<1> HIDE DEF pick
<1>7. pick \in Seq(U) /\ Len(pick) = Len(s)
  <2> HIDE DEF U
  <2> QED BY <1>1, <1>4, FunctionIsSequence
<1>8. Flat(pick, F) BY <1>7, FlatPlaces
<1> HIDE DEF F
<1>9. PICK row, col : FlatBy(pick, F, row, col) BY <1>8 DEF Flat
<1>10. 1 \in 1..Len(pick[k]) /\ k \in 1..Len(pick) BY <1>5, <1>7
<1>11. PICK j \in 1..Len(F) : row[j] = k /\ col[j] = 1 BY <1>9, <1>10 DEF FlatBy
<1>12. F[j] = pick[k][1] BY <1>9, <1>11 DEF FlatBy
<1> QED BY <1>5, <1>6, <1>12

\* One thing more for each of a sequence.
LEMMA MapAppend ==
  ASSUME NEW T, NEW W, NEW h, NEW s, NEW e, s \in Seq(T), e \in T, \A x \in T : h[x] \in W
  PROVE  /\ [i \in DOMAIN Append(s, e) |-> h[Append(s, e)[i]]] = Append([i \in DOMAIN s |-> h[s[i]]], h[e])
         /\ [i \in DOMAIN s |-> h[s[i]]] \in Seq(W)
<1> DEFINE t == Append(s, e)
           n == Len(s)
           u == [i \in DOMAIN t |-> h[t[i]]]
           v == [i \in DOMAIN s |-> h[s[i]]]
           w == Append(v, h[e])
<1>1. DOMAIN s = 1..n /\ n \in Nat /\ \A i \in 1..n : s[i] \in T OBVIOUS
<1>2. t \in Seq(T) /\ Len(t) = n + 1 /\ DOMAIN t = 1..(n + 1) /\ t[n + 1] = e /\ \A i \in 1..n : t[i] = s[i] OBVIOUS
<1> HIDE DEF n, t
<1>3. v \in [1..n -> W] BY <1>1
<1>4. \A i \in 1..(n + 1) : t[i] \in T
  <2>1. \A i \in 1..(n + 1) : i = n + 1 \/ i \in 1..n BY <1>1
  <2> QED BY <1>1, <1>2, <2>1
<1>5. u \in [1..(n + 1) -> W] BY <1>2, <1>4
<1>6. (\A i \in 1..n : v[i] = h[s[i]]) /\ \A i \in 1..(n + 1) : u[i] = h[t[i]] BY <1>1, <1>2
<1> HIDE DEF v, u
<1>7. v \in Seq(W) /\ Len(v) = n BY <1>1, <1>3, FunctionIsSequence
<1>8. n + 1 \in Nat BY <1>1
<1>9. u \in Seq(W) /\ Len(u) = n + 1 BY <1>5, <1>8, FunctionIsSequence
<1>10. w \in Seq(W) /\ Len(w) = n + 1 /\ w[n + 1] = h[e] /\ \A i \in 1..n : w[i] = v[i] BY <1>7
<1> HIDE DEF w
<1>11. \A i \in 1..(n + 1) : u[i] = w[i]
  <2>1. \A i \in 1..(n + 1) : i = n + 1 \/ i \in 1..n BY <1>1
  <2> QED BY <1>2, <1>6, <1>10, <2>1
<1>12. u = w BY <1>9, <1>10, <1>11, SeqEqual
<1> QED BY <1>7, <1>12 DEF u, v, w, t

\* The raw elements of a row.
Raws(f, row) == [i \in DOMAIN row |-> Raw(f, row[i])]
LEMMA RawsType ==
  ASSUME NEW f, NEW row, f \in Seq(Cell), row \in Seq(SolidElem(f))
  PROVE  /\ Raws(f, row) \in Seq(Seq(Cell)) /\ Len(Raws(f, row)) = Len(row)
         /\ \A i \in 1..Len(row) : Raws(f, row)[i] = Raw(f, row[i]) /\ row[i] \in SolidElem(f)
<1> DEFINE U == Seq(Cell)
           T == SolidElem(f)
           g == Raws(f, row)
<1>1. DOMAIN row = 1..Len(row) /\ Len(row) \in Nat /\ \A i \in 1..Len(row) : row[i] \in T
  <2>1. row \in Seq(T) OBVIOUS
  <2> HIDE DEF T
  <2> QED BY <2>1
<1>2. \A x \in T : Raw(f, x) \in U BY RawType DEF SolidElem
<1> HIDE DEF U, T
<1>3. g \in [1..Len(row) -> U] /\ \A i \in 1..Len(row) : g[i] = Raw(f, row[i]) BY <1>1, <1>2 DEF Raws
<1> HIDE DEF g
<1>4. g \in Seq(U) /\ Len(g) = Len(row) BY <1>1, <1>3, FunctionIsSequence
<1> QED BY <1>1, <1>3, <1>4 DEF U, T, g

\* The elements that are copied.
RowCopied(f, es, dropped, row) ==
  /\ row \in Seq(SolidElem(f)) /\ Copied(f, es, dropped) = FlattenSeq(Raws(f, row))
  /\ \A j \in 1..Len(row) : row[j].id \notin dropped /\ \E i \in 1..Len(es) : row[j] = es[i]
  /\ \A i \in 1..Len(es) : es[i].id \notin dropped => \E j \in 1..Len(row) : row[j] = es[i]
HasCopied(f, es, dropped) == \E row : RowCopied(f, es, dropped, row)

LEMMA CopiedMore ==
  ASSUME NEW f, NEW s, NEW e, NEW dropped, f \in Seq(Cell), s \in Seq(SolidElem(f)), e \in SolidElem(f)
  PROVE  Copied(f, Append(s, e), dropped) = Copied(f, s, dropped) \o (IF e.id \in dropped THEN <<>> ELSE Raw(f, e))
<1> DEFINE T == SolidElem(f)
           W == Seq(Cell)
           h == [x \in T |-> IF x.id \in dropped THEN <<>> ELSE Raw(f, x)]
           t == Append(s, e)
           u == [i \in DOMAIN s |-> h[s[i]]]
           v == [i \in DOMAIN t |-> h[t[i]]]
<1>1. \A x \in T : h[x] \in W
  <2>1. <<>> \in W OBVIOUS
  <2>2. \A x \in T : Raw(f, x) \in W BY RawType DEF SolidElem
  <2> HIDE DEF W, T
  <2> QED BY <2>1, <2>2
<1>2. s \in Seq(T) /\ e \in T /\ t \in Seq(T)
  <2>1. s \in Seq(T) /\ e \in T OBVIOUS
  <2> HIDE DEF T
  <2> QED BY <2>1
<1>3. Copied(f, s, dropped) = FlattenSeq(u) /\ Copied(f, t, dropped) = FlattenSeq(v)
  <2>1. (\A i \in DOMAIN s : s[i] \in T) /\ \A i \in DOMAIN t : t[i] \in T
    <3> HIDE DEF T, t
    <3> QED BY <1>2
  <2>2. u = [i \in DOMAIN s |-> IF s[i].id \in dropped THEN <<>> ELSE Raw(f, s[i])]
        /\ v = [i \in DOMAIN t |-> IF t[i].id \in dropped THEN <<>> ELSE Raw(f, t[i])]
    <3> HIDE DEF T, t
    <3> QED BY <2>1
  <2> HIDE DEF u, v, t
  <2> QED BY <2>2 DEF Copied
<1>4. h[e] = IF e.id \in dropped THEN <<>> ELSE Raw(f, e)
  <2> HIDE DEF T
  <2> QED BY <1>2
<1> HIDE DEF h, T, W
<1>5. v = Append(u, h[e]) /\ u \in Seq(W) BY <1>1, <1>2, MapAppend DEF t
<1> HIDE DEF u, v, t
<1>6. h[e] \in W BY <1>1, <1>2
<1>7. FlattenSeq(Append(u, h[e])) = FlattenSeq(u) \o h[e]
  <2> DEFINE x == h[e]
  <2>1. x \in Seq(Cell) /\ u \in Seq(Seq(Cell)) BY <1>5, <1>6 DEF W
  <2> HIDE DEF x
  <2>2. FlattenSeq(Append(u, x)) = FlattenSeq(u) \o x BY <2>1, FlattenAppend
  <2> QED BY <2>2 DEF x
<1> QED BY <1>3, <1>4, <1>5, <1>7 DEF t

LEMMA RawsMore ==
  ASSUME NEW f, NEW row, NEW e, f \in Seq(Cell), row \in Seq(SolidElem(f)), e \in SolidElem(f)
  PROVE  FlattenSeq(Raws(f, Append(row, e))) = FlattenSeq(Raws(f, row)) \o Raw(f, e)
<1> DEFINE T == SolidElem(f)
           W == Seq(Cell)
           h == [x \in T |-> Raw(f, x)]
           t == Append(row, e)
           u == [i \in DOMAIN row |-> h[row[i]]]
           v == [i \in DOMAIN t |-> h[t[i]]]
           y == Raw(f, e)
<1>1. \A x \in T : h[x] \in W
  <2>1. \A x \in T : Raw(f, x) \in W BY RawType DEF SolidElem
  <2> HIDE DEF W, T
  <2> QED BY <2>1
<1>2. row \in Seq(T) /\ e \in T /\ t \in Seq(T)
  <2>1. row \in Seq(T) /\ e \in T OBVIOUS
  <2> HIDE DEF T
  <2> QED BY <2>1
<1>3. Raws(f, row) = u /\ Raws(f, t) = v
  <2>1. (\A i \in DOMAIN row : row[i] \in T) /\ \A i \in DOMAIN t : t[i] \in T
    <3> HIDE DEF T, t
    <3> QED BY <1>2
  <2> HIDE DEF T, t
  <2> QED BY <2>1 DEF Raws
<1>4. h[e] = y
  <2> HIDE DEF T
  <2> QED BY <1>2
<1> HIDE DEF h, T, W
<1>5. v = Append(u, h[e]) /\ u \in Seq(W) BY <1>1, <1>2, MapAppend DEF t
<1> HIDE DEF u, v, t
<1>6. y \in Seq(Cell) BY <1>1, <1>2, <1>4 DEF W
<1> HIDE DEF y
<1>7. v = Append(u, y) /\ u \in Seq(Seq(Cell)) BY <1>4, <1>5 DEF W
<1>8. FlattenSeq(v) = FlattenSeq(u) \o y BY <1>6, <1>7, FlattenAppend
<1> QED BY <1>3, <1>8 DEF t, y

LEMMA CopiedRow ==
  ASSUME NEW f, NEW es, NEW dropped, f \in Seq(Cell), es \in Seq(SolidElem(f))
  PROVE  HasCopied(f, es, dropped)
<1> DEFINE T == SolidElem(f)
           P == {s \in Seq(T) : HasCopied(f, s, dropped)}
           none == <<>>
<1>1. none \in P
  <2>1. none \in Seq(T) /\ Len(none) = 0 OBVIOUS
  <2>2. Copied(f, none, dropped) = none
    <3> DEFINE g == [i \in DOMAIN none |-> IF none[i].id \in dropped THEN <<>> ELSE Raw(f, none[i])]
    <3>1. g = <<>> OBVIOUS
    <3> HIDE DEF g
    <3>2. FlattenSeq(g) = <<>> BY <3>1, FlattenEmpty
    <3> QED BY <3>2 DEF Copied, g
  <2>3. FlattenSeq(Raws(f, none)) = none
    <3>1. Raws(f, none) = <<>> BY DEF Raws
    <3> QED BY <3>1, FlattenEmpty
  <2> HIDE DEF none
  <2>4. 1..Len(none) = {} BY <2>1
  <2>5. none \in Seq(SolidElem(f)) BY <2>1
  <2>6. RowCopied(f, none, dropped, none) BY <2>2, <2>3, <2>4, <2>5 DEF RowCopied
  <2> QED BY <2>1, <2>6 DEF HasCopied
<1>2. ASSUME NEW s \in Seq(T), NEW e \in T, s \in P PROVE Append(s, e) \in P
  <2> DEFINE t == Append(s, e)
  <2>1. PICK row : RowCopied(f, s, dropped, row) BY <1>2 DEF HasCopied
  <2>2. /\ row \in Seq(SolidElem(f)) /\ Copied(f, s, dropped) = FlattenSeq(Raws(f, row))
        /\ \A j \in 1..Len(row) : row[j].id \notin dropped /\ \E i \in 1..Len(s) : row[j] = s[i]
        /\ \A i \in 1..Len(s) : s[i].id \notin dropped => \E j \in 1..Len(row) : row[j] = s[i]
    BY <2>1 DEF RowCopied
  <2> HIDE DEF P
  <2>3. Copied(f, t, dropped) = Copied(f, s, dropped) \o (IF e.id \in dropped THEN <<>> ELSE Raw(f, e))
    BY CopiedMore
  <2>4. Copied(f, s, dropped) \in Seq(Cell)
    <3>1. s \in Seq(FileElem(f))
      <4>1. T \subseteq FileElem(f) BY DEF SolidElem
      <4> HIDE DEF T
      <4> QED BY <4>1
    <3> QED BY <3>1, CopiedType
  <2>5. t \in Seq(T) /\ Len(t) = Len(s) + 1 /\ Len(s) \in Nat /\ t[Len(s) + 1] = e /\ \A i \in 1..Len(s) : t[i] = s[i]
    <3> HIDE DEF T
    <3> QED OBVIOUS
  <2> DEFINE n == Len(s)
  <2>6. \A i \in 1..Len(t) : i = n + 1 \/ i \in 1..n
    <3> HIDE DEF t, n
    <3> QED BY <2>5 DEF n
  <2>7. (\A i \in 1..n : i \in 1..Len(t)) /\ n + 1 \in 1..Len(t)
    <3> HIDE DEF t
    <3> QED BY <2>5
  <2>8. CASE e.id \in dropped
    <3>1. Copied(f, t, dropped) = FlattenSeq(Raws(f, row))
      <4> DEFINE x == Copied(f, s, dropped)
      <4> HIDE DEF x, t
      <4>1. x \o <<>> = x BY <2>4 DEF x
      <4>2. Copied(f, t, dropped) = x \o <<>> BY <2>3, <2>8 DEF x
      <4> QED BY <2>2, <4>1, <4>2 DEF x
    <3> HIDE DEF t, n
    <3>2. \A j \in 1..Len(row) : row[j].id \notin dropped /\ \E i \in 1..Len(t) : row[j] = t[i]
      BY <2>2, <2>5, <2>7 DEF n
    <3>3. \A i \in 1..Len(t) : t[i].id \notin dropped => \E j \in 1..Len(row) : row[j] = t[i]
      BY <2>2, <2>5, <2>6, <2>8 DEF n
    <3>4. RowCopied(f, t, dropped, row) BY <2>2, <3>1, <3>2, <3>3 DEF RowCopied
    <3> QED BY <2>5, <3>4 DEF HasCopied, P, t
  <2>9. CASE e.id \notin dropped
    <3> DEFINE w == Append(row, e)
               m == Len(row)
    <3>1. FlattenSeq(Raws(f, w)) = FlattenSeq(Raws(f, row)) \o Raw(f, e) BY <2>2, RawsMore
    <3>2. Copied(f, t, dropped) = FlattenSeq(Raws(f, w))
      <4> HIDE DEF w, t
      <4> QED BY <2>2, <2>3, <2>9, <3>1
    <3>3. w \in Seq(T) /\ Len(w) = m + 1 /\ m \in Nat /\ w[m + 1] = e /\ \A j \in 1..m : w[j] = row[j]
      <4>1. row \in Seq(T) BY <2>2
      <4> HIDE DEF T
      <4> QED BY <4>1
    <3> HIDE DEF w, m
    <3>4. (\A j \in 1..Len(w) : j = m + 1 \/ j \in 1..m) /\ m + 1 \in 1..Len(w) /\ \A j \in 1..m : j \in 1..Len(w)
      BY <3>3
    <3> HIDE DEF t, n
    <3>5. \A j \in 1..m : row[j].id \notin dropped /\ \E i \in 1..n : row[j] = s[i] BY <2>2 DEF m, n
    <3>6. \A i \in 1..n : s[i].id \notin dropped => \E j \in 1..m : row[j] = s[i] BY <2>2 DEF m, n
    <3>7. t[n + 1] = e /\ \A i \in 1..n : t[i] = s[i] BY <2>5 DEF n
    <3>8. \A j \in 1..Len(w) : w[j].id \notin dropped /\ \E i \in 1..Len(t) : w[j] = t[i]
      BY <2>7, <2>9, <3>3, <3>4, <3>5, <3>7
    <3>9. \A i \in 1..Len(t) : t[i].id \notin dropped => \E j \in 1..Len(w) : w[j] = t[i]
      BY <2>6, <3>3, <3>4, <3>6, <3>7
    <3>10. RowCopied(f, t, dropped, w) BY <3>2, <3>3, <3>8, <3>9 DEF RowCopied
    <3> QED BY <2>5, <3>10 DEF HasCopied, P, t
  <2> QED BY <2>8, <2>9
<1> HIDE DEF T, P, none
<1>3. none \in P /\ none = <<>> BY <1>1 DEF none
<1>4. Seq(T) \subseteq P BY <1>2, <1>3, AppendInduction
<1>5. es \in Seq(T) BY DEF T
<1> QED BY <1>4, <1>5 DEF P

-----------------------------------------------------------------------------
(* A clip's infos, tracks and index are read as they were written.            *)
\* The children of an element, each with its cells.
WellHeld(b, kids, ss, ids, end) ==
  /\ kids \in Seq(Elem) /\ Len(ss) \in Nat /\ Len(kids) = Len(ss) /\ DOMAIN kids = 1..Len(ss) /\ ~Malformed(kids, end)
  /\ \A i \in 1..Len(ss) : ChildAt(b, kids[i], ids[i], ss[i])

LEMMA HeldWell ==
  ASSUME NEW b, NEW kids, NEW ss, NEW ids, NEW end, b \in Seq(Cell), end \in Nat, end <= Len(b),
         Held(b, kids, ss, ids, end), \A i \in 1..Len(ss) : ids[i] # "bad"
  PROVE  WellHeld(b, kids, ss, ids, end)
<1> DEFINE n == Len(ss)
<1>1. Len(kids) = n /\ kids \in Seq(Elem) BY DEF Held
<1>2. DOMAIN kids = 1..n /\ n \in Nat
  <2> DEFINE T == Elem
  <2>1. kids \in Seq(T) BY <1>1
  <2> HIDE DEF T, n
  <2> QED BY <1>1, <2>1
<1>3. \A i \in 1..n : /\ kids[i] \in Elem /\ kids[i].id = ids[i] /\ HeadedBy(b, kids[i])
                      /\ At(b, kids[i].from, ss[i]) /\ kids[i].to <= end
  BY DEF Held
<1>4. Len(b) \in Nat OBVIOUS
<1>5. \A i \in 1..n : kids[i].to \in Nat /\ kids[i].to <= Len(b)
  <2>1. \A i \in 1..n : kids[i].to \in Nat BY <1>3 DEF Elem
  <2> HIDE DEF n
  <2> QED BY <1>3, <1>4, <2>1
<1>6. \A i \in 1..n : ChildAt(b, kids[i], ids[i], ss[i]) BY <1>3, <1>5 DEF ChildAt
<1>7. ~Malformed(kids, end)
  <2>1. \A i \in 1..n : kids[i].id # "bad" /\ ~(kids[i].to > end) BY <1>3, <1>5
  <2> HIDE DEF n
  <2> QED BY <1>2, <2>1 DEF Malformed
<1> QED BY <1>1, <1>2, <1>6, <1>7 DEF WellHeld

\* The children of an element that has these elements one after the other.
Hears(b, e, ss, ids) == Intact(b, e) /\ e.to <= Len(b) /\ WellHeld(b, Children(b, e), ss, ids, e.to)

LEMMA ChildrenHeard ==
  ASSUME NEW b, NEW e, NEW id, NEW ss, NEW ids, b \in Seq(Cell), e \in Elem, HeadedBy(b, e), id \in Ids,
         ss \in Seq(Seq(Cell)), Small(b), At(b, e.from, AppendElement(id, FlattenSeq(ss))),
         \A i \in 1..Len(ss) : Framed(b, ss[i], ids[i]) /\ ids[i] # "bad"
  PROVE  Hears(b, e, ss, ids)
<1>1. Held(b, Children(b, e), ss, ids, e.to) /\ e.to <= Len(b) BY ChildrenHold
<1>2. e.to \in Nat BY DEF Elem
<1>3. WellHeld(b, Children(b, e), ss, ids, e.to) BY <1>1, <1>2, HeldWell
<1>4. Intact(b, e) BY <1>3 DEF Intact, WellHeld
<1> QED BY <1>1, <1>3, <1>4 DEF Hears

\* An element that is copied is one wherever it is.
LEMMA RawsFramed ==
  ASSUME NEW b, NEW f, NEW row, NEW i, b \in Seq(Cell), f \in Seq(Cell), row \in Seq(SolidElem(f)), i \in 1..Len(row)
  PROVE  Framed(b, Raws(f, row)[i], row[i].id) /\ row[i].id # "bad"
<1>1. Raws(f, row)[i] = Raw(f, row[i]) /\ row[i] \in SolidElem(f) BY RawsType
<1>2. row[i] \in FileElem(f) /\ Solid(f, row[i]) BY <1>1 DEF SolidElem
<1>3. Framed(b, Raw(f, row[i]), row[i].id) BY <1>2, RawFramed
<1> QED BY <1>1, <1>2, <1>3 DEF Solid

\* The infos of a clip say how long it is.
LEMMA InfoReads ==
  ASSUME NEW b, NEW f, NEW src, NEW origin, NEW endT, NEW title, NEW e, b \in Seq(Cell), f \in Seq(Cell), Small(b),
         src.info \in Seq(SolidElem(f)), endT - origin \in Nat, endT - origin < Pow(UintBase, Wide), title \in Cell,
         e \in Elem, HeadedBy(b, e), At(b, e.from, AppendElement("Info", InfoOf(f, src, origin, endT, title)))
  PROVE  Intact(b, e) /\ Value(b, Children(b, e), "Duration") = endT - origin
<1> DEFINE v == endT - origin
           D == AppendUintWidth("Duration", v, Wide)
           T == AppendElement("Title", <<title>>)
           C == Copied(f, src.info, Dropped)
           kids == Children(b, e)
           dur == "Duration"
<1>1. {"Duration", "Title", "Info"} \subseteq Ids BY DEF Ids
<1>2. HasCopied(f, src.info, Dropped) BY CopiedRow
<1>3. PICK row : RowCopied(f, src.info, Dropped, row) BY <1>2 DEF HasCopied
<1> DEFINE rs == Raws(f, row)
           n == Len(row)
<1>4. /\ row \in Seq(SolidElem(f)) /\ C = FlattenSeq(rs)
      /\ \A j \in 1..n : row[j].id \notin Dropped
  BY <1>3 DEF RowCopied
<1>5. rs \in Seq(Seq(Cell)) /\ Len(rs) = n BY <1>4, RawsType
<1>6. n \in Nat BY <1>4
<1>7. D \in Seq(Cell) /\ T \in Seq(Cell)
  <2>1. v \in Int /\ Wide \in Nat BY EbmlAssumption
  <2>2. D \in Seq(Cell) BY <1>1, <2>1, UintWidthType
  <2>3. <<title>> \in Seq(Cell) OBVIOUS
  <2> QED BY <1>1, <2>2, <2>3, ElementType
<1>8. Framed(b, D, "Duration") /\ Framed(b, T, "Title")
  <2>1. "Duration" # "bad" /\ "Title" # "bad" OBVIOUS
  <2>2. <<title>> \in Seq(Cell) OBVIOUS
  <2>3. Framed(b, T, "Title") BY <1>1, <2>1, <2>2, FramedElement
  <2>4. D = AppendElement("Duration", Cells(Num(v % Pow(UintBase, Wide)), Wide)) BY DEF AppendUintWidth
  <2>5. Cells(Num(v % Pow(UintBase, Wide)), Wide) \in Seq(Cell)
    <3>1. Pow(UintBase, Wide) \in Nat /\ Pow(UintBase, Wide) > 0 /\ Wide \in Nat BY EbmlAssumption, PowNat
    <3>2. v % Pow(UintBase, Wide) \in Nat BY <3>1, Remainder
    <3> QED BY <3>1, <3>2, NewCells, CellsType
  <2> QED BY <1>1, <2>1, <2>3, <2>4, <2>5, FramedElement
<1>9. InfoOf(f, src, origin, endT, title) = (C \o D) \o T BY DEF InfoOf
<1>10. \A i \in 1..n : Framed(b, rs[i], row[i].id) /\ row[i].id # "bad" BY <1>4, RawsFramed
<1> DEFINE s1 == Append(rs, D)
           ss == Append(s1, T)
           ids == [i \in 1..(n + 2) |-> IF i <= n THEN row[i].id ELSE IF i = n + 1 THEN dur ELSE "Title"]
<1> HIDE DEF v, D, T, C, rs
<1>11. s1 \in Seq(Seq(Cell)) /\ FlattenSeq(s1) = C \o D
  <2> HIDE DEF ss, ids
  <2>1. FlattenSeq(s1) = FlattenSeq(rs) \o D BY <1>5, <1>7, FlattenAppend
  <2>2. s1 \in Seq(Seq(Cell))
    <3> DEFINE W == Seq(Cell)
    <3>1. rs \in Seq(W) /\ D \in W BY <1>5, <1>7
    <3> HIDE DEF W
    <3>2. s1 \in Seq(W) BY <3>1
    <3> QED BY <3>2 DEF W
  <2> QED BY <1>4, <2>1, <2>2
<1>12. ss \in Seq(Seq(Cell)) /\ FlattenSeq(ss) = (C \o D) \o T
  <2> HIDE DEF s1
  <2>1. FlattenSeq(Append(s1, T)) = FlattenSeq(s1) \o T BY <1>7, <1>11, FlattenAppend
  <2> QED BY <1>7, <1>11, <2>1
<1>13. Len(ss) = n + 2 /\ ss[n + 1] = D /\ ss[n + 2] = T /\ \A i \in 1..n : ss[i] = rs[i]
  <2> DEFINE W == Seq(Cell)
  <2>1. rs \in Seq(W) /\ D \in W /\ T \in W BY <1>5, <1>7
  <2> HIDE DEF W, n
  <2>2. Len(s1) = n + 1 /\ s1 \in Seq(W) /\ s1[n + 1] = D /\ \A i \in 1..n : s1[i] = rs[i] BY <1>5, <1>6, <2>1
  <2> HIDE DEF s1
  <2>3. \A i \in 1..(n + 1) : ss[i] = s1[i] BY <1>6, <2>1, <2>2
  <2> QED BY <1>6, <2>1, <2>2, <2>3
<1> HIDE DEF ss, s1
<1>14. ids[n + 1] = dur /\ ids[n + 2] = "Title" /\ \A i \in 1..n : ids[i] = row[i].id
  <2> HIDE DEF n, dur
  <2> QED BY <1>6
<1> HIDE DEF ids, n
<1>15. \A i \in 1..(n + 2) : i \in 1..n \/ i = n + 1 \/ i = n + 2 BY <1>6
<1>16. \A i \in 1..Len(ss) : Framed(b, ss[i], ids[i]) /\ ids[i] # "bad"
  BY <1>8, <1>10, <1>13, <1>14, <1>15
<1>17. Hears(b, e, ss, ids)
  <2>1. At(b, e.from, AppendElement("Info", FlattenSeq(ss))) BY <1>9, <1>12
  <2> QED BY <1>1, <1>12, <1>16, <2>1, ChildrenHeard
<1>18. /\ Intact(b, e) /\ kids \in Seq(Elem) /\ DOMAIN kids = 1..(n + 2) /\ Len(kids) = n + 2
       /\ \A i \in 1..(n + 2) : ChildAt(b, kids[i], ids[i], ss[i])
  BY <1>13, <1>17 DEF Hears, WellHeld
<1> HIDE DEF kids
<1>19. n + 1 \in 1..(n + 2) BY <1>6
<1>20. Has(kids, dur)
  <2>1. kids[n + 1].id = dur BY <1>14, <1>18, <1>19 DEF ChildAt
  <2> QED BY <1>18, <1>19, <2>1 DEF Has
<1>21. PICK k \in 1..(n + 2) : LastOf(kids, dur) = kids[k] /\ kids[k].id = dur
  <2>1. LastFound(kids, dur) BY <1>18, <1>20, LastIsOne
  <2> QED BY <1>18, <2>1 DEF LastFound
<1>22. k = n + 1
  <2>1. ids[k] = dur BY <1>18, <1>21 DEF ChildAt
  <2>2. k \notin 1..n BY <1>4, <1>14, <2>1 DEF n, Dropped, dur
  <2>3. k # n + 2 BY <1>14, <2>1 DEF dur
  <2> QED BY <1>15, <2>2, <2>3
<1>23. ChildAt(b, kids[k], "Duration", D) BY <1>13, <1>14, <1>18, <1>22 DEF dur
<1>24. Uint(b, kids[k]) = v
  <2>1. "Duration" # "bad" OBVIOUS
  <2> QED BY <1>1, <1>23, <2>1, ChildWidth DEF D, v
<1>25. Value(b, kids, dur) = v BY <1>20, <1>21, <1>24 DEF Value
<1> QED BY <1>18, <1>25 DEF kids, v, dur

\* The elements with an id, and one of them.
LEMMA NamedWithin ==
  ASSUME NEW T, NEW W, NEW es, NEW id, es \in Seq(T), \A i \in 1..Len(es) : es[i].id = id => es[i] \in W
  PROVE  Named(es, id) \in Seq(W)
<1> DEFINE I == {j \in DOMAIN es : es[j].id = id}
<1>1. \A i \in 1..Len(es) : i \in I => es[i] \in W OBVIOUS
<1> HIDE DEF I
<1>2. Where(es, I) \in Seq(W) BY <1>1, WhereType
<1> QED BY <1>2 DEF Named, I

LEMMA NamedHas ==
  ASSUME NEW T, NEW es, NEW id, NEW k, es \in Seq(T), k \in 1..Len(es), es[k].id = id
  PROVE  \E j \in 1..Len(Named(es, id)) : Named(es, id)[j] = es[k]
<1> DEFINE I == {j \in DOMAIN es : es[j].id = id}
<1>1. k \in I OBVIOUS
<1> HIDE DEF I
<1>2. \E j \in 1..Len(Where(es, I)) : Where(es, I)[j] = es[k] BY <1>1, WhereHas
<1> QED BY <1>2 DEF Named, I

\* Something of one of a sequence is there in all of them.
LEMMA FlatHas ==
  ASSUME NEW T, NEW W, NEW s, NEW h, NEW k, s \in Seq(T), \A x \in T : h[x] \in Seq(W), k \in 1..Len(s), h[s[k]] # <<>>
  PROVE  /\ FlattenSeq([i \in DOMAIN s |-> h[s[i]]]) \in Seq(W)
         /\ FlattenSeq([i \in DOMAIN s |-> h[s[i]]]) # <<>>
<1> DEFINE g == [i \in DOMAIN s |-> h[s[i]]]
           n == Len(s)
           U == Seq(W)
           F == FlattenSeq(g)
<1>1. n \in Nat /\ DOMAIN s = 1..n /\ \A i \in 1..n : s[i] \in T OBVIOUS
<1>2. g \in [1..n -> U] /\ g[k] = h[s[k]]
  <2>1. \A x \in T : h[x] \in U OBVIOUS
  <2> HIDE DEF U, n
  <2> QED BY <1>1, <2>1 DEF n
<1> HIDE DEF g
<1>3. g \in Seq(U) /\ Len(g) = n
  <2> HIDE DEF U, n
  <2> QED BY <1>1, <1>2, FunctionIsSequence
<1>4. F \in Seq(W) BY <1>1, <1>2, FlattenOf
<1>5. Flat(g, F) BY <1>3, FlatPlaces DEF U
<1>6. PICK row, col : FlatBy(g, F, row, col) BY <1>5 DEF Flat
<1>7. g[k] \in Seq(W) /\ g[k] # <<>> BY <1>2, <1>3
<1>8. 1 \in 1..Len(g[k]) BY <1>7
<1>9. \E m \in 1..Len(F) : row[m] = k /\ col[m] = 1
  <2>1. \A i \in 1..Len(g[k]) : \E m \in 1..Len(F) : row[m] = k /\ col[m] = i
    <3>1. k \in 1..Len(g) BY <1>3
    <3> HIDE DEF F, n
    <3> QED BY <1>6, <3>1 DEF FlatBy
  <2> HIDE DEF F, n
  <2> QED BY <1>8, <2>1
<1>10. F # <<>>
  <2> HIDE DEF F
  <2>1. F \in Seq(W) BY <1>4
  <2> QED BY <1>9, <2>1
<1> QED BY <1>4, <1>10 DEF F, g

\* The tracks of a clip are the source's, the video among them.
LEMMA TracksRead ==
  ASSUME NEW b, NEW f, NEW src, NEW e, b \in Seq(Cell), f \in Seq(Cell), Small(b), TrackList(f, src.tracks),
         e \in Elem, HeadedBy(b, e), At(b, e.from, AppendElement("Tracks", TracksOf(f, src)))
  PROVE  Intact(b, e) /\ parseTracks(b, Named(Children(b, e), "TrackEntry")) = VideoTrack
<1> DEFINE dropped == {"CRC-32", "Void"}
           entry == "TrackEntry"
           kids == Children(b, e)
           es == src.tracks
           W == {k \in Elem : HeadedBy(b, k) /\ \E u \in FileTracks : At(b, k.from, u)}
           entries == Named(kids, entry)
<1>1. "Tracks" \in Ids BY DEF Ids
<1>2. /\ es \in Seq(SolidElem(f)) /\ \A i \in 1..Len(es) : es[i].id = entry => Raw(f, es[i]) \in FileTracks
      /\ \E i \in 1..Len(es) : es[i].id = entry /\ Raw(f, es[i]) = FileTrack(VideoTrack, 1)
  BY DEF TrackList
<1> HIDE DEF es
<1>3. HasCopied(f, es, dropped) BY <1>2, CopiedRow
<1>4. PICK row : RowCopied(f, es, dropped, row) BY <1>3 DEF HasCopied
<1> DEFINE rs == Raws(f, row)
           n == Len(row)
           ids == [i \in 1..n |-> row[i].id]
<1>5. /\ row \in Seq(SolidElem(f)) /\ TracksOf(f, src) = FlattenSeq(rs)
      /\ \A j \in 1..n : \E i \in 1..Len(es) : row[j] = es[i]
      /\ \A i \in 1..Len(es) : es[i].id \notin dropped => \E j \in 1..n : row[j] = es[i]
  BY <1>4 DEF RowCopied, TracksOf, es
<1>6. rs \in Seq(Seq(Cell)) /\ Len(rs) = n /\ \A i \in 1..n : rs[i] = Raw(f, row[i]) BY <1>5, RawsType
<1>7. n \in Nat BY <1>5
<1>8. \A i \in 1..Len(rs) : Framed(b, rs[i], ids[i]) /\ ids[i] # "bad"
  <2>1. \A i \in 1..n : Framed(b, rs[i], row[i].id) /\ row[i].id # "bad"
    <3> SUFFICES ASSUME NEW i \in 1..n PROVE Framed(b, rs[i], row[i].id) /\ row[i].id # "bad" OBVIOUS
    <3>1. row \in Seq(SolidElem(f)) /\ i \in 1..Len(row) BY <1>5
    <3> HIDE DEF n, ids
    <3> QED BY <3>1, RawsFramed
  <2> HIDE DEF rs, n
  <2> QED BY <1>6, <2>1
<1> HIDE DEF rs
<1>9. \A i \in 1..n : ids[i] = row[i].id OBVIOUS
<1> HIDE DEF ids, n
<1>10. Hears(b, e, rs, ids)
  <2>1. At(b, e.from, AppendElement("Tracks", FlattenSeq(rs))) BY <1>5
  <2> QED BY <1>1, <1>6, <1>8, <2>1, ChildrenHeard
<1>11. /\ Intact(b, e) /\ kids \in Seq(Elem) /\ Len(kids) = n
       /\ \A i \in 1..n : ChildAt(b, kids[i], ids[i], rs[i])
  BY <1>6, <1>10 DEF Hears, WellHeld
<1> HIDE DEF kids
<1>12. \A i \in 1..n : kids[i] \in Elem /\ kids[i].id = row[i].id /\ HeadedBy(b, kids[i]) /\ At(b, kids[i].from, Raw(f, row[i]))
  BY <1>6, <1>9, <1>11 DEF ChildAt
<1>13. \A i \in 1..Len(kids) : kids[i].id = entry => kids[i] \in W
  <2> SUFFICES ASSUME NEW i \in 1..Len(kids), kids[i].id = entry PROVE kids[i] \in W OBVIOUS
  <2>1. i \in 1..n BY <1>11
  <2>2. PICK j \in 1..Len(es) : row[i] = es[j] BY <1>5, <2>1
  <2>3. Raw(f, row[i]) \in FileTracks BY <1>2, <1>12, <2>1, <2>2
  <2> QED BY <1>12, <2>1, <2>3
<1>14. TracksHere(b, entries)
  <2> HIDE DEF entry
  <2>1. kids \in Seq(Elem) BY <1>11
  <2> DEFINE V == W
  <2>2. \A i \in 1..Len(kids) : kids[i].id = entry => kids[i] \in V BY <1>13
  <2> HIDE DEF V
  <2>3. entries \in Seq(V) BY <2>1, <2>2, NamedWithin
  <2> HIDE DEF entries
  <2>4. \A i \in 1..Len(entries) : entries[i] \in V BY <2>3
  <2>5. V \subseteq Elem BY DEF V
  <2>6. entries \in Seq(Elem) BY <2>3, <2>5
  <2>7. \A i \in 1..Len(entries) : HeadedBy(b, entries[i]) /\ \E u \in FileTracks : At(b, entries[i].from, u)
    BY <2>4 DEF V
  <2> QED BY <2>6, <2>7 DEF TracksHere
<1>15. \E i \in 1..Len(entries) : IsVideo(b, entries[i])
  <2>1. PICK i \in 1..Len(es) : es[i].id = entry /\ Raw(f, es[i]) = FileTrack(VideoTrack, 1) BY <1>2
  <2>2. es[i].id \notin dropped BY <2>1
  <2>3. PICK j \in 1..n : row[j] = es[i] BY <1>5, <2>2
  <2>4. kids[j].id = entry /\ At(b, kids[j].from, FileTrack(VideoTrack, 1)) /\ j \in 1..Len(kids) BY <1>11, <1>12, <2>1, <2>3
  <2>5. \E m \in 1..Len(entries) : entries[m] = kids[j]
    <3> HIDE DEF entry
    <3> DEFINE T == Elem
    <3>1. kids \in Seq(T) BY <1>11
    <3> HIDE DEF T
    <3> QED BY <2>4, <3>1, NamedHas
  <2> HIDE DEF entries
  <2> QED BY <2>4, <2>5 DEF IsVideo
<1> QED BY <1>11, <1>14, <1>15, TracksParsed DEF kids, entries

\* A cue point that leads to a place inside b.
PointElement(time, video, o) ==
  AppendElement("CuePoint", AppendUint("CueTime", time)
                              \o AppendElement("CueTrackPositions", AppendUint("CueTrack", video) \o PositionOf(o)))
PointLeads(b, p, video, segData) ==
  LET kids == Children(b, p)
  IN  /\ Intact(b, p) /\ \A i \in DOMAIN kids : kids[i].id = "CueTrackPositions" => Intact(b, kids[i])
      /\ cuesOf(b, kids, video, segData) # <<>>

LEMMA PositionsRead ==
  ASSUME NEW b, NEW e, NEW time, NEW video, NEW o, NEW segData, b \in Seq(Cell), Small(b), Len(b) < Pow(UintBase, Wide),
         e \in Elem, HeadedBy(b, e), video \in Nat, video < Pow(UintBase, Wide), o \in Nat, o < Len(b),
         At(b, e.from, AppendElement("CueTrackPositions", AppendUint("CueTrack", video) \o PositionOf(o)))
  PROVE  Intact(b, e) /\ cueAt(b, time, Children(b, e), video, segData) # <<>>
<1> DEFINE x == AppendUint("CueTrack", video)
           y == PositionOf(o)
           track == "CueTrack"
           place == "CueClusterPosition"
           kids == Children(b, e)
<1>1. {"CueTrack", "CueClusterPosition", "CueTrackPositions"} \subseteq Ids BY DEF Ids
<1>2. o < Pow(UintBase, Wide)
  <2>1. Len(b) \in Nat /\ Pow(UintBase, Wide) \in Nat BY EbmlAssumption, PowNat
  <2> QED BY <2>1
<1>3. x \in Seq(Cell) /\ y \in Seq(Cell)
  <2>1. Wide \in Nat BY EbmlAssumption
  <2> QED BY <1>1, <2>1, UintType, UintWidthType DEF PositionOf
<1>4. track # place /\ track # "bad" /\ place # "bad" OBVIOUS
<1>5. Framed(b, x, track) BY <1>1, <1>4, UintFramed
<1>6. Framed(b, y, place)
  <2>1. y = AppendElement("CueClusterPosition", Cells(Num(o % Pow(UintBase, Wide)), Wide))
    BY DEF AppendUintWidth, PositionOf
  <2>2. Cells(Num(o % Pow(UintBase, Wide)), Wide) \in Seq(Cell)
    <3>1. Pow(UintBase, Wide) \in Nat /\ Pow(UintBase, Wide) > 0 /\ Wide \in Nat BY EbmlAssumption, PowNat
    <3>2. o % Pow(UintBase, Wide) \in Nat BY <3>1, Remainder
    <3> QED BY <3>1, <3>2, NewCells, CellsType
  <2> QED BY <1>1, <1>4, <2>1, <2>2, FramedElement
<1>7. At(b, e.from, AppendElement("CueTrackPositions", x \o y)) OBVIOUS
<1> HIDE DEF x, y
<1>8. TwoHeld(b, e, x, y, track, place)
  <2> HIDE DEF track, place
  <2> QED BY <1>1, <1>3, <1>4, <1>5, <1>6, <1>7, TwoChildren
<1>9. /\ Intact(b, e) /\ Has(kids, track) /\ Has(kids, place)
      /\ ChildAt(b, LastOf(kids, track), track, x) /\ ChildAt(b, LastOf(kids, place), place, y)
  BY <1>8 DEF TwoHeld
<1> HIDE DEF kids
<1>10. Value(b, kids, track) = video
  <2>1. Uint(b, LastOf(kids, track)) = video BY <1>1, <1>4, <1>9, ChildUint DEF x
  <2> QED BY <1>9, <2>1 DEF Value
<1>11. Value(b, kids, place) = o
  <2>1. Uint(b, LastOf(kids, place)) = o BY <1>1, <1>2, <1>4, <1>9, ChildWidth DEF y, PositionOf
  <2> QED BY <1>9, <2>1 DEF Value
<1>12. cueAt(b, time, kids, video, segData) # <<>>
  <2>1. cueAt(b, time, kids, video, segData) = <<[time |-> time, off |-> segData + Value(b, kids, "CueClusterPosition")]>>
    BY <1>9, <1>10, <1>11 DEF cueAt
  <2> QED BY <2>1
<1> QED BY <1>9, <1>12 DEF kids

LEMMA PointReads ==
  ASSUME NEW b, NEW p, NEW time, NEW video, NEW o, NEW segData, b \in Seq(Cell), Small(b), Len(b) < Pow(UintBase, Wide),
         p \in Elem, HeadedBy(b, p), time \in Int, video \in Nat, video < Pow(UintBase, Wide), o \in Nat, o < Len(b),
         segData \in Nat, At(b, p.from, PointElement(time, video, o))
  PROVE  PointLeads(b, p, video, segData)
<1> DEFINE data == AppendUint("CueTrack", video) \o PositionOf(o)
           x == AppendUint("CueTime", time)
           y == AppendElement("CueTrackPositions", data)
           when == "CueTime"
           where == "CueTrackPositions"
           kids == Children(b, p)
<1>1. {"CueTrack", "CueClusterPosition", "CueTrackPositions", "CueTime", "CuePoint"} \subseteq Ids BY DEF Ids
<1>2. data \in Seq(Cell)
  <2> DEFINE u == AppendUint("CueTrack", video)
             v == PositionOf(o)
             W == Cell
  <2>1. Wide \in Nat BY EbmlAssumption
  <2>2. u \in Seq(W) /\ v \in Seq(W) BY <1>1, <2>1, UintType, UintWidthType DEF PositionOf
  <2> HIDE DEF u, v, W
  <2>3. u \o v \in Seq(W) BY <2>2
  <2> QED BY <2>3 DEF u, v, W
<1> HIDE DEF data
<1>3. x \in Seq(Cell) /\ y \in Seq(Cell) BY <1>1, <1>2, UintType, ElementType
<1>4. when # where /\ when # "bad" /\ where # "bad" OBVIOUS
<1>5. Framed(b, x, when) BY <1>1, <1>4, UintFramed
<1>6. Framed(b, y, where) BY <1>1, <1>2, <1>4, FramedElement
<1>7. At(b, p.from, AppendElement("CuePoint", x \o y)) BY DEF PointElement, data
<1> HIDE DEF x, y
<1>8. TwoHeld(b, p, x, y, when, where)
  <2> HIDE DEF when, where
  <2> QED BY <1>1, <1>3, <1>4, <1>5, <1>6, <1>7, TwoChildren
<1> DEFINE k == LastOf(kids, where)
<1>9. /\ Intact(b, p) /\ kids \in Seq(Elem) /\ Has(kids, where) /\ ChildAt(b, k, where, y)
      /\ \A i \in DOMAIN kids : kids[i].id = where => kids[i] = k
  BY <1>8 DEF TwoHeld
<1> HIDE DEF kids, k
<1>10. k \in Elem /\ HeadedBy(b, k) /\ At(b, k.from, AppendElement("CueTrackPositions", data)) /\ k.id = where
  BY <1>9 DEF ChildAt, y
<1> DEFINE t == Value(b, kids, "CueTime")
           h == [e \in Elem |-> cueAt(b, t, Children(b, e), video, segData)]
           at == Named(kids, where)
<1>11. Intact(b, k) /\ h[k] # <<>>
  <2>1. Intact(b, k) /\ cueAt(b, t, Children(b, k), video, segData) # <<>> BY <1>10, PositionsRead DEF data
  <2> QED BY <1>10, <2>1
<1>12. \A e \in Elem : h[e] \in Seq(Cue)
  <2> SUFFICES ASSUME NEW e \in Elem PROVE cueAt(b, t, Children(b, e), video, segData) \in Seq(Cue) OBVIOUS
  <2>1. Children(b, e) \in Seq(Elem) BY ChildrenWalked
  <2>2. t \in Nat BY <1>9, ValueNat
  <2> QED BY <2>1, <2>2, CueAtType
<1>13. PICK m \in 1..Len(kids) : kids[m] = k /\ m \in DOMAIN kids
  <2>1. LastFound(kids, where) BY <1>9, LastIsOne
  <2>2. PICK m \in 1..Len(kids) : LastOf(kids, where) = kids[m] BY <2>1 DEF LastFound
  <2>3. m \in DOMAIN kids
    <3> DEFINE T == Elem
    <3>1. kids \in Seq(T) BY <1>9
    <3> HIDE DEF T
    <3> QED BY <3>1
  <2> QED BY <2>2, <2>3 DEF k
<1>14. PICK j \in 1..Len(at) : at[j] = k
  <2> HIDE DEF where
  <2> DEFINE T == Elem
  <2>1. kids \in Seq(T) BY <1>9
  <2> HIDE DEF T
  <2>2. kids[m].id = where BY <1>10, <1>13
  <2>3. \E j \in 1..Len(Named(kids, where)) : Named(kids, where)[j] = kids[m] BY <2>1, <2>2, NamedHas
  <2> QED BY <1>13, <2>3
<1>15. at \in Seq(Elem) BY <1>9, NamedType
<1> HIDE DEF at
<1>16. cuesOf(b, kids, video, segData) = FlattenSeq([i \in DOMAIN at |-> h[at[i]]])
  <2>1. \A i \in DOMAIN at : at[i] \in Elem
    <3> DEFINE T == Elem
    <3>1. at \in Seq(T) BY <1>15
    <3> HIDE DEF T
    <3>2. \A i \in DOMAIN at : at[i] \in T BY <3>1
    <3> QED BY <3>2 DEF T
  <2>2. [i \in DOMAIN at |-> h[at[i]]] = [i \in DOMAIN at |-> cueAt(b, t, Children(b, at[i]), video, segData)]
    <3> HIDE DEF t
    <3> QED BY <2>1
  <2> HIDE DEF h
  <2> QED BY <2>2 DEF cuesOf, at, where
<1> HIDE DEF h
<1>17. FlattenSeq([i \in DOMAIN at |-> h[at[i]]]) # <<>>
  <2> DEFINE T == Elem
             V == Cue
  <2>1. at \in Seq(T) /\ \A e \in T : h[e] \in Seq(V) BY <1>12, <1>15
  <2>2. j \in 1..Len(at) /\ h[at[j]] # <<>> BY <1>11, <1>14
  <2> HIDE DEF T, V
  <2> QED BY <2>1, <2>2, FlatHas
<1>18. \A i \in DOMAIN kids : kids[i].id = "CueTrackPositions" => Intact(b, kids[i]) BY <1>9, <1>11
<1> QED BY <1>9, <1>16, <1>17, <1>18 DEF PointLeads, kids

\* The new index is read as one that leads to the clip.
LEMMA PointsRead ==
  ASSUME NEW b, NEW points, NEW video, NEW segData, b \in Seq(Cell), points \in Seq(Elem), segData \in Nat,
         points # <<>>, \A i \in 1..Len(points) : PointLeads(b, points[i], video, segData)
  PROVE  parseCues(b, points, video, segData) # <<>>
<1> DEFINE h == [p \in Elem |-> cuesOf(b, Children(b, p), video, segData)]
           g == [i \in DOMAIN points |-> h[points[i]]]
           F == FlattenSeq(g)
<1>1. DOMAIN points = 1..Len(points) /\ Len(points) \in Nat /\ 1 \in 1..Len(points) /\ \A i \in 1..Len(points) : points[i] \in Elem
  <2> DEFINE T == Elem
  <2>1. points \in Seq(T) OBVIOUS
  <2> HIDE DEF T
  <2>2. DOMAIN points = 1..Len(points) /\ Len(points) \in Nat /\ 1 \in 1..Len(points) /\ \A i \in 1..Len(points) : points[i] \in T
    BY <2>1
  <2> QED BY <2>2 DEF T
<1>2. \A p \in Elem : h[p] \in Seq(Cue)
  <2> SUFFICES ASSUME NEW p \in Elem PROVE cuesOf(b, Children(b, p), video, segData) \in Seq(Cue) OBVIOUS
  <2>1. Children(b, p) \in Seq(Elem) BY ChildrenWalked
  <2> QED BY <2>1, CuesOfType
<1>3. h[points[1]] # <<>> BY <1>1 DEF PointLeads
<1>4. g = [i \in DOMAIN points |-> cuesOf(b, Children(b, points[i]), video, segData)] BY <1>1
<1>5. F \in Seq(Cue) /\ F # <<>>
  <2> DEFINE T == Elem
             V == Cue
  <2>1. points \in Seq(T) /\ \A p \in T : h[p] \in Seq(V) BY <1>2
  <2> HIDE DEF T, V, h
  <2>2. F \in Seq(V) /\ F # <<>> BY <1>1, <1>3, <2>1, FlatHas
  <2> QED BY <2>2 DEF V
<1> HIDE DEF h
<1>6. parseCues(b, points, video, segData) = SortByTime(F)
  <2>1. \A i \in DOMAIN points : /\ Intact(b, points[i])
                                 /\ \A j \in DOMAIN Children(b, points[i]) :
                                      Children(b, points[i])[j].id = "CueTrackPositions" => Intact(b, Children(b, points[i])[j])
    BY <1>1 DEF PointLeads
  <2> HIDE DEF g
  <2> QED BY <1>4, <2>1 DEF parseCues
<1> HIDE DEF F
<1> DEFINE V == Cue
<1>7. F \in Seq(V) BY <1>5
<1> HIDE DEF V
<1>8. SortByTime(F) # <<>> BY <1>5, <1>7, SortType
<1> QED BY <1>6, <1>8

LEMMA NewPointIs ==
  ASSUME NEW src, NEW clusters, NEW offs, NEW origin, NEW cue
  PROVE  AppendElement("CuePoint", NewPoint(src, clusters, offs, origin, cue))
           = PointElement(cue.time - origin, src.video, offs[CHOOSE i \in DOMAIN clusters : clusters[i].off = cue.off])
BY DEF NewPoint, NewPosition, PointElement, PositionOf

\* The positions are inside the clip.
PlacesIn(b, clusters, pos) == \A i \in DOMAIN clusters : pos[i] \in Nat /\ pos[i] < Len(b)

LEMMA IndexReads ==
  ASSUME NEW b, NEW src, NEW clusters, NEW pos, NEW origin, NEW endT, NEW e, NEW segData,
         b \in Seq(Cell), Small(b), Len(b) < Pow(UintBase, Wide), src.cues \in Seq(Cue), src.video \in Nat,
         src.video < Pow(UintBase, Wide), origin \in Nat, PlacesIn(b, clusters, pos), segData \in Nat,
         Inside(src, clusters, origin, endT) # <<>>, e \in Elem, HeadedBy(b, e),
         At(b, e.from, cuesElement(src, clusters, pos, origin, endT))
  PROVE  Intact(b, e) /\ parseCues(b, Named(Children(b, e), "CuePoint"), src.video, segData) # <<>>
<1> DEFINE inside == Inside(src, clusters, origin, endT)
           points == NewPoints(src, clusters, pos, origin, endT)
           n == Len(inside)
           point == "CuePoint"
           ids == [i \in 1..n |-> point]
           kids == Children(b, e)
           at(c) == CHOOSE i \in DOMAIN clusters : clusters[i].off = c.off
<1>1. {"Cues", "CuePoint", "CueTime", "CueTrackPositions", "CueTrack", "CueClusterPosition"} \subseteq Ids BY DEF Ids
<1>2. \A i \in DOMAIN clusters : pos[i] \in Nat /\ pos[i] < Len(b) /\ pos[i] \in Int BY DEF PlacesIn
<1>3. CuesMade(src, clusters, pos, origin, endT)
  <2>1. origin \in Int OBVIOUS
  <2> QED BY <1>2, <2>1, CuesElementIs
<1>4. inside \in Seq(CueOf(clusters)) BY InsideType
<1>5. /\ cuesElement(src, clusters, pos, origin, endT) = AppendElement("Cues", FlattenSeq(points))
      /\ points \in Seq(Seq(Cell)) /\ Len(points) = n
  BY <1>3 DEF CuesMade
<1>6. n \in Nat /\ n > 0 /\ DOMAIN inside = 1..n /\ \A i \in 1..n : inside[i] \in CueOf(clusters)
  <2> DEFINE T == CueOf(clusters)
  <2>1. inside \in Seq(T) BY <1>4
  <2>2. inside # <<>> OBVIOUS
  <2> HIDE DEF T, inside
  <2>3. n \in Nat /\ n > 0 /\ DOMAIN inside = 1..n /\ \A i \in 1..n : inside[i] \in T BY <2>1, <2>2
  <2> QED BY <2>3 DEF T
<1>7. \A i \in 1..n : points[i] = PointElement(inside[i].time - origin, src.video, pos[at(inside[i])])
  <2> SUFFICES ASSUME NEW i \in 1..n PROVE points[i] = PointElement(inside[i].time - origin, src.video, pos[at(inside[i])])
    OBVIOUS
  <2>1. i \in DOMAIN inside BY <1>6
  <2>2. points[i] = AppendElement("CuePoint", NewPoint(src, clusters, pos, origin, inside[i])) BY <2>1 DEF NewPoints
  <2> DEFINE c == inside[i]
  <2>3. points[i] = AppendElement("CuePoint", NewPoint(src, clusters, pos, origin, c)) BY <2>2
  <2> HIDE DEF points, ids, kids, n, inside, c
  <2>4. AppendElement("CuePoint", NewPoint(src, clusters, pos, origin, c)) = PointElement(c.time - origin, src.video, pos[at(c)])
    BY NewPointIs
  <2> QED BY <2>3, <2>4 DEF c
<1>8. \A i \in 1..n : inside[i].time - origin \in Int /\ at(inside[i]) \in DOMAIN clusters
  <2> SUFFICES ASSUME NEW i \in 1..n PROVE inside[i].time - origin \in Int /\ at(inside[i]) \in DOMAIN clusters OBVIOUS
  <2> DEFINE c == inside[i]
  <2>1. c \in CueOf(clusters) BY <1>6
  <2> HIDE DEF inside, c
  <2> QED BY <2>1 DEF CueOf, Cue, c
<1> HIDE DEF inside, points, at, kids
<1>9. \A i \in 1..n : Framed(b, points[i], point)
  <2> SUFFICES ASSUME NEW i \in 1..n PROVE Framed(b, points[i], point) OBVIOUS
  <2> DEFINE t == inside[i].time - origin
             o == pos[at(inside[i])]
             v == src.video
  <2>1. t \in Int /\ v \in Nat /\ o \in Nat BY <1>2, <1>8
  <2>2. points[i] = PointElement(t, v, o) BY <1>7
  <2> HIDE DEF t, o, v
  <2> DEFINE u == AppendUint("CueTrack", v)
             w == PositionOf(o)
             x == AppendUint("CueTime", t)
             W == Cell
             data == u \o w
             y == AppendElement("CueTrackPositions", data)
  <2>3. Wide \in Nat BY EbmlAssumption
  <2>4. u \in Seq(W) /\ w \in Seq(W) /\ x \in Seq(W) BY <1>1, <2>1, <2>3, UintType, UintWidthType DEF PositionOf
  <2>5. points[i] = AppendElement("CuePoint", x \o y) BY <2>2 DEF PointElement
  <2> HIDE DEF u, w, x, W
  <2>6. data \in Seq(W) BY <2>4
  <2> HIDE DEF data
  <2>7. y \in Seq(W) BY <1>1, <2>6, ElementType DEF W
  <2> HIDE DEF y
  <2>8. x \o y \in Seq(W) BY <2>4, <2>7
  <2>9. point # "bad" OBVIOUS
  <2> QED BY <1>1, <2>5, <2>8, <2>9, FramedElement DEF W
<1>10. \A i \in 1..Len(points) : Framed(b, points[i], ids[i]) /\ ids[i] # "bad" BY <1>5, <1>9
<1>11. \A i \in 1..n : ids[i] = point OBVIOUS
<1> HIDE DEF ids, n
<1>12. Hears(b, e, points, ids)
  <2>1. At(b, e.from, AppendElement("Cues", FlattenSeq(points))) BY <1>5
  <2> QED BY <1>1, <1>5, <1>10, <2>1, ChildrenHeard
<1>13. /\ Intact(b, e) /\ kids \in Seq(Elem) /\ Len(kids) = n
       /\ \A i \in 1..n : ChildAt(b, kids[i], ids[i], points[i])
  BY <1>5, <1>12 DEF Hears, WellHeld, kids
<1> DEFINE V == {k \in Elem : PointLeads(b, k, src.video, segData)}
<1>14. \A i \in 1..n : kids[i] \in V /\ kids[i].id = point
  <2> SUFFICES ASSUME NEW i \in 1..n PROVE kids[i] \in V /\ kids[i].id = point OBVIOUS
  <2> DEFINE t == inside[i].time - origin
             o == pos[at(inside[i])]
             v == src.video
  <2>1. t \in Int /\ v \in Nat /\ v < Pow(UintBase, Wide) /\ o \in Nat /\ o < Len(b) BY <1>2, <1>8
  <2>2. kids[i] \in Elem /\ kids[i].id = point /\ HeadedBy(b, kids[i]) /\ At(b, kids[i].from, points[i])
    BY <1>11, <1>13 DEF ChildAt
  <2>3. At(b, kids[i].from, PointElement(t, v, o)) BY <1>7, <2>2
  <2> HIDE DEF t, o
  <2>4. PointLeads(b, kids[i], v, segData)
    <3> HIDE DEF v
    <3> QED BY <2>1, <2>2, <2>3, PointReads
  <2> QED BY <2>2, <2>4
<1> DEFINE pts == Named(kids, point)
<1>15. pts \in Seq(V) /\ pts # <<>>
  <2> HIDE DEF V, point
  <2> DEFINE T == Elem
  <2>1. kids \in Seq(T) BY <1>13
  <2>2. \A i \in 1..Len(kids) : kids[i].id = point => kids[i] \in V BY <1>13, <1>14
  <2> HIDE DEF T
  <2>3. pts \in Seq(V) BY <2>1, <2>2, NamedWithin
  <2>4. 1 \in 1..Len(kids) /\ kids[1].id = point BY <1>6, <1>13, <1>14
  <2>5. PICK j \in 1..Len(pts) : pts[j] = kids[1] BY <2>1, <2>4, NamedHas
  <2> HIDE DEF pts
  <2> QED BY <2>3, <2>5
<1>16. pts \in Seq(Elem) /\ \A i \in 1..Len(pts) : PointLeads(b, pts[i], src.video, segData)
  <2> HIDE DEF pts
  <2>1. V \subseteq Elem OBVIOUS
  <2>2. \A k \in V : PointLeads(b, k, src.video, segData) OBVIOUS
  <2> HIDE DEF V
  <2> QED BY <1>15, <2>1, <2>2
<1> HIDE DEF pts
<1>17. parseCues(b, pts, src.video, segData) # <<>> BY <1>15, <1>16, PointsRead
<1> QED BY <1>13, <1>17 DEF pts, kids

-----------------------------------------------------------------------------
(* What Open reads of a clip.                                                 *)

\* The segment of a clip of src, with what is in it.
SegmentRead(b, src, size) ==
  LET seg == SegOf(b)
  IN  /\ seg.ok /\ seg.header = Len(src.ebmlHeader) /\ seg.data = Len(src.ebmlHeader) + Wide
      /\ seg.end = Len(b) /\ seg.data \in Nat /\ seg.end \in Nat /\ Len(b) = seg.data + size /\ size \in Nat

LEMMA ClipSegment ==
  ASSUME NEW b, NEW src, NEW size, HeadRead(b, src, size)
  PROVE  SegmentRead(b, src, size)
<1> DEFINE e == ReadHeaderAt(b, 0)
           n == e.w + e.size
           h == ReadHeaderAt(b, n)
           seg == segment(b, e, h)
<1>1. /\ n = Len(src.ebmlHeader) /\ h = [id |-> "Segment", w |-> Wide, size |-> size] /\ n \in Nat
      /\ Len(b) = n + Wide + size /\ size \in Nat /\ e.id = "EBML" /\ e.size # UnknownSize
  BY DEF HeadRead
<1>2. SegOf(b) = seg BY DEF SegOf
<1>3. Wide \in Nat BY EbmlAssumption
<1>4. /\ seg.ok = (e.id = "EBML" /\ e.size # UnknownSize /\ h.id = "Segment") /\ seg.header = n /\ seg.data = n + h.w
      /\ seg.end = IF h.size # UnknownSize /\ (n + h.w) + h.size < Len(b) THEN (n + h.w) + h.size ELSE Len(b)
  BY DEF segment
<1> HIDE DEF n, seg
<1>5. h.w = Wide /\ h.size = size /\ h.id = "Segment" BY <1>1
<1> HIDE DEF h, e
<1>6. seg.ok /\ seg.header = n /\ seg.data = n + Wide /\ seg.end = Len(b) BY <1>1, <1>3, <1>4, <1>5
<1>7. Len(b) = (n + Wide) + size /\ n + Wide \in Nat /\ Len(b) \in Nat BY <1>1, <1>3
<1> QED BY <1>1, <1>2, <1>6, <1>7 DEF SegmentRead

\* The elements at the top of a clip of src: those before the clusters, and the first cluster.
TopRead(b, src, ss, s) ==
  LET data == Len(src.ebmlHeader) + Wide
      k == Tops(src)
  IN  /\ s \in Seq(Elem) /\ Len(s) = k + 1
      /\ \A i \in 1..k :
           /\ s[i] \in Elem /\ s[i].id = TopIds(src)[i] /\ HeadedBy(b, s[i]) /\ At(b, s[i].from, ss[i])
           /\ s[i].from = data + Start(ss, i) /\ s[i].to = s[i].from + Len(ss[i]) /\ s[i].to <= Len(b)
           /\ s[i].id # "Cluster" /\ s[i].data <= s[i].to
      /\ s[k + 1] \in Elem /\ s[k + 1].id = "Cluster" /\ s[k + 1].from = data + Start(ss, k + 1)

LEMMA PieceIsTop ==
  ASSUME NEW src, NEW n, NEW i, i \in 1..Tops(src), i \in 1..n
  PROVE  PieceIds(src, n)[i] = TopIds(src)[i] /\ TopIds(src)[i] # "Cluster"
<1> DEFINE k == Tops(src)
<1>1. PieceIds(src, n)[i] = TopIds(src)[i]
  <2>1. k \in {4, 5} BY TopIdsAre
  <2> HIDE DEF k
  <2>2. i <= k BY <2>1 DEF k
  <2> QED BY <2>2 DEF PieceIds, k
<1>2. TopIds(src)[i] # "Cluster"
  <2>1. CASE src.attachments = <<>>
    <3>1. k = 4 /\ TopIds(src) = <<"SeekHead", "Info", "Tracks", "Cues">> BY <2>1 DEF Tops, TopIds
    <3>2. i \in {1, 2, 3, 4} BY <3>1
    <3> HIDE DEF k
    <3> QED BY <3>1, <3>2
  <2>2. CASE src.attachments # <<>>
    <3>1. k = 5 /\ TopIds(src) = <<"SeekHead", "Info", "Tracks", "Attachments", "Cues">> BY <2>2 DEF Tops, TopIds
    <3>2. i \in {1, 2, 3, 4, 5} BY <3>1
    <3> HIDE DEF k
    <3> QED BY <3>1, <3>2
  <2> QED BY <2>1, <2>2
<1> QED BY <1>1, <1>2

LEMMA TopWalked ==
  ASSUME NEW b, NEW src, NEW ss, NEW cells, NEW data, b \in Seq(Cell), ss \in Seq(Seq(Cell)),
         data = Len(src.ebmlHeader) + Wide, At(b, data, FlattenSeq(ss)), data + Len(FlattenSeq(ss)) = Len(b),
         Len(ss) = Tops(src) + Len(cells), Len(cells) \in Nat, Len(cells) > 0,
         AllFramed(b, ss, PieceIds(src, Len(ss)))
  PROVE  TopRead(b, src, ss, Walk(b, data, Len(b), {"Cluster"}))
<1> DEFINE k == Tops(src)
           n == Len(ss)
           ids == PieceIds(src, n)
           end == Len(b)
           stop == {"Cluster"}
           s == Walk(b, data, end, stop)
<1>1. k \in {4, 5} BY TopIdsAre
<1> HIDE DEF k
<1>2. n = k + Len(cells) /\ n \in Nat /\ k \in 0..n /\ k < n /\ k + 1 \in 1..n BY <1>1 DEF k
<1>3. RowAt(b, data, ss, end) BY RowPlaces
<1>4. \A i \in 1..k : i \in 1..n /\ ids[i] = TopIds(src)[i] /\ ids[i] # "Cluster"
  <2> SUFFICES ASSUME NEW i \in 1..k PROVE i \in 1..n /\ ids[i] = TopIds(src)[i] /\ ids[i] # "Cluster" OBVIOUS
  <2>1. i \in 1..n BY <1>1, <1>2
  <2>2. i \in 1..Tops(src) BY DEF k
  <2> HIDE DEF n
  <2>3. PieceIds(src, n)[i] = TopIds(src)[i] /\ TopIds(src)[i] # "Cluster" BY <2>1, <2>2, PieceIsTop
  <2> QED BY <2>1, <2>3
<1>5. ids[k + 1] = "Cluster"
  <2>1. ~(k + 1 <= k) BY <1>1
  <2>2. ids[k + 1] = IF k + 1 <= k THEN TopIds(src)[k + 1] ELSE "Cluster" BY <1>2 DEF PieceIds, k
  <2> QED BY <2>1, <2>2
<1>6. \A i \in 1..n : Framed(b, ss[i], ids[i])
  BY DEF AllFramed
<1> HIDE DEF ids, n
<1>7. RowWalk(b, s, data, ss, ids, k, stop)
  <2>1. \A i \in 1..Len(ss) : Framed(b, ss[i], ids[i]) BY <1>6 DEF n
  <2>2. \A i \in 1..k : ids[i] \notin stop BY <1>4
  <2>3. ids[k + 1] \in stop BY <1>5
  <2>4. k \in 0..Len(ss) BY <1>2 DEF n
  <2> HIDE DEF stop, end
  <2> QED BY <1>3, <2>1, <2>2, <2>3, <2>4, WalkRow
<1> HIDE DEF s
<1> DEFINE v == SubSeq(s, 1, k)
<1>8. /\ s \in Seq(Elem) /\ StopsAt(b, s, data, ss, ids, k, stop) /\ Firsts(b, v, data, ss, ids, k)
      /\ \A i \in 1..k : s[i] = v[i]
  BY <1>7 DEF RowWalk
<1>9. Len(s) = k + 1 /\ s[k + 1] \in Elem /\ s[k + 1].id = "Cluster" /\ s[k + 1].from = data + Start(ss, k + 1)
  <2>1. k # Len(ss) BY <1>2, <1>1 DEF n
  <2> QED BY <1>5, <1>8, <2>1 DEF StopsAt
<1> HIDE DEF v
<1>10. \A i \in 1..k : /\ s[i] \in Elem /\ s[i].id = TopIds(src)[i] /\ HeadedBy(b, s[i]) /\ At(b, s[i].from, ss[i])
                       /\ s[i].from = data + Start(ss, i) /\ s[i].to = s[i].from + Len(ss[i]) /\ s[i].to <= Len(b)
                       /\ s[i].id # "Cluster" /\ s[i].data <= s[i].to
  <2> SUFFICES ASSUME NEW i \in 1..k
               PROVE  /\ s[i] \in Elem /\ s[i].id = TopIds(src)[i] /\ HeadedBy(b, s[i]) /\ At(b, s[i].from, ss[i])
                      /\ s[i].from = data + Start(ss, i) /\ s[i].to = s[i].from + Len(ss[i]) /\ s[i].to <= Len(b)
                      /\ s[i].id # "Cluster" /\ s[i].data <= s[i].to
    OBVIOUS
  <2>1. /\ s[i] \in Elem /\ s[i].id = ids[i] /\ HeadedBy(b, s[i])
        /\ s[i].from = data + Start(ss, i) /\ s[i].to = data + Start(ss, i + 1)
    BY <1>8 DEF Firsts
  <2>2. i \in 1..Len(ss) BY <1>4 DEF n
  <2>3. /\ At(b, data + Start(ss, i), ss[i]) /\ data + Start(ss, i + 1) = (data + Start(ss, i)) + Len(ss[i])
        /\ (data + Start(ss, i)) + Len(ss[i]) <= end
    BY <1>3, <2>2 DEF RowAt
  <2>4. s[i].data <= s[i].to
    <3> DEFINE p == s[i].from
               x == ss[i]
    <3>1. p \in Nat /\ s[i].data \in Nat /\ s[i].to \in Nat BY <2>1 DEF Elem
    <3>2. At(b, p, x) /\ s[i].to = p + Len(x) /\ Len(x) \in Nat
      <4>1. Len(x) \in Nat BY <1>3, <2>2 DEF RowAt
      <4> QED BY <2>1, <2>3, <4>1
    <3>3. Framed(b, x, ids[i]) BY <1>6, <2>2 DEF n
    <3> HIDE DEF x, p
    <3>4. PICK w \in Nat : w <= Len(x) /\ HeadIs(b, p, ids[i], w, Len(x) - w) BY <3>1, <3>2, <3>3 DEF Framed
    <3>5. ReadHeaderAt(b, p).w = w BY <3>4 DEF HeadIs
    <3>6. ReadHeaderAt(b, p).w = s[i].data - p BY <2>1 DEF HeadedBy, p
    <3>7. s[i].data - p = w BY <3>5, <3>6
    <3> QED BY <3>1, <3>2, <3>4, <3>7
  <2> QED BY <1>4, <2>1, <2>3, <2>4
<1> QED BY <1>8, <1>9, <1>10 DEF TopRead, s, k

\* The only element with an id.
OnlyAt(s, id, i) == i \in 1..Len(s) /\ s[i].id = id /\ \A j \in 1..Len(s) : s[j].id = id => j = i

LEMMA OnlyOne ==
  ASSUME NEW s, NEW id, NEW i, s \in Seq(Elem), OnlyAt(s, id, i)
  PROVE  Has(s, id) /\ LastOf(s, id) = s[i]
<1>1. Has(s, id)
  <2>1. i \in DOMAIN s BY DEF OnlyAt
  <2> QED BY <2>1 DEF Has, OnlyAt
<1>2. LastFound(s, id) BY <1>1, LastIsOne
<1> QED BY <1>1, <1>2 DEF LastFound, OnlyAt

\* The elements by their ids.
TopKnown(src, s) ==
  LET k == Tops(src)
  IN  /\ Has(s, "Info") /\ LastOf(s, "Info") = s[2] /\ Has(s, "Tracks") /\ LastOf(s, "Tracks") = s[3]
      /\ Has(s, "Cues") /\ LastOf(s, "Cues") = s[k] /\ Has(s, "Cluster") /\ LastOf(s, "Cluster") = s[k + 1]
      /\ Has(s, "Attachments") <=> src.attachments # <<>>
      /\ src.attachments # <<>> => LastOf(s, "Attachments") = s[4]

LEMMA TopFound ==
  ASSUME NEW b, NEW src, NEW ss, NEW s, TopRead(b, src, ss, s)
  PROVE  TopKnown(src, s)
<1> DEFINE k == Tops(src)
<1>1. /\ s \in Seq(Elem) /\ Len(s) = k + 1 /\ \A i \in 1..k : s[i].id = TopIds(src)[i]
      /\ s[k + 1].id = "Cluster"
  BY DEF TopRead
<1>2. CASE src.attachments = <<>>
  <2>1. k = 4 /\ TopIds(src) = <<"SeekHead", "Info", "Tracks", "Cues">> BY <1>2 DEF Tops, TopIds
  <2>2. k + 1 = 5 BY <2>1
  <2>3. s[1].id = "SeekHead" /\ s[2].id = "Info" /\ s[3].id = "Tracks" /\ s[4].id = "Cues" /\ s[5].id = "Cluster"
    <3>1. 1 \in 1..k /\ 2 \in 1..k /\ 3 \in 1..k /\ 4 \in 1..k BY <2>1
    <3> HIDE DEF k
    <3> QED BY <1>1, <2>1, <2>2, <3>1
  <2>4. Len(s) = 5 /\ s \in Seq(Elem) BY <1>1, <2>2
  <2>5. \A j \in 1..Len(s) : j \in {1, 2, 3, 4, 5} BY <2>4
  <2>6. Has(s, "Info") /\ LastOf(s, "Info") = s[2]
    <3>1. \A j \in 1..Len(s) : s[j].id = "Info" => j = 2 BY <2>3, <2>5
    <3>2. 2 \in 1..Len(s) BY <2>4
    <3>3. OnlyAt(s, "Info", 2) BY <2>3, <3>1, <3>2 DEF OnlyAt
    <3> QED BY <2>4, <3>3, OnlyOne
  <2>7. Has(s, "Tracks") /\ LastOf(s, "Tracks") = s[3]
    <3>1. \A j \in 1..Len(s) : s[j].id = "Tracks" => j = 3 BY <2>3, <2>5
    <3>2. 3 \in 1..Len(s) BY <2>4
    <3>3. OnlyAt(s, "Tracks", 3) BY <2>3, <3>1, <3>2 DEF OnlyAt
    <3> QED BY <2>4, <3>3, OnlyOne
  <2>8. Has(s, "Cues") /\ LastOf(s, "Cues") = s[4]
    <3>1. \A j \in 1..Len(s) : s[j].id = "Cues" => j = 4 BY <2>3, <2>5
    <3>2. 4 \in 1..Len(s) BY <2>4
    <3>3. OnlyAt(s, "Cues", 4) BY <2>3, <3>1, <3>2 DEF OnlyAt
    <3> QED BY <2>4, <3>3, OnlyOne
  <2>9. Has(s, "Cluster") /\ LastOf(s, "Cluster") = s[5]
    <3>1. \A j \in 1..Len(s) : s[j].id = "Cluster" => j = 5 BY <2>3, <2>5
    <3>2. 5 \in 1..Len(s) BY <2>4
    <3>3. OnlyAt(s, "Cluster", 5) BY <2>3, <3>1, <3>2 DEF OnlyAt
    <3> QED BY <2>4, <3>3, OnlyOne
  <2>10. ~Has(s, "Attachments")
    <3>1. \A j \in 1..Len(s) : s[j].id # "Attachments" BY <2>3, <2>5
    <3>2. DOMAIN s = 1..Len(s) BY <2>4
    <3> QED BY <3>1, <3>2 DEF Has
  <2> QED BY <1>2, <2>1, <2>2, <2>6, <2>7, <2>8, <2>9, <2>10 DEF TopKnown
<1>3. CASE src.attachments # <<>>
  <2>1. k = 5 /\ TopIds(src) = <<"SeekHead", "Info", "Tracks", "Attachments", "Cues">> BY <1>3 DEF Tops, TopIds
  <2>2. k + 1 = 6 BY <2>1
  <2>3. /\ s[1].id = "SeekHead" /\ s[2].id = "Info" /\ s[3].id = "Tracks" /\ s[4].id = "Attachments" /\ s[5].id = "Cues"
        /\ s[6].id = "Cluster"
    <3>1. 1 \in 1..k /\ 2 \in 1..k /\ 3 \in 1..k /\ 4 \in 1..k /\ 5 \in 1..k BY <2>1
    <3> HIDE DEF k
    <3> QED BY <1>1, <2>1, <2>2, <3>1
  <2>4. Len(s) = 6 /\ s \in Seq(Elem) BY <1>1, <2>2
  <2>5. \A j \in 1..Len(s) : j \in {1, 2, 3, 4, 5, 6} BY <2>4
  <2>6. Has(s, "Info") /\ LastOf(s, "Info") = s[2]
    <3>1. \A j \in 1..Len(s) : s[j].id = "Info" => j = 2 BY <2>3, <2>5
    <3>2. 2 \in 1..Len(s) BY <2>4
    <3>3. OnlyAt(s, "Info", 2) BY <2>3, <3>1, <3>2 DEF OnlyAt
    <3> QED BY <2>4, <3>3, OnlyOne
  <2>7. Has(s, "Tracks") /\ LastOf(s, "Tracks") = s[3]
    <3>1. \A j \in 1..Len(s) : s[j].id = "Tracks" => j = 3 BY <2>3, <2>5
    <3>2. 3 \in 1..Len(s) BY <2>4
    <3>3. OnlyAt(s, "Tracks", 3) BY <2>3, <3>1, <3>2 DEF OnlyAt
    <3> QED BY <2>4, <3>3, OnlyOne
  <2>8. Has(s, "Cues") /\ LastOf(s, "Cues") = s[5]
    <3>1. \A j \in 1..Len(s) : s[j].id = "Cues" => j = 5 BY <2>3, <2>5
    <3>2. 5 \in 1..Len(s) BY <2>4
    <3>3. OnlyAt(s, "Cues", 5) BY <2>3, <3>1, <3>2 DEF OnlyAt
    <3> QED BY <2>4, <3>3, OnlyOne
  <2>9. Has(s, "Cluster") /\ LastOf(s, "Cluster") = s[6]
    <3>1. \A j \in 1..Len(s) : s[j].id = "Cluster" => j = 6 BY <2>3, <2>5
    <3>2. 6 \in 1..Len(s) BY <2>4
    <3>3. OnlyAt(s, "Cluster", 6) BY <2>3, <3>1, <3>2 DEF OnlyAt
    <3> QED BY <2>4, <3>3, OnlyOne
  <2>10. Has(s, "Attachments") /\ LastOf(s, "Attachments") = s[4]
    <3>1. \A j \in 1..Len(s) : s[j].id = "Attachments" => j = 4 BY <2>3, <2>5
    <3>2. 4 \in 1..Len(s) BY <2>4
    <3>3. OnlyAt(s, "Attachments", 4) BY <2>3, <3>1, <3>2 DEF OnlyAt
    <3> QED BY <2>4, <3>3, OnlyOne
  <2> QED BY <1>3, <2>1, <2>2, <2>6, <2>7, <2>8, <2>9, <2>10 DEF TopKnown
<1> QED BY <1>2, <1>3

\* The element at the place of one that is in a file.
LEMMA ElementRead ==
  ASSUME NEW b, NEW e, e \in Elem, HeadedBy(b, e), e.data <= e.to, e.to <= Len(b)
  PROVE  readElement(b, e.from, e.id) = e
<1> DEFINE h == ReadHeaderAt(b, e.from)
<1>1. h.id = e.id /\ h.w = e.data - e.from /\ h.size = e.to - e.data BY DEF HeadedBy
<1>2. readElement(b, e.from, e.id)
        = IF h.id = e.id /\ h.size # UnknownSize /\ e.from + h.w + h.size <= Len(b)
          THEN Element(e.id, e.from, e.from + h.w, e.from + h.w + h.size)
          ELSE Element("bad", e.from, e.from, e.from)
  BY DEF readElement
<1>3. e.from \in Nat /\ e.data \in Nat /\ e.to \in Nat /\ e = [id |-> e.id, from |-> e.from, data |-> e.data, to |-> e.to]
  BY DEF Elem
<1> HIDE DEF h
<1>4. e.from + h.w = e.data /\ e.from + h.w + h.size = e.to BY <1>1, <1>3
<1>5. h.size # UnknownSize BY <1>1, <1>3 DEF UnknownSize
<1> QED BY <1>1, <1>2, <1>3, <1>4, <1>5 DEF Element

\* A clip of f that is put together of these elements.
ClipOfPieces(b, f, cs, origin, endT, title, pos, ss, ps) ==
  PlacedBy(b, f, Open(f), cs, origin, endT, InfoOf(f, Open(f), origin, endT, title), TracksOf(f, Open(f)), pos, ss, ps)

\* The last sequences are at the end of b.
AtEnd(b, q, cells) == At(b, q, FlattenSeq(cells)) /\ Len(b) = q + Len(FlattenSeq(cells))

\* Its head and what is at its top; its clusters are at its end.
ClipParted(b, f, cs, origin, ss) ==
  LET src == Open(f)
      q == SegOf(b).data + Start(ss, Tops(src) + 1)
  IN  /\ SegOf(b).ok /\ SegOf(b).data \in Nat /\ SegOf(b).end = Len(b) /\ Len(b) \in Nat
      /\ SegOf(b).data = Len(src.ebmlHeader) + Wide
      /\ TopRead(b, src, ss, TopOf(b)) /\ TopKnown(src, TopOf(b))
      /\ AtEnd(b, q, ClusterCells(f, cs, origin))

LEMMA TopsParted ==
  ASSUME NEW b, NEW d, NEW ss, NEW cells, NEW k, b \in Seq(Cell), d \in Nat, k \in Nat,
         ss \in Seq(Seq(Cell)), cells \in Seq(Seq(Cell)), Len(ss) = k + Len(cells), Len(cells) \in Nat,
         \A i \in 1..Len(cells) : ss[k + i] = cells[i], At(b, d, FlattenSeq(ss)), Len(b) = d + Len(FlattenSeq(ss))
  PROVE  AtEnd(b, d + Start(ss, k + 1), cells)
<1> DEFINE tt == SubSeq(ss, 1, k)
           x == FlattenSeq(tt)
           y == FlattenSeq(cells)
           flat == FlattenSeq(ss)
<1>1. flat = x \o y BY LastParts
<1>2. x \in Seq(Cell) /\ y \in Seq(Cell)
  <2> DEFINE U == Seq(Cell)
  <2>1. ss \in Seq(U) OBVIOUS
  <2> HIDE DEF U
  <2>2. 0 \in Nat /\ 0 + k <= Len(ss) /\ 0 + 1 = 1 /\ 0 + k = k OBVIOUS
  <2>3. SubSeq(ss, 0 + 1, 0 + k) \in Seq(U) BY <2>1, <2>2, SliceType
  <2>4. tt \in Seq(Seq(Cell)) BY <2>2, <2>3 DEF U
  <2> QED BY <2>4, FlattenType
<1>3. Start(ss, k + 1) = Len(x)
  <2>1. (k + 1) - 1 = k OBVIOUS
  <2>2. Start(ss, k + 1) = Len(FlattenSeq(SubSeq(ss, 1, (k + 1) - 1))) BY DEF Start
  <2>3. SubSeq(ss, 1, (k + 1) - 1) = tt BY <2>1
  <2> QED BY <2>2, <2>3
<1> HIDE DEF x, y, flat
<1>4. At(b, d, x \o y) BY <1>1 DEF flat
<1>5. AtParted(b, d, x, y) BY <1>2, <1>4, AtTwo
<1>6. At(b, d + Len(x), y) /\ Len(flat) = Len(x) + Len(y) BY <1>1, <1>5 DEF AtParted
<1>7. Len(x) \in Nat /\ Len(y) \in Nat BY <1>2
<1>8. Len(b) = (d + Len(x)) + Len(y) BY <1>6, <1>7 DEF flat
<1> QED BY <1>3, <1>6, <1>8 DEF y, AtEnd

LEMMA ClipTop ==
  ASSUME NEW b, NEW f, NEW cs, NEW origin, NEW endT, NEW title, NEW pos, NEW ss, NEW ps,
         f \in Seq(Cell), Open(f).ok, b \in Seq(Cell), Small(b), cs \in Seq(CutCluster(f)), cs # <<>>, origin \in Int,
         ClipOfPieces(b, f, cs, origin, endT, title, pos, ss, ps)
  PROVE  ClipParted(b, f, cs, origin, ss)
<1> DEFINE src == Open(f)
           cells == ClusterCells(f, cs, origin)
           k == Tops(src)
           flat == FlattenSeq(ss)
           size == Len(flat)
           d == Len(src.ebmlHeader) + Wide
<1>1. HasPiecesBy(b, src, cells, ss, ps) BY DEF ClipOfPieces, PlacedBy
<1>2. cells \in Seq(Seq(Cell)) BY ClusterContent
<1>3. Len(cells) = Len(cs) /\ Len(cells) > 0
  <2> DEFINE T == CutCluster(f)
  <2>1. cs \in Seq(T) OBVIOUS
  <2> HIDE DEF T
  <2>2. Len(cs) > 0 BY <2>1
  <2>3. Len(cells) = Len(cs) BY ClusterContent
  <2> QED BY <2>2, <2>3
<1> HIDE DEF cells
<1>4. /\ ss \in Seq(Seq(Cell)) /\ Len(ss) = k + Len(cells) /\ Len(cells) \in Nat
      /\ \A i \in 1..Len(cells) : ss[k + i] = cells[i]
      /\ OneSegment(b, src, ss) /\ AllFramed(b, ss, PieceIds(src, Len(ss)))
  BY <1>1 DEF HasPiecesBy
<1>5. HeadRead(b, src, size) /\ At(b, d, flat) BY <1>4, ClipHead
<1>6. SegmentRead(b, src, size)
  <2> HIDE DEF size
  <2> QED BY <1>5, ClipSegment
<1>7. k \in Nat
  <2>1. k \in {4, 5} BY TopIdsAre
  <2> QED BY <2>1
<1>8. /\ SegOf(b).ok /\ SegOf(b).data = d /\ SegOf(b).end = Len(b) /\ d \in Nat /\ Len(b) \in Nat
      /\ Len(b) = d + size
  BY <1>6 DEF SegmentRead
<1>9. TopOf(b) = Walk(b, SegOf(b).data, SegOf(b).end, {"Cluster"}) BY DEF TopOf, SegOf
<1> HIDE DEF src
<1>10. TopRead(b, src, ss, Walk(b, d, Len(b), {"Cluster"}))
  <2> HIDE DEF d
  <2>1. d = Len(src.ebmlHeader) + Wide BY DEF d
  <2>2. d + Len(FlattenSeq(ss)) = Len(b) BY <1>8
  <2>3. At(b, d, FlattenSeq(ss)) BY <1>5
  <2> QED BY <1>3, <1>4, <2>1, <2>2, <2>3, TopWalked DEF k
<1>11. TopRead(b, src, ss, TopOf(b)) BY <1>8, <1>9, <1>10
<1>12. TopKnown(src, TopOf(b)) BY <1>11, TopFound
<1>13. AtEnd(b, d + Start(ss, k + 1), cells)
  <2> HIDE DEF d, k
  <2>1. Len(b) = d + Len(FlattenSeq(ss)) /\ d \in Nat BY <1>8
  <2>2. At(b, d, FlattenSeq(ss)) BY <1>5
  <2>3. /\ ss \in Seq(Seq(Cell)) /\ Len(ss) = k + Len(cells) /\ Len(cells) \in Nat
        /\ \A i \in 1..Len(cells) : ss[k + i] = cells[i]
    BY <1>4
  <2> HIDE DEF flat, size
  <2> QED BY <1>2, <1>7, <2>1, <2>2, <2>3, TopsParted
<1> HIDE DEF d
<1> QED BY <1>8, <1>11, <1>12, <1>13 DEF ClipParted, src, cells, k, d

\* Something is picked.
LEMMA WhereSome ==
  ASSUME NEW T, NEW s, NEW I, NEW k, s \in Seq(T), k \in 1..Len(s), k \in I
  PROVE  Where(s, I) # <<>>
<1>1. PICK j \in 1..Len(Where(s, I)) : Where(s, I)[j] = s[k] BY WhereHas
<1> QED BY <1>1

\* A clip that starts at a cue has one.
LEMMA CueInside ==
  ASSUME NEW f, NEW src, NEW cs, NEW origin, NEW endT, src.cues \in Seq(Cue), cs \in Seq(CutCluster(f)), cs # <<>>,
         origin \in Nat, endT \in Int, Cued(f, src), Keyed(f, src, cs, origin, endT)
  PROVE  Inside(src, cs, origin, endT) # <<>>
<1>1. PICK i \in 1..Len(src.cues) : src.cues[i].time = origin /\ src.cues[i].off = cs[1].off BY DEF Keyed
<1>2. origin < endT BY DEF Keyed
<1> DEFINE offs == {cs[j].off : j \in DOMAIN cs}
           cues == src.cues
           I == {j \in DOMAIN cues : /\ cues[j].off \in offs /\ origin <= cues[j].time /\ cues[j].time < endT}
           T == Cue
<1>3. Inside(src, cs, origin, endT) = Where(cues, I) BY DEF Inside
<1>4. cs[1].off \in offs
  <2> DEFINE U == CutCluster(f)
  <2>1. cs \in Seq(U) OBVIOUS
  <2> HIDE DEF U
  <2>2. 1 \in DOMAIN cs BY <2>1
  <2> QED BY <2>2
<1> HIDE DEF offs
<1>5. i \in DOMAIN cues BY <1>1
<1>6. i \in I
  <2>1. cues[i].off \in offs /\ cues[i].time = origin BY <1>1, <1>4
  <2> HIDE DEF cues
  <2>2. origin <= cues[i].time /\ cues[i].time < endT BY <1>2, <2>1
  <2> QED BY <1>5, <2>1, <2>2
<1>7. cues \in Seq(T) /\ i \in 1..Len(cues) BY <1>1
<1> HIDE DEF I, T, cues
<1>9. Where(cues, I) # <<>> BY <1>6, <1>7, WhereSome
<1> QED BY <1>3, <1>9

\* An element that is read at the place where these cells are.
Stands(b, e, x) == e \in Elem /\ HeadedBy(b, e) /\ At(b, e.from, x)

\* The elements of a clip that Open reads.
ElementsRead(b, f, cs, origin, endT, title, pos) ==
  LET src == Open(f)
  IN  /\ Stands(b, InfoEl(b), AppendElement("Info", InfoOf(f, src, origin, endT, title)))
      /\ Stands(b, TracksEl(b), AppendElement("Tracks", TracksOf(f, src)))
      /\ Stands(b, CuesEl(b), cuesElement(src, cs, pos, origin, endT)) /\ CuesEl(b).id # "bad"
      /\ Has(TopOf(b), "Cluster") /\ Has(TopOf(b), "Info") /\ Has(TopOf(b), "Tracks")
      /\ Has(TopOf(b), "Attachments") <=> src.attachments # <<>>
      /\ src.attachments # <<>> => Stands(b, LastOf(TopOf(b), "Attachments"), Raw(f, src.attachments[1]))
      /\ src.attachments # <<>> => LET e == LastOf(TopOf(b), "Attachments")
                                   IN  e.to = e.from + Len(Raw(f, src.attachments[1]))

LEMMA ClipElements ==
  ASSUME NEW b, NEW f, NEW cs, NEW origin, NEW endT, NEW title, NEW pos, NEW ss, NEW ps,
         ClipOfPieces(b, f, cs, origin, endT, title, pos, ss, ps), ClipParted(b, f, cs, origin, ss)
  PROVE  ElementsRead(b, f, cs, origin, endT, title, pos)
<1> DEFINE src == Open(f)
           k == Tops(src)
           s == TopOf(b)
           info == AppendElement("Info", InfoOf(f, src, origin, endT, title))
           tracks == AppendElement("Tracks", TracksOf(f, src))
           cues == cuesElement(src, cs, pos, origin, endT)
           cells == ClusterCells(f, cs, origin)
<1>1. TopRead(b, src, ss, s) /\ TopKnown(src, s) BY DEF ClipParted
<1>2. InPlace(f, src, ss, seekHead(ps), info, tracks, cues, cells) BY DEF ClipOfPieces, PlacedBy
<1> HIDE DEF info, tracks, cues, cells, s, src
<1>3. /\ ss[2] = info /\ ss[3] = tracks /\ ss[k] = cues
      /\ src.attachments # <<>> => ss[4] = Raw(f, src.attachments[1])
  BY <1>2 DEF InPlace
<1>4. k \in {4, 5} /\ TopIds(src)[k] = "Cues" /\ (src.attachments # <<>> => k = 5) BY TopIdsAre
<1> HIDE DEF k
<1>5. \A i \in 1..k : /\ s[i] \in Elem /\ s[i].id = TopIds(src)[i] /\ HeadedBy(b, s[i]) /\ At(b, s[i].from, ss[i])
                      /\ s[i].to = s[i].from + Len(ss[i]) /\ s[i].to <= Len(b) /\ s[i].data <= s[i].to
  BY <1>1 DEF TopRead, k
<1>6. 2 \in 1..k /\ 3 \in 1..k /\ 4 \in 1..k /\ k \in 1..k BY <1>4
<1>7. /\ Has(s, "Info") /\ LastOf(s, "Info") = s[2] /\ Has(s, "Tracks") /\ LastOf(s, "Tracks") = s[3]
      /\ Has(s, "Cues") /\ LastOf(s, "Cues") = s[k] /\ Has(s, "Cluster")
      /\ Has(s, "Attachments") <=> src.attachments # <<>>
      /\ src.attachments # <<>> => LastOf(s, "Attachments") = s[4]
  BY <1>1 DEF TopKnown, k
<1>8. Stands(b, s[2], info) /\ Stands(b, s[3], tracks) /\ Stands(b, s[k], cues)
  <2>1. \A i \in 1..k : Stands(b, s[i], ss[i]) BY <1>5 DEF Stands
  <2>2. Stands(b, s[2], ss[2]) /\ Stands(b, s[3], ss[3]) /\ Stands(b, s[k], ss[k]) BY <1>6, <2>1
  <2> QED BY <1>3, <2>2
<1>9. InfoEl(b) = s[2] /\ TracksEl(b) = s[3] BY <1>7 DEF InfoEl, TracksEl, s
<1>10. CuesEl(b) = s[k]
  <2> DEFINE e == s[k]
  <2>1. cuesOffset(b, SegOf(b), s) = e.from BY <1>7 DEF cuesOffset
  <2>2. e \in Elem /\ HeadedBy(b, e) /\ e.data <= e.to /\ e.to <= Len(b) /\ e.id = "Cues" BY <1>4, <1>5, <1>6
  <2> HIDE DEF e
  <2>3. readElement(b, e.from, e.id) = e BY <2>2, ElementRead
  <2>4. CuesEl(b) = e BY <2>1, <2>2, <2>3 DEF CuesEl, s
  <2> QED BY <2>4 DEF e
<1>11. s[k].id # "bad" BY <1>4, <1>5, <1>6
<1>12. src.attachments # <<>> => /\ Stands(b, s[4], Raw(f, src.attachments[1]))
                                 /\ s[4].to = s[4].from + Len(Raw(f, src.attachments[1]))
  <2>1. \A i \in 1..k : Stands(b, s[i], ss[i]) /\ s[i].to = s[i].from + Len(ss[i]) BY <1>5 DEF Stands
  <2>2. Stands(b, s[4], ss[4]) /\ s[4].to = s[4].from + Len(ss[4]) BY <1>6, <2>1
  <2> QED BY <1>3, <2>2
<1> QED BY <1>7, <1>8, <1>9, <1>10, <1>11, <1>12 DEF ElementsRead, s, info, tracks, cues, src

LEMMA InfoSaid ==
  ASSUME NEW b, NEW f, NEW src, NEW origin, NEW endT, NEW title, NEW e, NEW d, b \in Seq(Cell), f \in Seq(Cell), Small(b),
         src.info \in Seq(SolidElem(f)), d = endT - origin, d \in Nat, d < Pow(UintBase, Wide), title \in Cell,
         Stands(b, e, AppendElement("Info", InfoOf(f, src, origin, endT, title)))
  PROVE  Intact(b, e) /\ Value(b, Children(b, e), "Duration") = d
<1>1. e \in Elem /\ HeadedBy(b, e) /\ At(b, e.from, AppendElement("Info", InfoOf(f, src, origin, endT, title))) BY DEF Stands
<1>2. endT - origin \in Nat /\ endT - origin < Pow(UintBase, Wide) OBVIOUS
<1>3. Intact(b, e) /\ Value(b, Children(b, e), "Duration") = endT - origin BY <1>1, <1>2, InfoReads
<1> QED BY <1>3

\* A clip that can be opened, and what its head says.
ClipHeadReads(b, d) ==
  Openable(b) /\ Value(b, Children(b, InfoEl(b)), "Duration") = d /\ Video(b) = VideoTrack

LEMMA ClipOpenable ==
  ASSUME NEW b, NEW f, NEW cs, NEW origin, NEW endT, NEW title, NEW pos, NEW ss, NEW ps,
         f \in Seq(Cell), b \in Seq(Cell), Small(b), Len(b) < Pow(UintBase, Wide), SourceKnown(f), SourceOf(f, Open(f)),
         cs \in Seq(CutCluster(f)), cs # <<>>, origin \in Nat, endT \in Int, endT - origin < Pow(UintBase, Wide),
         title \in Cell, Keyed(f, Open(f), cs, origin, endT), ClipOfPieces(b, f, cs, origin, endT, title, pos, ss, ps),
         ClipParted(b, f, cs, origin, ss), ElementsRead(b, f, cs, origin, endT, title, pos)
  PROVE  ClipHeadReads(b, endT - origin)
<1> DEFINE src == Open(f)
           d == endT - origin
<1>1. /\ src.info \in Seq(SolidElem(f)) /\ TrackList(f, src.tracks) /\ src.video = VideoTrack /\ Cued(f, src)
  BY DEF SourceKnown
<1>2. src.cues \in Seq(Cue) BY DEF SourceOf
<1>3. /\ Stands(b, InfoEl(b), AppendElement("Info", InfoOf(f, src, origin, endT, title)))
      /\ Stands(b, TracksEl(b), AppendElement("Tracks", TracksOf(f, src)))
      /\ Stands(b, CuesEl(b), cuesElement(src, cs, pos, origin, endT)) /\ CuesEl(b).id # "bad"
      /\ Has(TopOf(b), "Cluster") /\ Has(TopOf(b), "Info") /\ Has(TopOf(b), "Tracks")
  BY DEF ElementsRead
<1>4. SegOf(b).ok /\ SegOf(b).data \in Nat BY DEF ClipParted
<1>5. Keyed(f, src, cs, origin, endT) OBVIOUS
<1> HIDE DEF src
<1>6. d \in Nat /\ d < Pow(UintBase, Wide)
  <2>1. origin < endT BY DEF Keyed
  <2> QED BY <2>1
<1>7. Intact(b, InfoEl(b)) /\ Value(b, Children(b, InfoEl(b)), "Duration") = d
  <2> DEFINE e == InfoEl(b)
  <2>1. Stands(b, e, AppendElement("Info", InfoOf(f, src, origin, endT, title))) BY <1>3
  <2>2. d = endT - origin OBVIOUS
  <2> HIDE DEF e, d
  <2>3. Intact(b, e) /\ Value(b, Children(b, e), "Duration") = d BY <1>1, <1>6, <2>1, <2>2, InfoSaid
  <2> QED BY <2>3 DEF e
<1>8. Intact(b, TracksEl(b)) /\ Video(b) = VideoTrack
  <2> DEFINE e == TracksEl(b)
  <2>1. e \in Elem /\ HeadedBy(b, e) /\ At(b, e.from, AppendElement("Tracks", TracksOf(f, src)))
    BY <1>3 DEF Stands
  <2> HIDE DEF e
  <2>2. Intact(b, e) /\ parseTracks(b, Named(Children(b, e), "TrackEntry")) = VideoTrack BY <1>1, <2>1, TracksRead
  <2> QED BY <2>2 DEF e, Video, Entries
<1>9. Inside(src, cs, origin, endT) # <<>> BY <1>1, <1>2, <1>5, CueInside
<1>10. PlacesIn(b, cs, pos)
  <2>1. \A i \in 1..Len(cs) : pos[i] \in Nat /\ pos[i] < Len(b) BY DEF ClipOfPieces, PlacedBy
  <2> DEFINE T == CutCluster(f)
  <2>2. cs \in Seq(T) OBVIOUS
  <2> HIDE DEF T
  <2>3. DOMAIN cs = 1..Len(cs) BY <2>2
  <2> QED BY <2>1, <2>3 DEF PlacesIn
<1>11. src.video \in Nat /\ src.video < Pow(UintBase, Wide) /\ VideoTrack # 0
  <2>1. VideoTrack \in Nat /\ VideoTrack < Pow(UintBase, Wide) /\ VideoTrack # 0
    <3>1. Wide \in Nat /\ UintBase \in Nat /\ UintBase > 0 BY EbmlAssumption
    <3>2. Pow(UintBase, Wide) \in Nat BY <3>1, PowNat
    <3> QED BY <3>2, CutAssumption DEF VideoTrack, AudioTrack
  <2> QED BY <1>1, <2>1
<1>12. Intact(b, CuesEl(b)) /\ ParsedCues(b) # <<>>
  <2> DEFINE e == CuesEl(b)
             s == SegOf(b).data
  <2>1. e \in Elem /\ HeadedBy(b, e) /\ At(b, e.from, cuesElement(src, cs, pos, origin, endT)) /\ s \in Nat
    BY <1>3, <1>4 DEF Stands
  <2> HIDE DEF e, s
  <2>2. Intact(b, e) /\ parseCues(b, Named(Children(b, e), "CuePoint"), src.video, s) # <<>>
    BY <1>2, <1>9, <1>10, <1>11, <2>1, IndexReads
  <2>3. src.video = Video(b) BY <1>1, <1>8
  <2> QED BY <2>2, <2>3 DEF e, s, ParsedCues, Points
<1>13. Openable(b) BY <1>3, <1>4, <1>7, <1>8, <1>11, <1>12 DEF Openable
<1> QED BY <1>7, <1>8, <1>13 DEF ClipHeadReads

\* A clip that is opened: it is as long as it says, and has its clusters at its end.
ClipIsOpen(b, f, cs, origin, d) ==
  LET src == Open(b)
  IN  /\ src.ok /\ src.duration = d /\ src.video = VideoTrack /\ RawAttachments(b, src) = RawAttachments(f, Open(f))
      /\ src.first \in Nat /\ AtEnd(b, src.first, ClusterCells(f, cs, origin)) /\ src.segEnd = Len(b)

LEMMA ClipIsOpened ==
  ASSUME NEW b, NEW f, NEW cs, NEW origin, NEW endT, NEW title, NEW pos, NEW ss, NEW d,
         f \in Seq(Cell), b \in Seq(Cell), SourceKnown(f), SourceOf(f, Open(f)), ClipHeadReads(b, d),
         ClipParted(b, f, cs, origin, ss), ElementsRead(b, f, cs, origin, endT, title, pos)
  PROVE  ClipIsOpen(b, f, cs, origin, d)
<1> DEFINE src == Open(b)
           old == Open(f)
           s == TopOf(b)
           q == SegOf(b).data + Start(ss, Tops(old) + 1)
<1>1. SourceRead(b) BY OpenReads DEF ClipHeadReads
<1>2. /\ src.ok /\ src.segEnd = SegOf(b).end /\ src.video = Video(b)
      /\ src.duration = Value(b, Children(b, InfoEl(b)), "Duration") /\ src.first = LastOf(s, "Cluster").from
      /\ src.attachments = IF Has(s, "Attachments") THEN <<LastOf(s, "Attachments")>> ELSE <<>>
  BY <1>1 DEF SourceRead
<1>3. /\ SegOf(b).end = Len(b) /\ TopRead(b, old, ss, s) /\ TopKnown(old, s) /\ AtEnd(b, q, ClusterCells(f, cs, origin))
      /\ SegOf(b).data = Len(old.ebmlHeader) + Wide
  BY DEF ClipParted
<1>4. src.first = q /\ q \in Nat
  <2> DEFINE k == Tops(old)
             e == s[k + 1]
  <2>1. LastOf(s, "Cluster") = e BY <1>3 DEF TopKnown
  <2>2. e \in Elem /\ e.from = (Len(old.ebmlHeader) + Wide) + Start(ss, k + 1) BY <1>3 DEF TopRead
  <2> HIDE DEF e
  <2>3. e.from \in Nat BY <2>2 DEF Elem
  <2> HIDE DEF s
  <2> QED BY <1>2, <1>3, <2>1, <2>2, <2>3
<1>5. old.attachments = <<>> \/ old.attachments = <<old.attachments[1]>>
  <2>1. old.attachments = IF Has(TopOf(f), "Attachments") THEN <<LastOf(TopOf(f), "Attachments")>> ELSE <<>>
    BY DEF SourceKnown, SourceRead
  <2> HIDE DEF old
  <2> QED BY <2>1
<1>6. /\ Has(s, "Attachments") <=> old.attachments # <<>>
      /\ old.attachments # <<>> => /\ Stands(b, LastOf(s, "Attachments"), Raw(f, old.attachments[1]))
                                   /\ LastOf(s, "Attachments").to = LastOf(s, "Attachments").from + Len(Raw(f, old.attachments[1]))
  BY DEF ElementsRead
<1>7. RawAttachments(b, src) = RawAttachments(f, old)
  <2>1. CASE old.attachments = <<>>
    <3>1. src.attachments = <<>> BY <1>2, <1>6, <2>1
    <3> HIDE DEF src, old
    <3> QED BY <2>1, <3>1 DEF RawAttachments
  <2>2. CASE old.attachments # <<>>
    <3> DEFINE e == LastOf(s, "Attachments")
               a == old.attachments[1]
               x == Raw(f, a)
    <3>1. Stands(b, e, x) /\ e.to = e.from + Len(x) /\ src.attachments = <<e>> /\ old.attachments = <<a>>
      BY <1>2, <1>5, <1>6, <2>2
    <3>2. a \in FileElem(f) BY <2>2, SourceAttached
    <3> HIDE DEF e, a
    <3>3. x \in Seq(Cell) BY <3>2, RawType
    <3> HIDE DEF x
    <3>4. SubSeq(b, e.from + 1, e.from + Len(x)) = x
      <4>1. At(b, e.from, x) BY <3>1 DEF Stands
      <4> DEFINE p == e.from
      <4>2. At(b, p, x) BY <4>1
      <4> HIDE DEF p
      <4>3. SubSeq(b, p + 1, p + Len(x)) = x BY <3>3, <4>2, AtSlice
      <4> QED BY <4>3 DEF p
    <3>5. Raw(b, e) = x BY <3>1, <3>4 DEF Raw
    <3>6. Raw(b, e) = Raw(f, a) BY <3>5 DEF x
    <3> HIDE DEF src, old
    <3>7. RawAttachments(b, src) = <<Raw(b, e)>> BY <3>1 DEF RawAttachments
    <3>8. RawAttachments(f, old) = <<Raw(f, a)>> BY <3>1 DEF RawAttachments
    <3> QED BY <3>6, <3>7, <3>8
  <2> QED BY <2>1, <2>2
<1>8. src.duration = d /\ src.video = VideoTrack BY <1>2 DEF ClipHeadReads
<1> HIDE DEF q, s
<1> QED BY <1>2, <1>3, <1>4, <1>7, <1>8 DEF ClipIsOpen

\* The clusters of a clip, one after the other.
LEMMA ClipRow ==
  ASSUME NEW f, NEW src, NEW cs, NEW origin, NEW endT, NEW ks, f \in Seq(Cell), cs \in Seq(CutCluster(f)), cs # <<>>,
         origin \in Nat, endT \in Int, endT - origin < Pow(UintBase, Wide), cs[1].timestamp = origin,
         CutCarries(f, cs, origin, ks), Keyed(f, src, cs, origin, endT)
  PROVE  CellRow(ClusterCells(f, cs, origin), [i \in 1..Len(cs) |-> cs[i].timestamp - origin],
                 [i \in 1..Len(cs) |-> BodyOf(f, cs, i)])
<1> DEFINE cells == ClusterCells(f, cs, origin)
           T == [i \in 1..Len(cs) |-> cs[i].timestamp - origin]
           R == [i \in 1..Len(cs) |-> BodyOf(f, cs, i)]
           top == Pow(UintBase, Wide)
<1>1. cells \in Seq(Seq(Cell)) /\ Len(cells) = Len(cs) BY ClusterContent
<1>2. Len(cs) \in Nat /\ Len(cs) > 0
  <2> DEFINE U == CutCluster(f)
  <2>1. cs \in Seq(U) OBVIOUS
  <2> HIDE DEF U
  <2> QED BY <2>1
<1>3. origin < endT /\ \A i \in 2..Len(cs) : cs[i].timestamp < endT BY DEF Keyed
<1>4. ASSUME NEW i \in 1..Len(cs)
      PROVE  /\ cells[i] = TimedElement(T[i], R[i]) /\ T[i] \in Nat /\ T[i] < top /\ R[i] \in Chains(BodyUnits)
  <2> DEFINE t == cs[i].timestamp
             x == BodyOf(f, cs, i)
  <2>1. T[i] = t - origin /\ R[i] = x OBVIOUS
  <2>2. CutMade(f, cs, origin, i) BY CutClusterMade
  <2>3. t - origin \in Nat /\ cells[i] = TimedElement(t - origin, x) BY <2>2 DEF CutMade, CutElement
  <2>4. t \in Nat /\ Carried(x, t, ks[i], origin) BY DEF CutCarries, BodyOf
  <2>5. x \in Chains(BodyUnits) BY <2>4 DEF Carried
  <2>6. i = 1 => t = origin OBVIOUS
  <2>7. i # 1 => t < endT
    <3>1. i # 1 => i \in 2..Len(cs) BY <1>2
    <3> QED BY <1>3, <3>1
  <2> HIDE DEF t, x, T, R, cells
  <2>8. t - origin < top
    <3> HIDE DEF top
    <3>1. endT - origin < top BY DEF top
    <3>2. top \in Nat
      <4>1. Wide \in Nat /\ UintBase \in Nat /\ UintBase > 0 BY EbmlAssumption
      <4> QED BY <4>1, PowNat DEF top
    <3> QED BY <1>3, <2>4, <2>6, <2>7, <3>1, <3>2
  <2>9. T[i] \in Nat /\ T[i] < top BY <2>1, <2>3, <2>8
  <2>10. cells[i] = TimedElement(T[i], R[i])
    <3> DEFINE a == T[i]
               c == t - origin
    <3>1. a = c BY <2>1
    <3> HIDE DEF a, c
    <3>2. cells[i] = TimedElement(c, x) BY <2>3 DEF c
    <3>3. cells[i] = TimedElement(a, x) BY <3>1, <3>2
    <3> QED BY <2>1, <3>3 DEF a
  <2> QED BY <2>1, <2>5, <2>9, <2>10
<1> HIDE DEF cells, T, R
<1>5. CellRow(cells, T, R) BY <1>1, <1>2, <1>4 DEF CellRow
<1> QED BY <1>5 DEF cells, T, R

\* A clip that is read back: its first cluster is at t.
ReadFine(b, src, t) ==
  LET read == ReadBack(b, src) IN read.ok /\ read.src = src /\ read.clusters[1].timestamp = t

LEMMA FineReads ==
  ASSUME NEW b, NEW src, NEW t, src.ok, FineClusters(b, collectClusters(b, src, src.first, Len(b)), t)
  PROVE  ReadFine(b, src, t)
<1> DEFINE clusters == collectClusters(b, src, src.first, Len(b))
           blocks == [k \in DOMAIN clusters |-> readBlocks(b, clusters[k])]
           read == ReadBack(b, src)
           frames == FlattenSeq([k \in DOMAIN clusters |-> FramesOf(b, clusters[k], blocks[k].blocks)])
<1>1. read = ReadClusters(b, src, clusters) BY DEF ReadBack
<1>2. /\ \A k \in 1..Len(clusters) : clusters[k].ok /\ readBlocks(b, clusters[k]).ok
      /\ clusters \in Seq(FileCluster(b)) /\ clusters[1].timestamp = t
  BY DEF FineClusters
<1> HIDE DEF clusters, read
<1>3. DOMAIN clusters = 1..Len(clusters)
  <2> DEFINE U == FileCluster(b)
  <2>1. clusters \in Seq(U) BY <1>2
  <2> HIDE DEF U
  <2> QED BY <2>1
<1>4. \A k \in DOMAIN clusters : clusters[k].ok /\ readBlocks(b, clusters[k]).ok BY <1>2, <1>3
<1>5. ReadClusters(b, src, clusters) = Frames(b, src, clusters, blocks) BY <1>4 DEF ReadClusters
<1>6. \A k \in DOMAIN blocks : blocks[k].ok BY <1>4
<1> HIDE DEF blocks
<1>7. Frames(b, src, clusters, blocks) = [ok |-> TRUE, src |-> src, clusters |-> clusters, frames |-> frames]
  BY <1>6 DEF Frames
<1> HIDE DEF frames
<1>8. read.ok /\ read.src = src /\ read.clusters = clusters BY <1>1, <1>5, <1>7
<1> QED BY <1>2, <1>8 DEF ReadFine, read

\* A clip that is opened is read back.
LEMMA OpenClipReads ==
  ASSUME NEW b, NEW f, NEW cs, NEW origin, NEW d, NEW T, NEW R, b \in Seq(Cell), Small(b),
         ClipIsOpen(b, f, cs, origin, d), CellRow(ClusterCells(f, cs, origin), T, R)
  PROVE  ReadFine(b, Open(b), T[1])
<1> DEFINE src == Open(b)
           q == src.first
           cells == ClusterCells(f, cs, origin)
<1>1. src.ok /\ AtEnd(b, q, cells) /\ src.segEnd = Len(b) BY DEF ClipIsOpen
<1>2. At(b, q, FlattenSeq(cells)) /\ src.segEnd = q + Len(FlattenSeq(cells)) BY <1>1 DEF AtEnd
<1> DEFINE endT == Len(b)
<1> HIDE DEF src, q, cells, endT
<1>3. CellRow(cells, T, R) BY DEF cells
<1>4. FineClusters(b, collectClusters(b, src, q, endT), T[1]) BY <1>2, <1>3, RowCollects
<1> QED BY <1>1, <1>4, FineReads DEF src, q, endT

\* A clip that is read without an error, is as long as it says and has what its source has.
ReadsAs(b, f, d) ==
  /\ ReadFine(b, Open(b), 0) /\ Open(b).duration = d /\ Open(b).video = VideoTrack
  /\ RawAttachments(b, Open(b)) = RawAttachments(f, Open(f))

LEMMA BuiltReadable ==
  ASSUME SourceInv, NEW f, NEW built, NEW b, Prefix(f, File), Small(File), Len(File) < Pow(UintBase, Wide),
         BuiltAs(f, Open(f), built), built.ok, Open(f).ok, b = Content(built.parts, f), b \in Seq(Cell), Small(b),
         Len(b) < Pow(UintBase, Wide), built.end < Pow(UintBase, Wide)
  PROVE  ReadsAs(b, f, built.end - built.start)
<1> DEFINE src == Open(f)
           origin == built.start
           parts == built.parts
           top == Pow(UintBase, Wide)
<1>0. f \in Seq(Cell) BY DEF Prefix
<1>1. SourceOf(f, src) /\ \E cs, endT, ks : BuiltBy(f, src, built, cs, endT, ks) BY DEF BuiltAs
<1>2. PICK cs, endT, ks : BuiltBy(f, src, built, cs, endT, ks) BY <1>1
<1>3. /\ cs \in Seq(CutCluster(f)) /\ cs # <<>> /\ endT \in Int /\ origin \in Nat /\ built.end = endT
      /\ cs[1].timestamp = origin /\ Titled(f, src, cs, origin, endT, parts)
      /\ Keyed(f, src, cs, origin, endT) /\ CutCarries(f, cs, origin, ks)
  BY <1>2 DEF BuiltBy
<1>4. PICK title \in Cell : AssembledAs(f, src, cs, origin, endT, title, parts) BY <1>3 DEF Titled
<1> DEFINE info == InfoOf(f, src, origin, endT, title)
           tracks == TracksOf(f, src)
<1>5. PICK pos : Shaped(src, cs, origin, endT, parts, info, tracks, pos) BY <1>4 DEF AssembledAs
<1>6. b = Content(parts, f) /\ Small(Content(parts, f)) /\ src.ok /\ Small(b) /\ b \in Seq(Cell) /\ Len(b) < top
      /\ endT < top
  BY <1>3
<1>7. SourceKnown(f)
  <2> HIDE DEF top
  <2> QED BY SourceIsKnown
<1> HIDE DEF origin, parts
<1>8. origin \in Int BY <1>3
<1>9. PICK ss, ps : ClipOfPieces(b, f, cs, origin, endT, title, pos, ss, ps)
  <2> HIDE DEF src, info, tracks
  <2>1. AllPlaced(Content(parts, f), f, src, cs, origin, endT, info, tracks, pos)
    BY <1>0, <1>1, <1>3, <1>5, <1>6, <1>8, ShapedPlaced
  <2>2. AllPlaced(b, f, src, cs, origin, endT, info, tracks, pos) BY <1>6, <2>1
  <2> QED BY <2>2 DEF AllPlaced, ClipOfPieces, src, info, tracks
<1> HIDE DEF info, tracks
<1>10. ClipParted(b, f, cs, origin, ss) BY <1>0, <1>3, <1>6, <1>8, <1>9, ClipTop
<1>11. ElementsRead(b, f, cs, origin, endT, title, pos) BY <1>9, <1>10, ClipElements
<1>12. endT - origin < top
  <2>1. top \in Nat
    <3>1. Wide \in Nat /\ UintBase \in Nat /\ UintBase > 0 BY EbmlAssumption
    <3> QED BY <3>1, PowNat
  <2> HIDE DEF top
  <2> QED BY <1>3, <1>6, <2>1
<1> DEFINE d == endT - origin
<1>13. ClipHeadReads(b, d)
  BY <1>0, <1>1, <1>3, <1>6, <1>7, <1>9, <1>10, <1>11, <1>12, <1>4, ClipOpenable
<1> HIDE DEF d
<1>14. ClipIsOpen(b, f, cs, origin, d) BY <1>0, <1>1, <1>6, <1>7, <1>10, <1>11, <1>13, ClipIsOpened
<1> DEFINE T == [i \in 1..Len(cs) |-> cs[i].timestamp - origin]
           R == [i \in 1..Len(cs) |-> BodyOf(f, cs, i)]
<1>15. CellRow(ClusterCells(f, cs, origin), T, R)
  <2> HIDE DEF src
  <2> QED BY <1>0, <1>3, <1>12, ClipRow
<1>16. T[1] = 0
  <2> DEFINE U == CutCluster(f)
  <2>1. cs \in Seq(U) /\ cs # <<>> BY <1>3
  <2> HIDE DEF U
  <2>2. 1 \in 1..Len(cs) BY <2>1
  <2> QED BY <1>3, <2>2
<1> HIDE DEF T, R
<1>17. ReadFine(b, Open(b), 0)
  <2>1. ReadFine(b, Open(b), T[1]) BY <1>6, <1>14, <1>15, OpenClipReads
  <2> QED BY <1>16, <2>1
<1>18. d = built.end - built.start BY <1>3 DEF d, origin
<1> QED BY <1>14, <1>17, <1>18 DEF ClipIsOpen, ReadsAs

\* The file and the clip are not longer than a size or a position can say.
Sized == /\ Small(File) /\ Len(File) < Pow(UintBase, Wide)
         /\ HasClip => Small(clip.bytes) /\ Len(clip.bytes) < Pow(UintBase, Wide)

LEMMA ReadableHere ==
  ASSUME FrameInv, Sized
  PROVE  Readable
<1> DEFINE b == clip.bytes
           built == clip.built
           f == clip.file
<1> SUFFICES ASSUME HasClip
             PROVE  /\ clip.read.ok
                    /\ LET src == clip.read.src
                       IN  /\ clip.read.clusters[1].timestamp = 0
                           /\ src.duration = clip.built.end - clip.built.start
                           /\ src.video = VideoTrack
                           /\ RawAttachments(clip.bytes, src) = RawAttachments(clip.file, Open(clip.file))
  BY DEF Readable
<1>1. SourceInv /\ ClipOf(clip) /\ CutOf(clip) /\ clip.ok BY DEF FrameInv, CutInv, HasClip
<1>2. Small(File) /\ Len(File) < Pow(UintBase, Wide) /\ Small(b) /\ Len(b) < Pow(UintBase, Wide) BY DEF Sized
<1>3. /\ f \in Seq(Cell) /\ built.ok /\ b = Content(built.parts, f) /\ Fits(f, Open(f), built) BY <1>1 DEF ClipOf
<1>4. /\ Prefix(f, File) /\ clip.read = ReadBack(b, Open(b))
      /\ \E start \in Nat, end \in 0..MaxTime : built = buildMKV(f, Open(f), start, end)
  BY <1>1 DEF CutOf
<1>5. PICK start \in Nat, end \in 0..MaxTime : built = buildMKV(f, Open(f), start, end) BY <1>4
<1>6. Open(f).ok
  <2>1. ~Failed.ok BY DEF Failed
  <2> QED BY <1>3, <1>5, <2>1 DEF buildMKV
<1>7. end \in Nat /\ end <= MaxTime BY <1>5, CutAssumption
<1>8. BuiltAs(f, Open(f), built)
  <2> HIDE DEF b, built, f
  <2> QED BY <1>1, <1>2, <1>4, <1>5, <1>7, MkvBuilt
<1>9. built.end < Pow(UintBase, Wide)
  <2> DEFINE src == Open(f)
             top == Pow(UintBase, Wide)
             title == [is |-> "text"]
  <2>1. built = BuildClip(f, src, start, end, title) BY <1>5, <1>6 DEF buildMKV
  <2>2. src.duration \in Nat
    <3>1. SourceOf(f, src) BY <1>3, <1>8 DEF BuiltAs
    <3> QED BY <3>1 DEF SourceOf
  <2>3. built.end \in Int
    <3>1. PICK cs, endT, ks : BuiltBy(f, src, built, cs, endT, ks) BY <1>3, <1>8 DEF BuiltAs
    <3> QED BY <3>1 DEF BuiltBy
  <2> HIDE DEF src, built, title, f
  <2>4. BuildClip(f, src, start, end, title).end <= end BY <1>3, <1>7, <2>1, <2>2, BuildEnds
  <2>5. built.end <= end BY <2>1, <2>4
  <2>6. top \in Nat
    <3>1. Wide \in Nat /\ UintBase \in Nat /\ UintBase > 0 BY EbmlAssumption
    <3> QED BY <3>1, PowNat
  <2>7. MaxTime \in Nat /\ MaxTime < top BY CutAssumption
  <2> HIDE DEF top
  <2>8. built.end < top BY <1>7, <2>3, <2>5, <2>6, <2>7
  <2> QED BY <2>8 DEF top
<1> HIDE DEF b, built, f
<1>10. b \in Seq(Cell)
  <2>1. built.parts \in Laid(f) BY <1>3 DEF Fits
  <2> DEFINE parts == built.parts
  <2>2. parts \in FileParts(f) BY <1>3, <2>1, LaidAreParts
  <2> HIDE DEF parts
  <2>3. Content(parts, f) \in Seq(Cell) BY <1>3, <2>2, ContentType DEF FileParts, FilePart
  <2> QED BY <1>3, <2>3 DEF parts
<1>11. ReadsAs(b, f, built.end - built.start)
  BY <1>1, <1>2, <1>3, <1>4, <1>6, <1>8, <1>9, <1>10, BuiltReadable
<1>12. /\ clip.read.ok /\ clip.read.src = Open(b) /\ clip.read.clusters[1].timestamp = 0
       /\ Open(b).duration = built.end - built.start /\ Open(b).video = VideoTrack
       /\ RawAttachments(b, Open(b)) = RawAttachments(f, Open(f))
  BY <1>4, <1>11 DEF ReadsAs, ReadFine
<1> QED BY <1>12 DEF b, built, f

\* Whatever a muxer writes, wherever the file ends and whatever is asked for, a clip that is cut
\* is a file that reads as what it says: Open and the blocks of every cluster are read without
\* an error, it starts at 0 with its first cluster, it is as long as what is asked for and its
\* video and its attachments are the source's (assemble, cuesElement, newHeader, cutClusters).
\* It assumes that the file and the clip are not longer than a size and a position can say.
THEOREM ClipsAlwaysReadable == Spec => [](Sized => Readable)
<1>1. FrameInv => (Sized => Readable) BY ReadableHere
<1> QED BY <1>1, FrameCorrect, PTL

LEMMA FaithfulSized ==
  ASSUME FrameInv, Sized
  PROVE  FramesFaithful
<1>1. Readable BY ReadableHere
<1>2. Legible BY <1>1 DEF Legible, Sized, Readable
<1> QED BY <1>2, FaithfulHere

\* Whatever a muxer writes, wherever the file ends and whatever is asked for, the frames that
\* are read of a clip are frames of the source, each at most once, in the order they are stored,
\* of their track and as far apart as they are there (keepFrom, keepUntil, rebasedParts,
\* cutClusters).  It assumes that the file and the clip are not longer than a size and a
\* position can say.
THEOREM FramesAlwaysFaithful == Spec => [](Sized => FramesFaithful)
<1>1. FrameInv => (Sized => FramesFaithful) BY FaithfulSized
<1> QED BY <1>1, FrameCorrect, PTL
=============================================================================
