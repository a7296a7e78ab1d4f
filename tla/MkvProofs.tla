----------------------------- MODULE MkvProofs -----------------------------
(***************************************************************************)
(* Proofs about Mkv and Ebml: whatever the cells of a file say, what is    *)
(* read from it lies where the code takes it to be, and a clip that is     *)
(* built is a layout that fits the file.  Elements that are written one    *)
(* after the other are found again by the walks that read them, whatever   *)
(* is put around them or cut off behind them.                              *)
(***************************************************************************)
EXTENDS Mkv, LayoutProofs

\* The ids that are read or written, and every other one.
Ids == {"EBML", "Segment", "SeekHead", "Seek", "SeekID", "SeekPosition", "Info", "TimestampScale",
        "Duration", "Title", "SegmentUID", "Tracks", "TrackEntry", "TrackNumber", "TrackType",
        "Attachments", "Cues", "CuePoint", "CueTime", "CueTrackPositions", "CueTrack",
        "CueClusterPosition", "Cluster", "Timestamp", "PrevSize", "SimpleBlock", "BlockGroup", "Block",
        "BlockDuration", "EncryptedBlock", "Tags", "Void", "CRC-32", "bad", "other"}

Cell ==
  [is : {"head"}, id : Ids, size : Nat, w : Nat \ {0}]
    \cup [is : {"num"}, v : Nat] \cup [is : {"rel"}, v : Int] \cup [is : {"id"}, id : Ids]
    \cup [is : {"frame"}, at : Nat \X Nat] \cup [is : {"pad", "text"}]

LEMMA HeadCell ==
  ASSUME NEW c, c \in Cell, c.is = "head"
  PROVE  c.id \in Ids /\ c.size \in Nat /\ c.w \in Nat /\ c.w > 0
BY DEF Cell

LEMMA NumCell ==
  ASSUME NEW c, c \in Cell, c.is = "num"
  PROVE  c.v \in Nat
BY DEF Cell

LEMMA RelCell ==
  ASSUME NEW c, c \in Cell, c.is = "rel"
  PROVE  c.v \in Int
BY DEF Cell

LEMMA NewCells ==
  /\ \A v \in Nat : Num(v) \in Cell
  /\ \A id \in Ids : Id(id) \in Cell
  /\ \A id \in Ids : \A size, w \in Nat : w > 0 => [is |-> "head", id |-> id, size |-> size, w |-> w] \in Cell
  /\ \A k, i \in Nat : [is |-> "frame", at |-> <<k, i>>] \in Cell
  /\ Pad \in Cell /\ [is |-> "text"] \in Cell
  /\ \A v \in Int : [is |-> "rel", v |-> v] \in Cell
BY DEF Num, Id, Pad, Cell

LEMMA GreatestNumber ==
  ASSUME NEW S, NEW n, n \in Nat, S \subseteq 0..n, S # {}
  PROVE  Max(S) \in S /\ \A m \in S : m <= Max(S)
<1> DEFINE T == {n - m : m \in S}
<1>0. \A m \in S : m \in 0..n /\ m \in Nat
  <2> HIDE DEF T
  <2> QED OBVIOUS
<1>1. T \in SUBSET Nat /\ T # {}
  <2>1. \A m \in S : n - m \in Nat BY <1>0
  <2>2. PICK m \in S : TRUE OBVIOUS
  <2>3. n - m \in T OBVIOUS
  <2> QED BY <2>1, <2>3
<1>2. PICK k \in T : \A m \in T : k <= m
  <2> HIDE DEF T
  <2> QED BY <1>1, LeastNumber
<1>3. n - k \in S /\ \A m \in S : n - k >= m
  <2>1. PICK x \in S : k = n - x BY <1>2
  <2>2. \A m \in S : n - m \in T OBVIOUS
  <2>3. \A m \in S : k <= n - m /\ m \in Nat BY <1>2, <2>2
  <2>4. x \in Nat /\ n - k = x BY <2>1
  <2> QED BY <2>1, <2>3, <2>4
<1>4. \E x \in S : \A m \in S : x >= m BY <1>3
<1>5. Max(S) \in S /\ \A m \in S : Max(S) >= m BY <1>4 DEF Max
<1> HIDE DEF T
<1> QED BY <1>0, <1>5

LEMMA SmallestNumber ==
  ASSUME NEW S, S \subseteq Nat, S # {}
  PROVE  Min(S) \in S /\ \A m \in S : Min(S) <= m
<1>1. \E x \in S : \A m \in S : x <= m BY LeastNumber
<1> QED BY <1>1 DEF Min

LEMMA PowNat ==
  ASSUME NEW b, NEW n, b \in Nat, b > 0, n \in Nat
  PROVE  Pow(b, n) \in Nat /\ Pow(b, n) > 0
<1> DEFINE U == Nat \ {0}
           step == [i \in 0..n |-> [u \in U |-> b * u]]
           pow[i \in 0..n] == IF i = 0 THEN 1 ELSE b * pow[i - 1]
<1>1. \A u \in U : b * u \in U OBVIOUS
<1>2. step \in [0..n -> [U -> U]] BY <1>1
<1>3. PICK g \in [0..n -> U] : \A i \in 0..n : g[i] = IF i = 0 THEN 1 ELSE step[i][g[i - 1]]
  <2>1. 1 \in U /\ 0 \in Int /\ n \in Int OBVIOUS
  <2> HIDE DEF U, step
  <2>2. Recursive(U, 0, n, 1, step) BY <2>1, <1>2, FiniteRecursion
  <2> QED BY <2>2 DEF Recursive
<1>4. g = [i \in 0..n |-> IF i = 0 THEN 1 ELSE b * g[i - 1]]
  <2>1. \A i \in 0..n : i # 0 => i - 1 \in 0..n OBVIOUS
  <2>2. \A i \in 0..n : g[i] = IF i = 0 THEN 1 ELSE b * g[i - 1]
    <3> HIDE DEF U
    <3> QED BY <2>1, <1>3
  <2> HIDE DEF U
  <2> QED BY <2>2
<1>5. pow = [i \in 0..n |-> IF i = 0 THEN 1 ELSE b * pow[i - 1]]
  <2> HIDE DEF U
  <2> QED BY <1>4
<1>6. Agree(g, pow, 0, n)
  <2> HIDE DEF pow, U, step
  <2>1. \A i \in 0..n : /\ pow[i] = IF i = 0 THEN 1 ELSE b * pow[i - 1]
                        /\ g[i] = IF i = 0 THEN 1 ELSE b * g[i - 1]
    BY <1>4, <1>5
  <2>2. 0 \in 0..n /\ 0 \in Int /\ n \in Int OBVIOUS
  <2>3. g[0] = pow[0] BY <2>1, <2>2
  <2>4. \A i \in 0..n : i > 0 /\ g[i - 1] = pow[i - 1] => g[i] = pow[i] BY <2>1
  <2> QED BY <2>2, <2>3, <2>4, FiniteRecursionUnique
<1>7. Pow(b, n) = pow[n] BY DEF Pow
<1>8. n \in 0..n OBVIOUS
<1>9. pow[n] \in U
  <2> HIDE DEF pow, U
  <2> QED BY <1>6, <1>8 DEF Agree
<1> HIDE DEF pow
<1> QED BY <1>7, <1>9


-----------------------------------------------------------------------------
(* What is written consists of cells.                                        *)

LEMMA CellsType ==
  ASSUME NEW c, NEW width, c \in Cell, width \in Nat
  PROVE  Cells(c, width) \in Seq(Cell) /\ Len(Cells(c, width)) = width
<1>1. \A i \in 1..width : (IF i = 1 THEN c ELSE Pad) \in Cell BY NewCells
<1>2. Cells(c, width) \in [1..width -> Cell]
  <2>1. Cells(c, width) = [i \in 1..width |-> IF i = 1 THEN c ELSE Pad] BY DEF Cells
  <2> QED BY <1>1, <2>1
<1> QED BY <1>2, FunctionIsSequence

LEMMA Remainder ==
  ASSUME NEW v, NEW p, v \in Int, p \in Nat, p > 0
  PROVE  v % p \in Nat
OBVIOUS

LEMMA RelType ==
  ASSUME NEW d, d \in Int
  PROVE  Rel(d) \in Cell
<1> DEFINE v == ((d + RelRange) % (2 * RelRange)) - RelRange
           x == d + RelRange
           y == 2 * RelRange
<1>1. RelRange \in Nat /\ RelRange > 0 BY MkvAssumption
<1>2. x \in Int /\ y \in Nat /\ y > 0 BY <1>1
<1>3. v = (x % y) - RelRange OBVIOUS
<1> HIDE DEF x, y
<1>4. x % y \in Nat BY <1>2, Remainder
<1> HIDE DEF v
<1>5. v \in Int BY <1>1, <1>3, <1>4
<1>6. [is |-> "rel", v |-> v] \in Cell BY <1>5, NewCells
<1> QED BY <1>6 DEF Rel, v

LEMMA SizeHeaderType ==
  ASSUME NEW id, NEW n, NEW width, id \in Ids, n \in Int, width \in Nat, width > 0
  PROVE  AppendSizeWidth(id, n, width) \in Seq(Cell)
<1> DEFINE p == Pow(SizeBase, width)
           c == [is |-> "head", id |-> id, size |-> n % p, w |-> width]
<1>1. SizeBase \in Nat /\ SizeBase > 0 BY EbmlAssumption
<1>2. p \in Nat /\ p > 0 BY <1>1, PowNat
<1> HIDE DEF p
<1>3. n % p \in Nat BY <1>2, Remainder
<1>4. c \in Cell BY <1>3, NewCells
<1> HIDE DEF c
<1>5. Cells(c, width) \in Seq(Cell) BY <1>4, CellsType
<1> QED BY <1>5 DEF AppendSizeWidth, c, p

\* The least width that satisfies a condition, or Wide.
LEMMA LeastWidth ==
  ASSUME NEW S
  PROVE  \E w \in 1..Wide : (w = Wide \/ w \in S) /\ \A x \in 1..(w - 1) : x \notin S
<1> DEFINE T == {w \in Nat : w \in 1..Wide /\ (w = Wide \/ w \in S)}
<1>1. Wide \in T BY EbmlAssumption
<1>2. T \in SUBSET Nat OBVIOUS
<1>3. PICK w \in T : \A x \in T : w <= x
  <2> HIDE DEF T
  <2> QED BY <1>1, <1>2, LeastNumber
<1>4. Wide \in Nat BY EbmlAssumption
<1>5. \A x \in 1..(w - 1) : x \notin S
  <2> SUFFICES ASSUME NEW x \in 1..(w - 1), x \in S PROVE FALSE OBVIOUS
  <2>1. x \in T /\ ~(w <= x) BY <1>4
  <2> HIDE DEF T
  <2> QED BY <1>3, <2>1
<1> QED BY <1>3, <1>5

LEMMA SizeWidthType ==
  ASSUME NEW n, n \in Int
  PROVE  SizeWidth(n) \in 1..Wide /\ (SizeWidth(n) = Wide \/ n < Pow(SizeBase, SizeWidth(n)) - 1)
<1> DEFINE S == {w \in 1..Wide : n < Pow(SizeBase, w) - 1}
<1>0. \A w \in 1..Wide : Pow(SizeBase, w) \in Nat
  <2>1. SizeBase \in Nat /\ SizeBase > 0 /\ \A w \in 1..Wide : w \in Nat BY EbmlAssumption
  <2> QED BY <2>1, PowNat
<1>1. PICK w \in 1..Wide : (w = Wide \/ w \in S) /\ \A x \in 1..(w - 1) : x \notin S
  <2> HIDE DEF S
  <2> QED BY LeastWidth
<1>2. \A x \in 1..(w - 1) : n >= Pow(SizeBase, x) - 1
  <2> SUFFICES ASSUME NEW x \in 1..(w - 1) PROVE n >= Pow(SizeBase, x) - 1 OBVIOUS
  <2>1. x \in 1..Wide BY EbmlAssumption
  <2>2. ~(n < Pow(SizeBase, x) - 1) BY <1>1, <2>1
  <2> QED BY <1>0, <2>1, <2>2
<1>3. w = Wide \/ n < Pow(SizeBase, w) - 1 BY <1>1
<1> QED BY <1>2, <1>3 DEF SizeWidth

LEMMA ElementType ==
  ASSUME NEW id, NEW data, id \in Ids, data \in Seq(Cell)
  PROVE  AppendElement(id, data) \in Seq(Cell)
<1>1. Len(data) \in Int OBVIOUS
<1>2. SizeWidth(Len(data)) \in Nat /\ SizeWidth(Len(data)) > 0
  <2>1. SizeWidth(Len(data)) \in 1..Wide BY <1>1, SizeWidthType
  <2> QED BY <2>1, EbmlAssumption
<1>3. AppendSizeWidth(id, Len(data), SizeWidth(Len(data))) \in Seq(Cell) BY <1>1, <1>2, SizeHeaderType
<1>4. AppendSizeWidth(id, Len(data), SizeWidth(Len(data))) \o data \in Seq(Cell)
  BY <1>3, ConcatProperties
<1> QED BY <1>4 DEF AppendElement

LEMMA UintWidthType ==
  ASSUME NEW id, NEW v, NEW width, id \in Ids, v \in Int, width \in Nat
  PROVE  AppendUintWidth(id, v, width) \in Seq(Cell)
<1> DEFINE p == Pow(UintBase, width)
<1>1. UintBase \in Nat /\ UintBase > 0 BY EbmlAssumption
<1>2. p \in Nat /\ p > 0 BY <1>1, PowNat
<1> HIDE DEF p
<1>3. v % p \in Nat BY <1>2, Remainder
<1>4. Num(v % p) \in Cell BY <1>3, NewCells
<1>5. Cells(Num(v % p), width) \in Seq(Cell) BY <1>4, CellsType
<1>6. AppendElement(id, Cells(Num(v % p), width)) \in Seq(Cell) BY <1>5, ElementType
<1> QED BY <1>6 DEF AppendUintWidth, p

LEMMA UintType ==
  ASSUME NEW id, NEW v, id \in Ids, v \in Int
  PROVE  AppendUint(id, v) \in Seq(Cell)
<1> DEFINE S == {n \in 1..Wide : v < Pow(UintBase, n)}
           width == CHOOSE n \in 1..Wide : /\ n = Wide \/ v < Pow(UintBase, n)
                                           /\ \A x \in 1..(n - 1) : v >= Pow(UintBase, x)
<1>0. \A n \in 1..Wide : Pow(UintBase, n) \in Nat
  <2>1. UintBase \in Nat /\ UintBase > 0 /\ \A n \in 1..Wide : n \in Nat BY EbmlAssumption
  <2> QED BY <2>1, PowNat
<1>1. PICK n \in 1..Wide : (n = Wide \/ n \in S) /\ \A x \in 1..(n - 1) : x \notin S
  <2> HIDE DEF S
  <2> QED BY LeastWidth
<1>2. \A x \in 1..(n - 1) : v >= Pow(UintBase, x)
  <2> SUFFICES ASSUME NEW x \in 1..(n - 1) PROVE v >= Pow(UintBase, x) OBVIOUS
  <2>1. x \in 1..Wide BY EbmlAssumption
  <2>2. ~(v < Pow(UintBase, x)) BY <1>1, <2>1
  <2> QED BY <1>0, <2>1, <2>2
<1>3. width \in 1..Wide BY <1>1, <1>2
<1>4. width \in Nat BY <1>3, EbmlAssumption
<1> HIDE DEF width
<1>5. AppendUintWidth(id, v, width) \in Seq(Cell) BY <1>4, UintWidthType
<1> QED BY <1>5 DEF AppendUint, width

\* How long an element is whose payload has n cells.
ElementLen(n) == SizeWidth(n) + n

LEMMA LenOfElement ==
  ASSUME NEW id, NEW data, id \in Ids, data \in Seq(Cell)
  PROVE  Len(AppendElement(id, data)) = ElementLen(Len(data)) /\ ElementLen(Len(data)) \in Nat
<1> DEFINE n == Len(data)
           w == SizeWidth(n)
           x == AppendSizeWidth(id, n, w)
<1>1. n \in Nat /\ n \in Int OBVIOUS
<1>2. w \in Nat /\ w > 0
  <2>1. w \in 1..Wide BY <1>1, SizeWidthType
  <2> QED BY <2>1, EbmlAssumption
<1>3. AppendElement(id, data) = x \o data BY DEF AppendElement
<1> HIDE DEF n, w
<1>4. x \in Seq(Cell) /\ Len(x) = w
  <2> DEFINE m == n % Pow(SizeBase, w)
             c == [is |-> "head", id |-> id, size |-> m, w |-> w]
  <2>1. m \in Nat
    <3>1. SizeBase \in Nat /\ SizeBase > 0 BY EbmlAssumption
    <3>2. Pow(SizeBase, w) \in Nat /\ Pow(SizeBase, w) > 0 BY <1>2, <3>1, PowNat
    <3> QED BY <1>1, <3>2, Remainder
  <2>2. x = Cells(c, w) BY DEF AppendSizeWidth
  <2> HIDE DEF m
  <2>3. c \in Cell BY <1>2, <2>1, NewCells
  <2> HIDE DEF c
  <2> QED BY <1>2, <2>2, <2>3, CellsType
<1> HIDE DEF x
<1>5. Len(x \o data) = w + n BY <1>4 DEF n
<1> QED BY <1>1, <1>2, <1>3, <1>5 DEF ElementLen, n, w

LEMMA LenOfUint ==
  ASSUME NEW id, NEW v, NEW width, id \in Ids, v \in Int, width \in Nat
  PROVE  Len(AppendUintWidth(id, v, width)) = ElementLen(width) /\ ElementLen(width) \in Nat
<1> DEFINE p == Pow(UintBase, width)
           x == Cells(Num(v % p), width)
<1>1. UintBase \in Nat /\ UintBase > 0 BY EbmlAssumption
<1>2. p \in Nat /\ p > 0 BY <1>1, PowNat
<1>5. AppendUintWidth(id, v, width) = AppendElement(id, x) BY DEF AppendUintWidth
<1> HIDE DEF p
<1>3. v % p \in Nat BY <1>2, Remainder
<1>4. Num(v % p) \in Cell BY <1>3, NewCells
<1>6. x \in Seq(Cell) /\ Len(x) = width BY <1>4, CellsType
<1> HIDE DEF x
<1> QED BY <1>5, <1>6, LenOfElement

-----------------------------------------------------------------------------
(* What is read from any file of cells.                                      *)

\* A header, which is in the file unless it is bad.
HeaderOf(b, off, h) ==
  /\ h.id \in Ids /\ h.w \in Nat /\ (h.size \in Nat \/ h.size = UnknownSize)
  /\ h.id # "bad" => h.w > 0 /\ off + h.w <= Len(b)

LEMMA HeaderRead ==
  ASSUME NEW b, NEW off, b \in Seq(Cell), off \in Nat
  PROVE  HeaderOf(b, off, ReadHeaderAt(b, off))
<1> DEFINE c == b[off + 1]
           h == ReadHeaderAt(b, off)
<1>1. CASE off >= Len(b) \/ c.is # "head" \/ off + c.w > Len(b)
  <2>1. h = [id |-> "bad", size |-> 0, w |-> 0] BY <1>1 DEF ReadHeaderAt
  <2> HIDE DEF h
  <2>2. "bad" \in Ids BY DEF Ids
  <2> QED BY <2>1, <2>2 DEF HeaderOf, h
<1>2. CASE ~(off >= Len(b) \/ c.is # "head" \/ off + c.w > Len(b))
  <2>1. h = [id |-> c.id, w |-> c.w, size |-> IF c.size = Pow(SizeBase, c.w) - 1 THEN UnknownSize ELSE c.size]
    BY <1>2 DEF ReadHeaderAt
  <2>2. off + 1 \in 1..Len(b) BY <1>2
  <2>3. c \in Cell /\ c.is = "head" BY <1>2, <2>2
  <2>4. off + c.w <= Len(b)
    <3>1. c.w \in Nat BY <2>3, HeadCell
    <3> QED BY <1>2, <3>1
  <2> HIDE DEF c, h
  <2>5. c.id \in Ids /\ c.size \in Nat /\ c.w \in Nat /\ c.w > 0 BY <2>3, HeadCell
  <2> QED BY <2>1, <2>4, <2>5 DEF HeaderOf, h
<1> QED BY <1>1, <1>2

Elem == [id : Ids, from : Nat, data : Nat, to : Nat]

\* An element's header says what the element is.
HeadedBy(b, e) ==
  LET h == ReadHeaderAt(b, e.from) IN h.id = e.id /\ h.w = e.data - e.from /\ h.size = e.to - e.data

\* An element that starts at p or later and before end.
ElemOf(b, e, p, end, stop) ==
  /\ p <= e.from /\ e.from < end
  /\ e.id \notin stop \cup {"bad"} => e.from < e.data /\ e.data <= e.to /\ HeadedBy(b, e)
  /\ e.id # "bad" => e.from < e.data /\ e.data <= Len(b) /\ ReadHeaderAt(b, e.from).id = e.id

\* Elements that follow each other.
Walked(b, s, p, end, stop) ==
  /\ s \in Seq(Elem)
  /\ \A i \in 1..Len(s) : ElemOf(b, s[i], p, end, stop)
  /\ \A i, j \in 1..Len(s) : i < j => s[i].id \notin stop \cup {"bad"} /\ s[i].to <= s[j].from

LEMMA WalkOne ==
  ASSUME NEW b, NEW e, NEW p, NEW end, NEW stop, e \in Elem, ElemOf(b, e, p, end, stop)
  PROVE  Walked(b, <<e>>, p, end, stop)
<1>1. <<e>> \in Seq(Elem) /\ Len(<<e>>) = 1 /\ <<e>>[1] = e OBVIOUS
<1>2. \A i \in 1..1 : i = 1 OBVIOUS
<1> DEFINE s == <<e>>
<1> HIDE DEF s
<1> QED BY <1>1, <1>2 DEF Walked, s

LEMMA WalkMore ==
  ASSUME NEW b, NEW e, NEW p, NEW end, NEW stop, NEW v, p \in Nat, end \in Nat,
         e \in Elem, ElemOf(b, e, p, end, stop), e.id \notin stop \cup {"bad"}, Walked(b, v, e.to, end, stop)
  PROVE  Walked(b, <<e>> \o v, p, end, stop)
<1> DEFINE s == <<e>> \o v
<1>0. v \in Seq(Elem) /\ <<e>> \in Seq(Elem) BY DEF Walked
<1>1. s \in Seq(Elem) /\ Len(s) = Len(v) + 1 /\ s[1] = e /\ Len(v) \in Nat
      /\ \A i \in 2..(Len(v) + 1) : s[i] = v[i - 1]
  BY <1>0
<1> HIDE DEF s
<1>2. e.from \in Nat /\ e.to \in Nat /\ p <= e.from /\ e.from < e.data /\ e.data <= e.to /\ e.data \in Nat
  BY DEF Elem, ElemOf
<1>3. ASSUME NEW i \in 2..(Len(v) + 1)
      PROVE  ElemOf(b, s[i], p, end, stop) /\ e.to <= s[i].from /\ i - 1 \in 1..Len(v)
  <2>1. i - 1 \in 1..Len(v) BY <1>1
  <2>2. ElemOf(b, v[i - 1], e.to, end, stop) /\ v[i - 1] \in Elem BY <1>0, <2>1 DEF Walked
  <2>3. v[i - 1].from \in Nat BY <2>2 DEF Elem
  <2> DEFINE x == v[i - 1]
  <2>4. s[i] = x BY <1>1
  <2>5. e.to <= x.from BY <2>2 DEF ElemOf
  <2> HIDE DEF x, s
  <2>6. p <= x.from BY <1>2, <2>3, <2>5 DEF x
  <2>7. ElemOf(b, x, p, end, stop) BY <2>2, <2>6 DEF ElemOf, x
  <2> QED BY <2>1, <2>4, <2>5, <2>7
<1>4. \A i \in 1..Len(s) : i = 1 \/ i \in 2..(Len(v) + 1) BY <1>1
<1>5. \A i \in 1..Len(s) : ElemOf(b, s[i], p, end, stop) BY <1>1, <1>3, <1>4
<1>6. ASSUME NEW i \in 1..Len(s), NEW j \in 1..Len(s), i < j
      PROVE  s[i].id \notin stop \cup {"bad"} /\ s[i].to <= s[j].from
  <2>1. j \in 2..(Len(v) + 1) BY <1>4, <1>6
  <2>2. CASE i = 1 BY <1>1, <1>3, <2>1, <2>2
  <2>3. CASE i # 1
    <3>1. i \in 2..(Len(v) + 1) BY <1>4, <2>3
    <3>2. i - 1 \in 1..Len(v) /\ j - 1 \in 1..Len(v) /\ i - 1 < j - 1 BY <1>1, <1>6, <2>1, <3>1
    <3>3. v[i - 1].id \notin stop \cup {"bad"} /\ v[i - 1].to <= v[j - 1].from BY <3>2 DEF Walked
    <3> QED BY <1>1, <2>1, <3>1, <3>3
  <2> QED BY <2>2, <2>3
<1>7. Walked(b, s, p, end, stop) BY <1>1, <1>5, <1>6 DEF Walked
<1> QED BY <1>7 DEF s

LEMMA WalkNone ==
  ASSUME NEW b, NEW p, NEW end, NEW stop
  PROVE  Walked(b, <<>>, p, end, stop)
<1>1. <<>> \in Seq(Elem) /\ Len(<<>>) = 0 OBVIOUS
<1>2. \A i \in 1..0 : FALSE OBVIOUS
<1> DEFINE s == <<>>
<1> HIDE DEF s
<1> QED BY <1>1, <1>2 DEF Walked, s

\* The end of an element at p, and a walk from p on, if v is what follows its first element.
WalkTo(b, p) == LET h == ReadHeaderAt(b, p) IN p + h.w + h.size

WalkRest(b, p, stop, v) ==
  LET h == ReadHeaderAt(b, p)
  IN  IF h.id \in stop THEN <<Element(h.id, p, p + h.w, p)>>
      ELSE IF h.id = "bad" \/ h.size = UnknownSize THEN <<Element("bad", p, p, p)>>
      ELSE <<Element(h.id, p, p + h.w, WalkTo(b, p))>> \o v

\* The function by which a walk is defined.
WalkedBy(b, off, end, stop, g) ==
  /\ Walk(b, off, end, stop) = g[off]
  /\ \A p \in off..end :
       g[p] = WalkRest(b, p, stop, IF WalkTo(b, p) < end THEN g[WalkTo(b, p)] ELSE <<>>)

WalkGoes(b, off, end, stop) == \E g : WalkedBy(b, off, end, stop, g)

LEMMA WalkRecursion ==
  ASSUME NEW b, NEW off, NEW end, NEW stop, b \in Seq(Cell), off \in Nat, end \in Int, off < end
  PROVE  WalkGoes(b, off, end, stop)
<1> DEFINE U == Seq(Elem)
           h(p) == ReadHeaderAt(b, p)
           to(p) == p + h(p).w + h(p).size
           from[p \in off..end] ==
             LET rest(hh, tt) ==
                   IF hh.id \in stop THEN <<Element(hh.id, p, p + hh.w, p)>>
                   ELSE IF hh.id = "bad" \/ hh.size = UnknownSize THEN <<Element("bad", p, p, p)>>
                   ELSE <<Element(hh.id, p, p + hh.w, tt)>> \o IF tt < end THEN from[tt] ELSE <<>>
                 h0 == ReadHeaderAt(b, p)
             IN  rest(h0, p + h0.w + h0.size)
           body(p, v) ==
             IF h(p).id \in stop THEN <<Element(h(p).id, p, p + h(p).w, p)>>
             ELSE IF h(p).id = "bad" \/ h(p).size = UnknownSize THEN <<Element("bad", p, p, p)>>
             ELSE <<Element(h(p).id, p, p + h(p).w, to(p))>> \o v
           goes(p) == h(p).id \notin stop /\ h(p).id # "bad" /\ h(p).size # UnknownSize /\ to(p) < end
           next == [p \in off..end |-> IF goes(p) THEN to(p) ELSE end + 1]
           step == [p \in off..end |-> [v \in U |-> body(p, v)]]
<1>1. Walk(b, off, end, stop) = from[off] BY DEF Walk
<1>2. end \in Nat OBVIOUS
<1>3. ASSUME NEW p \in off..end
      PROVE  /\ HeaderOf(b, p, h(p)) /\ p \in Nat
             /\ h(p).id # "bad" /\ h(p).size # UnknownSize => to(p) \in Nat /\ p + h(p).w <= to(p) /\ p < to(p)
  <2>1. p \in Nat OBVIOUS
  <2>2. HeaderOf(b, p, h(p)) BY <2>1, HeaderRead
  <2> HIDE DEF h
  <2> QED BY <2>1, <2>2 DEF HeaderOf
<1>4. ASSUME NEW p \in off..end, NEW v \in U PROVE body(p, v) \in U
  <2>0. p \in Nat /\ HeaderOf(b, p, h(p)) BY <1>3
  <2>1. h(p).id \in Ids /\ p + h(p).w \in Nat
    <3> HIDE DEF h
    <3> QED BY <2>0 DEF HeaderOf
  <2>2. Element(h(p).id, p, p + h(p).w, p) \in Elem /\ Element("bad", p, p, p) \in Elem
    <3>1. "bad" \in Ids BY DEF Ids
    <3> HIDE DEF h
    <3>2. Element("bad", p, p, p) \in Elem BY <2>0, <3>1 DEF Element, Elem
    <3>3. Element(h(p).id, p, p + h(p).w, p) \in Elem BY <2>0, <2>1 DEF Element, Elem
    <3> QED BY <3>2, <3>3
  <2>3. h(p).id # "bad" /\ h(p).size # UnknownSize => Element(h(p).id, p, p + h(p).w, to(p)) \in Elem
    <3>1. h(p).id # "bad" /\ h(p).size # UnknownSize => to(p) \in Nat BY <1>3
    <3> HIDE DEF h, to
    <3> QED BY <2>0, <2>1, <3>1 DEF Element, Elem
  <2>4. \A e \in Elem : <<e>> \in U /\ <<e>> \o v \in U
    <3>1. v \in Seq(Elem) OBVIOUS
    <3> QED BY <3>1
  <2> HIDE DEF h, to, U
  <2> QED BY <2>2, <2>3, <2>4
<1>5. step \in [off..end -> [U -> U]]
  <2> HIDE DEF body, U
  <2> QED BY <1>4
<1>6. PICK g \in [off..end -> U] :
        \A p \in off..end : g[p] = step[p][IF next[p] \in (p + 1)..end THEN g[next[p]] ELSE <<>>]
  <2>1. <<>> \in U /\ off \in Int /\ end \in Int BY <1>2
  <2> HIDE DEF U, step, next
  <2>2. Chained(U, off, end, next, step, <<>>) BY <2>1, <1>5, ChainRecursion
  <2> QED BY <2>2 DEF Chained
<1>7. ASSUME NEW p \in off..end
      PROVE  g[p] = body(p, IF to(p) < end THEN g[to(p)] ELSE <<>>)
  <2> DEFINE v == IF next[p] \in (p + 1)..end THEN g[next[p]] ELSE <<>>
  <2>1. v \in U
    <3>1. p + 1 >= off BY <1>3
    <3>2. \A x \in (p + 1)..end : x \in off..end BY <3>1
    <3>3. <<>> \in U OBVIOUS
    <3> HIDE DEF U, next
    <3> QED BY <3>2, <3>3
  <2>2. g[p] = body(p, v)
    <3> HIDE DEF body, v
    <3>1. g[p] = step[p][v] BY <1>6 DEF v
    <3> QED BY <2>1, <3>1
  <2>3. CASE goes(p)
    <3>1. next[p] = to(p) /\ to(p) \in (p + 1)..end
      <4>1. to(p) \in Nat /\ p < to(p) /\ p \in Nat BY <1>3, <2>3
      <4>2. next[p] = to(p) BY <2>3
      <4>3. to(p) < end BY <2>3
      <4> HIDE DEF to, next
      <4> QED BY <4>1, <4>2, <4>3, <1>2
    <3>2. v = IF to(p) < end THEN g[to(p)] ELSE <<>>
      <4> HIDE DEF to, next
      <4> QED BY <3>1, <2>3
    <3> HIDE DEF v, to, body
    <3> QED BY <2>2, <3>2
  <2>4. CASE ~goes(p)
    <3>1. next[p] = end + 1 BY <2>4
    <3>2. v = <<>>
      <4>1. end + 1 \notin (p + 1)..end BY <1>2
      <4> HIDE DEF next
      <4> QED BY <3>1, <4>1
    <3> HIDE DEF v, to, h
    <3> QED BY <2>2, <3>2, <2>4
  <2> HIDE DEF goes
  <2> QED BY <2>3, <2>4
<1> DEFINE R(f) == [p \in off..end |->
                      IF h(p).id \in stop THEN <<Element(h(p).id, p, p + h(p).w, p)>>
                      ELSE IF h(p).id = "bad" \/ h(p).size = UnknownSize THEN <<Element("bad", p, p, p)>>
                      ELSE <<Element(h(p).id, p, p + h(p).w, to(p))>> \o IF to(p) < end THEN f[to(p)] ELSE <<>>]
<1>8. g = R(g)
  <2>1. g = [p \in off..end |-> g[p]] OBVIOUS
  <2>2. \A p \in off..end : g[p] = R(g)[p]
    <3> HIDE DEF to, h
    <3> QED BY <1>7
  <2> HIDE DEF h, to
  <2> QED BY <2>1, <2>2
<1>9. from = R(from)
  <2> HIDE DEF U
  <2> QED BY <1>8
<1>10. ASSUME NEW p \in off..end
       PROVE  from[p] = WalkRest(b, p, stop, IF WalkTo(b, p) < end THEN from[WalkTo(b, p)] ELSE <<>>)
  <2> DEFINE v == IF to(p) < end THEN from[to(p)] ELSE <<>>
  <2>1. to(p) = WalkTo(b, p) BY DEF WalkTo
  <2>2. from[p] = body(p, v)
    <3> HIDE DEF from, h, to
    <3> QED BY <1>9
  <2>3. body(p, v) = WalkRest(b, p, stop, v)
    <3> HIDE DEF v, from
    <3> QED BY <2>1 DEF WalkRest
  <2> HIDE DEF from, to, h, body
  <2> QED BY <2>1, <2>2, <2>3
<1> HIDE DEF from
<1>11. WalkedBy(b, off, end, stop, from) BY <1>1, <1>10 DEF WalkedBy
<1> QED BY <1>11 DEF WalkGoes

\* Whatever is there, a walk gives elements that follow each other.
LEMMA WalkElements ==
  ASSUME NEW b, NEW off, NEW end, NEW stop, b \in Seq(Cell), off \in Nat, end \in Int
  PROVE  Walked(b, Walk(b, off, end, stop), off, end, stop)
<1>1. CASE ~(off < end)
  <2>1. Walk(b, off, end, stop) = <<>> BY <1>1 DEF Walk
  <2> QED BY <2>1, WalkNone
<1>2. CASE off < end
  <2> DEFINE h(p) == ReadHeaderAt(b, p)
             to(p) == p + h(p).w + h(p).size
  <2>1. PICK from : WalkedBy(b, off, end, stop, from) BY <1>2, WalkRecursion DEF WalkGoes
  <2>2. end \in Nat BY <1>2
  <2>3. ASSUME NEW p \in off..end
        PROVE  /\ HeaderOf(b, p, h(p)) /\ p \in Nat
               /\ h(p).id # "bad" /\ h(p).size # UnknownSize => to(p) \in Nat /\ p + h(p).w <= to(p) /\ p < to(p)
    <3>1. p \in Nat OBVIOUS
    <3>2. HeaderOf(b, p, h(p)) BY <3>1, HeaderRead
    <3> HIDE DEF h
    <3> QED BY <3>1, <3>2 DEF HeaderOf
  <2> DEFINE S == {p \in off..end : p < end => Walked(b, from[p], p, end, stop)}
  <2>10. ASSUME NEW p \in off..end, (p + 1)..end \subseteq S PROVE p \in S
    <3> SUFFICES ASSUME p < end PROVE Walked(b, from[p], p, end, stop) OBVIOUS
    <3> DEFINE v == IF to(p) < end THEN from[to(p)] ELSE <<>>
    <3>0. to(p) = WalkTo(b, p) BY DEF WalkTo
    <3>1. from[p] = WalkRest(b, p, stop, v)
      <4> HIDE DEF to
      <4> QED BY <2>1, <3>0 DEF WalkedBy
    <3>2. p \in Nat /\ HeaderOf(b, p, h(p)) BY <2>3
    <3>3. CASE h(p).id \in stop
      <4> DEFINE e == Element(h(p).id, p, p + h(p).w, p)
      <4>1. from[p] = <<e>>
        <5> HIDE DEF v, to
        <5> QED BY <3>0, <3>1, <3>3 DEF WalkRest
      <4>2. e \in Elem /\ ElemOf(b, e, p, end, stop)
        <5>1. ReadHeaderAt(b, e.from).id = e.id BY DEF Element
        <5> HIDE DEF h
        <5> QED BY <3>2, <3>3, <5>1 DEF HeaderOf, Element, Elem, ElemOf
      <4> HIDE DEF e
      <4> QED BY <4>1, <4>2, WalkOne
    <3>4. CASE h(p).id \notin stop /\ (h(p).id = "bad" \/ h(p).size = UnknownSize)
      <4> DEFINE e == Element("bad", p, p, p)
      <4>1. from[p] = <<e>>
        <5> HIDE DEF v, to
        <5> QED BY <3>0, <3>1, <3>4 DEF WalkRest
      <4>2. e \in Elem /\ ElemOf(b, e, p, end, stop)
        <5> HIDE DEF h
        <5>1. "bad" \in Ids BY DEF Ids
        <5>2. e \in Elem BY <3>2, <5>1 DEF Element, Elem
        <5>3. e.id = "bad" /\ e.from = p BY DEF Element
        <5> HIDE DEF e
        <5> QED BY <3>2, <5>2, <5>3 DEF ElemOf
      <4> HIDE DEF e
      <4> QED BY <4>1, <4>2, WalkOne
    <3>5. CASE h(p).id \notin stop /\ h(p).id # "bad" /\ h(p).size # UnknownSize
      <4> DEFINE e == Element(h(p).id, p, p + h(p).w, to(p))
      <4>1. from[p] = <<e>> \o v
        <5> HIDE DEF v, to
        <5> QED BY <3>0, <3>1, <3>5 DEF WalkRest
      <4>2. to(p) \in Nat /\ p + h(p).w <= to(p) /\ p < to(p) BY <2>3, <3>5
      <4>0. HeadedBy(b, e)
        <5>1. e.from = p /\ e.id = h(p).id /\ e.data = p + h(p).w /\ e.to = p + h(p).w + h(p).size BY DEF Element
        <5>2. h(p).w \in Nat /\ h(p).size \in Nat BY <3>2, <3>5 DEF HeaderOf
        <5>3. ReadHeaderAt(b, e.from) = h(p) BY <5>1
        <5> HIDE DEF h, e
        <5> QED BY <3>2, <5>1, <5>2, <5>3 DEF HeadedBy
      <4>3. e \in Elem /\ ElemOf(b, e, p, end, stop) /\ e.to = to(p) /\ e.id \notin stop \cup {"bad"}
        <5>1. ReadHeaderAt(b, e.from).id = e.id BY DEF Element
        <5> HIDE DEF h, to
        <5> QED BY <3>2, <3>5, <4>0, <4>2, <5>1 DEF HeaderOf, Element, Elem, ElemOf
      <4>4. Walked(b, v, e.to, end, stop)
        <5>1. CASE to(p) < end
          <6>1. to(p) \in (p + 1)..end BY <4>2, <5>1, <2>2
          <6>2. to(p) \in S
            <7> HIDE DEF S, to
            <7> QED BY <2>10, <6>1
          <6> HIDE DEF to, e
          <6> QED BY <4>3, <5>1, <6>2
        <5>2. CASE ~(to(p) < end)
          <6>1. v = <<>> BY <5>2
          <6> HIDE DEF v, e
          <6> QED BY <6>1, WalkNone
        <5> QED BY <5>1, <5>2
      <4> HIDE DEF e, v
      <4> QED BY <2>2, <3>2, <4>1, <4>3, <4>4, WalkMore
    <3> HIDE DEF h
    <3> QED BY <3>3, <3>4, <3>5
  <2>11. off..end \subseteq S
    <3>1. off \in Int /\ end \in Int OBVIOUS
    <3> HIDE DEF S
    <3> QED BY <3>1, <2>10, DownwardInduction
  <2>12. off \in S
    <3>1. off \in off..end BY <1>2
    <3> HIDE DEF S
    <3> QED BY <2>11, <3>1
  <2> QED BY <1>2, <2>1, <2>12 DEF WalkedBy
<1> QED BY <1>1, <1>2

LEMMA ChildrenWalked ==
  ASSUME NEW b, NEW e, b \in Seq(Cell), e \in Elem
  PROVE  Walked(b, Children(b, e), e.data, e.to, {}) /\ Children(b, e) \in Seq(Elem)
<1>1. e.data \in Nat /\ e.to \in Int BY DEF Elem
<1>2. Walked(b, Walk(b, e.data, e.to, {}), e.data, e.to, {}) BY <1>1, WalkElements
<1> QED BY <1>2 DEF Children, Walked

\* The last element with an id is one of them.
LastFound(es, id) == \E k \in 1..Len(es) : LastOf(es, id) = es[k] /\ es[k].id = id

LEMMA LastIsOne ==
  ASSUME NEW es, NEW id, es \in Seq(Elem), Has(es, id)
  PROVE  LastFound(es, id)
<1> DEFINE S == {i \in DOMAIN es : es[i].id = id}
<1>1. DOMAIN es = 1..Len(es) /\ Len(es) \in Nat OBVIOUS
<1>2. S \subseteq 0..Len(es) /\ S # {} BY <1>1 DEF Has
<1>3. Max(S) \in S
  <2> HIDE DEF S
  <2> QED BY <1>1, <1>2, GreatestNumber
<1>4. LastOf(es, id) = es[Max(S)] BY DEF LastOf
<1>5. Max(S) \in 1..Len(es) /\ es[Max(S)].id = id BY <1>1, <1>3
<1> HIDE DEF S
<1> QED BY <1>4, <1>5 DEF LastFound

LEMMA LastType ==
  ASSUME NEW es, NEW id, es \in Seq(Elem), Has(es, id)
  PROVE  LastOf(es, id) \in Elem
<1>1. LastFound(es, id) BY LastIsOne
<1>2. PICK k \in 1..Len(es) : LastOf(es, id) = es[k] BY <1>1 DEF LastFound
<1>3. es[k] \in Elem OBVIOUS
<1> QED BY <1>2, <1>3

LEMMA CellValueType ==
  ASSUME NEW b, NEW off, b \in Seq(Cell), off \in Nat
  PROVE  CellValue(b, off) \in Nat
<1> DEFINE c == b[off + 1]
<1>1. CASE off < Len(b) /\ c.is = "num"
  <2>1. off + 1 \in 1..Len(b) BY <1>1
  <2>2. c \in Cell BY <2>1
  <2>3. CellValue(b, off) = c.v BY <1>1 DEF CellValue
  <2> HIDE DEF c
  <2>4. c.v \in Nat BY <2>2, <1>1, NumCell
  <2> QED BY <2>3, <2>4
<1>2. CASE ~(off < Len(b) /\ c.is = "num")
  <2>1. CellValue(b, off) = 0 BY <1>2 DEF CellValue
  <2> QED BY <2>1
<1> QED BY <1>1, <1>2

LEMMA UintNat ==
  ASSUME NEW b, NEW e, b \in Seq(Cell), e \in Elem
  PROVE  Uint(b, e) \in Nat
<1>1. e.data \in Nat BY DEF Elem
<1>2. CellValue(b, e.data) \in Nat BY <1>1, CellValueType
<1> QED BY <1>2 DEF Uint

LEMMA ValueNat ==
  ASSUME NEW b, NEW es, NEW id, b \in Seq(Cell), es \in Seq(Elem)
  PROVE  Value(b, es, id) \in Nat
<1>1. CASE Has(es, id)
  <2>1. Uint(b, LastOf(es, id)) \in Nat BY <1>1, LastType, UintNat
  <2> QED BY <1>1, <2>1 DEF Value
<1>2. CASE ~Has(es, id) BY <1>2 DEF Value
<1> QED BY <1>1, <1>2

\* What is picked from a sequence.
LEMMA WhereType ==
  ASSUME NEW s, NEW I, NEW T, NEW W, s \in Seq(T), \A i \in 1..Len(s) : i \in I => s[i] \in W
  PROVE  Where(s, I) \in Seq(W)
<1> DEFINE U == Seq(W)
           pick == [i \in DOMAIN s |-> IF i \in I THEN <<s[i]>> ELSE <<>>]
<1>1. DOMAIN s = 1..Len(s) /\ Len(s) \in Nat OBVIOUS
<1>2. \A x \in W : <<x>> \in U OBVIOUS
<1>3. <<>> \in U OBVIOUS
<1>4. pick \in [1..Len(s) -> U]
  <2> HIDE DEF U
  <2> QED BY <1>1, <1>2, <1>3
<1> HIDE DEF pick
<1>5. pick \in Seq(U)
  <2> HIDE DEF U
  <2> QED BY <1>1, <1>4, FunctionIsSequence
<1>6. FlattenSeq(pick) \in Seq(W) BY <1>5, FlattenType
<1> QED BY <1>6 DEF Where, pick

\* A sequence of sequences, one for each number.
LEMMA FlattenOf ==
  ASSUME NEW W, NEW n, NEW g, n \in Nat, g \in [1..n -> Seq(W)]
  PROVE  FlattenSeq(g) \in Seq(W)
<1> DEFINE U == Seq(W)
<1>1. g \in Seq(U)
  <2>1. g \in [1..n -> U] OBVIOUS
  <2> HIDE DEF U
  <2> QED BY <2>1, FunctionIsSequence
<1> QED BY <1>1, FlattenType

FileElem(f) == {e \in Elem : e.from <= e.to /\ e.to <= Len(f)}

LEMMA RawType ==
  ASSUME NEW f, NEW e, f \in Seq(Cell), e \in FileElem(f)
  PROVE  Raw(f, e) \in Seq(Cell)
<1> DEFINE a == e.from
           n == e.to - e.from
<1>1. a \in Nat /\ n \in Nat /\ a + n <= Len(f) /\ a + n = e.to BY DEF FileElem, Elem
<1> HIDE DEF a, n
<1>2. SubSeq(f, a + 1, a + n) \in Seq(Cell) BY <1>1, SliceType
<1> QED BY <1>1, <1>2 DEF Raw, a

LEMMA CopiedType ==
  ASSUME NEW f, NEW es, NEW dropped, f \in Seq(Cell), es \in Seq(FileElem(f))
  PROVE  Copied(f, es, dropped) \in Seq(Cell)
<1> DEFINE g == [i \in DOMAIN es |-> IF es[i].id \in dropped THEN <<>> ELSE Raw(f, es[i])]
           T == FileElem(f)
           U == Seq(Cell)
<1>1. DOMAIN es = 1..Len(es) /\ Len(es) \in Nat /\ \A i \in 1..Len(es) : es[i] \in T OBVIOUS
<1>2. \A e \in T : Raw(f, e) \in U BY RawType
<1>3. <<>> \in U OBVIOUS
<1>4. g \in [1..Len(es) -> U]
  <2> HIDE DEF T, U
  <2> QED BY <1>1, <1>2, <1>3
<1> HIDE DEF g
<1>5. FlattenSeq(g) \in Seq(Cell) BY <1>1, <1>4, FlattenOf
<1> QED BY <1>5 DEF Copied, g

LEMMA IntactChildren ==
  ASSUME NEW f, NEW e, f \in Seq(Cell), e \in FileElem(f), Intact(f, e)
  PROVE  Children(f, e) \in Seq(FileElem(f))
<1> DEFINE kids == Children(f, e)
           T == FileElem(f)
<1>1. e \in Elem /\ e.to \in Nat /\ e.to <= Len(f) BY DEF FileElem, Elem
<1>2. Walked(f, kids, e.data, e.to, {}) BY <1>1, ChildrenWalked
<1>3. \A i \in DOMAIN kids : ~(kids[i].id = "bad" \/ kids[i].to > e.to) BY DEF Intact, Malformed
<1> HIDE DEF kids
<1>4. kids \in Seq(Elem) /\ \A i \in 1..Len(kids) : ElemOf(f, kids[i], e.data, e.to, {}) BY <1>2 DEF Walked
<1>5. DOMAIN kids = 1..Len(kids) /\ Len(kids) \in Nat /\ \A i \in 1..Len(kids) : kids[i] \in Elem BY <1>4
<1>6. ASSUME NEW i \in 1..Len(kids) PROVE kids[i] \in T
  <2>1. kids[i] \in Elem /\ ElemOf(f, kids[i], e.data, e.to, {}) /\ kids[i].id # "bad" /\ ~(kids[i].to > e.to)
    BY <1>3, <1>4, <1>5
  <2>2. kids[i].to \in Nat /\ kids[i].from \in Nat /\ kids[i].data \in Nat BY <2>1 DEF Elem
  <2>3. kids[i].from <= kids[i].to /\ kids[i].to <= Len(f) BY <1>1, <2>1, <2>2 DEF ElemOf
  <2> QED BY <2>1, <2>3 DEF FileElem
<1> HIDE DEF T
<1>7. kids \in [1..Len(kids) -> T] BY <1>4, <1>5, <1>6
<1>8. kids \in Seq(T) BY <1>5, <1>7, FunctionIsSequence
<1> QED BY <1>8 DEF T, kids

-----------------------------------------------------------------------------
(* The source.                                                               *)

Cue == [time : Nat, off : Nat]

LEMMA CueAtType ==
  ASSUME NEW f, NEW time, NEW pos, NEW video, NEW segData,
         f \in Seq(Cell), time \in Nat, pos \in Seq(Elem), segData \in Nat
  PROVE  cueAt(f, time, pos, video, segData) \in Seq(Cue)
<1> DEFINE v == Value(f, pos, "CueClusterPosition")
           c == [time |-> time, off |-> segData + v]
<1>1. v \in Nat BY ValueNat
<1> HIDE DEF v
<1>2. c \in Cue BY <1>1 DEF Cue
<1> HIDE DEF c
<1>3. <<c>> \in Seq(Cue) /\ <<>> \in Seq(Cue) BY <1>2
<1>4. cueAt(f, time, pos, video, segData) = <<c>> \/ cueAt(f, time, pos, video, segData) = <<>>
  BY DEF cueAt, c, v
<1> QED BY <1>3, <1>4

LEMMA NamedType ==
  ASSUME NEW T, NEW es, NEW id, es \in Seq(T)
  PROVE  Named(es, id) \in Seq(T)
<1>1. \A i \in 1..Len(es) : i \in {j \in DOMAIN es : es[j].id = id} => es[i] \in T OBVIOUS
<1> DEFINE I == {j \in DOMAIN es : es[j].id = id}
<1> HIDE DEF I
<1>2. Where(es, I) \in Seq(T) BY <1>1, WhereType DEF I
<1> QED BY <1>2 DEF Named, I

LEMMA CuesOfType ==
  ASSUME NEW f, NEW kids, NEW video, NEW segData, f \in Seq(Cell), kids \in Seq(Elem), segData \in Nat
  PROVE  cuesOf(f, kids, video, segData) \in Seq(Cue)
<1> DEFINE at == Named(kids, "CueTrackPositions")
           time == Value(f, kids, "CueTime")
           cue(e) == cueAt(f, time, Children(f, e), video, segData)
           g == [i \in DOMAIN at |-> cue(at[i])]
           U == Seq(Cue)
<1>1. at \in Seq(Elem) BY NamedType
<1>2. time \in Nat BY ValueNat
<1> HIDE DEF at, time
<1>3. \A e \in Elem : cue(e) \in U
  <2> SUFFICES ASSUME NEW e \in Elem PROVE cue(e) \in U OBVIOUS
  <2>1. Children(f, e) \in Seq(Elem) BY ChildrenWalked
  <2> QED BY <1>2, <2>1, CueAtType
<1>4. DOMAIN at = 1..Len(at) /\ Len(at) \in Nat /\ \A i \in 1..Len(at) : at[i] \in Elem BY <1>1
<1>5. g \in [1..Len(at) -> U]
  <2> HIDE DEF cue, U
  <2> QED BY <1>3, <1>4
<1> HIDE DEF g
<1>6. FlattenSeq(g) \in Seq(Cue) BY <1>4, <1>5, FlattenOf
<1> QED BY <1>6 DEF cuesOf, g, at, time

LEMMA SortType ==
  ASSUME NEW T, NEW cues, cues \in Seq(T)
  PROVE  SortByTime(cues) \in Seq(T) /\ (cues # <<>> => SortByTime(cues) # <<>>)
<1> DEFINE U == Seq(T)
           n == Len(cues)
           early(s, c) == {i \in DOMAIN s : s[i].time <= c.time}
           put(s, c) == Where(s, early(s, c)) \o <<c>> \o Where(s, DOMAIN s \ early(s, c))
           step == [i \in 0..n |-> [u \in U |-> IF i = 0 THEN <<>> ELSE put(u, cues[i])]]
           sorted[k \in 0..n] ==
             LET insert(s, c) == LET upToC == {i \in DOMAIN s : s[i].time <= c.time}
                                 IN  Where(s, upToC) \o <<c>> \o Where(s, DOMAIN s \ upToC)
             IN  IF k = 0 THEN <<>> ELSE insert(sorted[k - 1], cues[k])
<1>1. n \in Nat /\ \A i \in 1..n : cues[i] \in T OBVIOUS
<1>2. ASSUME NEW s \in U, NEW c \in T PROVE put(s, c) \in U /\ put(s, c) # <<>>
  <2> DEFINE I == early(s, c)
             J == DOMAIN s \ early(s, c)
  <2>1. \A i \in 1..Len(s) : s[i] \in T OBVIOUS
  <2>2. s \in Seq(T) OBVIOUS
  <2> HIDE DEF early, I, J
  <2>3. Where(s, I) \in Seq(T) /\ Where(s, J) \in Seq(T) BY <2>1, <2>2, WhereType
  <2>4. <<c>> \in Seq(T) OBVIOUS
  <2> DEFINE x == Where(s, I)
             y == Where(s, J)
             one == <<c>>
  <2>5. x \in Seq(T) /\ y \in Seq(T) /\ one \in Seq(T) /\ Len(one) = 1 BY <2>3, <2>4
  <2> HIDE DEF x, y, one
  <2> DEFINE xo == x \o one
  <2>a. xo \in Seq(T) /\ Len(xo) = Len(x) + Len(one) BY <2>5, ConcatProperties
  <2>b. Len(x) \in Nat /\ Len(y) \in Nat BY <2>5, LenProperties
  <2> HIDE DEF xo
  <2>c. xo \o y \in Seq(T) /\ Len(xo \o y) = Len(xo) + Len(y) BY <2>5, <2>a, ConcatProperties
  <2>6. x \o one \o y \in Seq(T) /\ Len(x \o one \o y) = Len(x) + 1 + Len(y) /\ Len(x) \in Nat /\ Len(y) \in Nat
    BY <2>5, <2>a, <2>b, <2>c DEF xo
  <2>7. Len(x \o one \o y) # 0 BY <2>6
  <2>8. x \o one \o y # <<>> BY <2>7
  <2> QED BY <2>6, <2>8 DEF I, J, x, y, one
<1>3. step \in [0..n -> [U -> U]]
  <2>1. \A i \in 0..n : i # 0 => i \in 1..n OBVIOUS
  <2>2. <<>> \in U OBVIOUS
  <2> HIDE DEF put, U, n
  <2> QED BY <1>1, <1>2, <2>1, <2>2
<1>4. PICK g \in [0..n -> U] : \A i \in 0..n : g[i] = IF i = 0 THEN <<>> ELSE step[i][g[i - 1]]
  <2>1. <<>> \in U /\ 0 \in Int /\ n \in Int BY <1>1
  <2> HIDE DEF U, step, n
  <2>2. Recursive(U, 0, n, <<>>, step) BY <2>1, <1>3, FiniteRecursion
  <2> QED BY <2>2 DEF Recursive
<1>5. \A i \in 0..n : g[i] = IF i = 0 THEN <<>> ELSE put(g[i - 1], cues[i])
  <2> SUFFICES ASSUME NEW i \in 0..n, i # 0 PROVE g[i] = put(g[i - 1], cues[i]) BY <1>4
  <2>1. i - 1 \in 0..n BY <1>1
  <2> HIDE DEF U, put, n
  <2>2. g[i - 1] \in U BY <2>1
  <2> QED BY <1>4, <2>2
<1>6. g = [i \in 0..n |-> IF i = 0 THEN <<>> ELSE put(g[i - 1], cues[i])]
  <2>1. g = [i \in 0..n |-> g[i]] OBVIOUS
  <2> HIDE DEF U, put, n
  <2> QED BY <1>5, <2>1
<1>7. sorted = [i \in 0..n |-> IF i = 0 THEN <<>> ELSE put(sorted[i - 1], cues[i])]
  <2> HIDE DEF U
  <2> QED BY <1>6
<1>8. Agree(g, sorted, 0, n)
  <2> HIDE DEF sorted, put, step, U, n
  <2>1. \A i \in 0..n : /\ sorted[i] = IF i = 0 THEN <<>> ELSE put(sorted[i - 1], cues[i])
                        /\ g[i] = IF i = 0 THEN <<>> ELSE put(g[i - 1], cues[i])
    BY <1>6, <1>7
  <2>2. 0 \in 0..n /\ 0 \in Int /\ n \in Int BY <1>1
  <2>3. g[0] = sorted[0] BY <2>1, <2>2
  <2>4. \A i \in 0..n : i > 0 /\ g[i - 1] = sorted[i - 1] => g[i] = sorted[i] BY <2>1
  <2> QED BY <2>2, <2>3, <2>4, FiniteRecursionUnique
<1>9. SortByTime(cues) = sorted[n] BY DEF SortByTime
<1>10. n \in 0..n BY <1>1
<1>11. sorted[n] \in U
  <2> HIDE DEF sorted, U, n
  <2> QED BY <1>8, <1>10 DEF Agree
<1>12. ASSUME cues # <<>> PROVE sorted[n] # <<>>
  <2>1. n \in 1..n /\ n - 1 \in 0..n
    <3>1. n # 0 BY <1>12, EmptySeq
    <3> HIDE DEF n
    <3> QED BY <1>1, <3>1
  <2>2. sorted[n] = put(sorted[n - 1], cues[n])
    <3> HIDE DEF sorted, put, U, n
    <3> QED BY <1>7, <1>10, <2>1
  <2>3. sorted[n - 1] \in U
    <3> HIDE DEF sorted, put, U, n
    <3>1. g[n - 1] \in U BY <2>1
    <3> QED BY <1>8, <2>1, <3>1 DEF Agree
  <2>4. cues[n] \in T BY <2>1
  <2> HIDE DEF sorted, put, U, n
  <2> QED BY <1>2, <2>2, <2>3, <2>4
<1> HIDE DEF sorted
<1> QED BY <1>9, <1>11, <1>12

LEMMA ParseCuesType ==
  ASSUME NEW f, NEW points, NEW video, NEW segData, f \in Seq(Cell), points \in Seq(Elem), segData \in Nat
  PROVE  parseCues(f, points, video, segData) \in Seq(Cue)
<1> DEFINE cues(p) == cuesOf(f, Children(f, p), video, segData)
           g == [i \in DOMAIN points |-> cues(points[i])]
           U == Seq(Cue)
<1>1. \A p \in Elem : cues(p) \in U
  <2> SUFFICES ASSUME NEW p \in Elem PROVE cues(p) \in U OBVIOUS
  <2>1. Children(f, p) \in Seq(Elem) BY ChildrenWalked
  <2> QED BY <2>1, CuesOfType
<1>2. DOMAIN points = 1..Len(points) /\ Len(points) \in Nat /\ \A i \in 1..Len(points) : points[i] \in Elem OBVIOUS
<1>3. g \in [1..Len(points) -> U]
  <2> HIDE DEF cues, U
  <2> QED BY <1>1, <1>2
<1> HIDE DEF g
<1>4. FlattenSeq(g) \in Seq(Cue) BY <1>2, <1>3, FlattenOf
<1>5. SortByTime(FlattenSeq(g)) \in Seq(Cue) BY <1>4, SortType
<1>6. parseCues(f, points, video, segData) = SortByTime(FlattenSeq(g))
      \/ parseCues(f, points, video, segData) = <<>>
  BY DEF parseCues, g
<1>7. <<>> \in Seq(Cue) OBVIOUS
<1> QED BY <1>5, <1>6, <1>7

LEMMA FirstOf ==
  ASSUME NEW es, NEW S, es \in Seq(Elem), S \subseteq 1..Len(es), S # {}
  PROVE  Min(S) \in S /\ es[Min(S)] \in Elem
<1>1. S \subseteq Nat /\ Len(es) \in Nat OBVIOUS
<1>2. Min(S) \in S BY <1>1, SmallestNumber
<1>3. Min(S) \in 1..Len(es) BY <1>2
<1> QED BY <1>2, <1>3

LEMMA ParseTracksType ==
  ASSUME NEW f, NEW entries, f \in Seq(Cell), entries \in Seq(Elem)
  PROVE  parseTracks(f, entries) \in Nat
<1> DEFINE S == {i \in DOMAIN entries : videoNumber(f, Children(f, entries[i])) # 0}
<1>1. \A e \in Elem : videoNumber(f, Children(f, e)) \in Nat
  <2> SUFFICES ASSUME NEW e \in Elem PROVE videoNumber(f, Children(f, e)) \in Nat OBVIOUS
  <2>1. Children(f, e) \in Seq(Elem) BY ChildrenWalked
  <2>2. Value(f, Children(f, e), "TrackNumber") \in Nat BY <2>1, ValueNat
  <2> QED BY <2>2 DEF videoNumber
<1>2. S \subseteq 1..Len(entries) OBVIOUS
<1>3. CASE S = {} \/ \E i \in DOMAIN entries : ~Intact(f, entries[i])
  <2>1. parseTracks(f, entries) = 0 BY <1>3 DEF parseTracks
  <2> QED BY <2>1
<1>4. CASE ~(S = {} \/ \E i \in DOMAIN entries : ~Intact(f, entries[i]))
  <2>1. parseTracks(f, entries) = videoNumber(f, Children(f, entries[Min(S)])) BY <1>4 DEF parseTracks
  <2> HIDE DEF S
  <2>2. entries[Min(S)] \in Elem BY <1>2, <1>4, FirstOf
  <2> QED BY <1>1, <2>1, <2>2
<1> QED BY <1>3, <1>4

LEMMA SeekPositionType ==
  ASSUME NEW f, NEW head, f \in Seq(Cell), head \in Elem
  PROVE  seekPosition(f, head, "Cues") \in Int
<1> DEFINE seeks == Children(f, head)
           found == {i \in DOMAIN seeks : /\ seeks[i].id = "Seek"
                                          /\ SeeksFor(f, Children(f, seeks[i]), seeks[i].to, "Cues")}
<1>1. seeks \in Seq(Elem) BY ChildrenWalked
<1>2. CASE Malformed(seeks, head.to) \/ found = {}
  <2>1. seekPosition(f, head, "Cues") = -1 BY <1>2 DEF seekPosition
  <2> QED BY <2>1
<1>3. CASE ~(Malformed(seeks, head.to) \/ found = {})
  <2>1. seekPosition(f, head, "Cues") = Value(f, Children(f, seeks[Min(found)]), "SeekPosition")
    BY <1>3 DEF seekPosition
  <2>2. found \subseteq DOMAIN seeks /\ found # {} BY <1>3
  <2> HIDE DEF found, seeks
  <2>3. found \subseteq 1..Len(seeks) BY <1>1, <2>2
  <2>4. seeks[Min(found)] \in Elem BY <1>1, <2>2, <2>3, FirstOf
  <2>5. Children(f, seeks[Min(found)]) \in Seq(Elem) BY <2>4, ChildrenWalked
  <2>6. Value(f, Children(f, seeks[Min(found)]), "SeekPosition") \in Nat BY <2>5, ValueNat
  <2> QED BY <2>1, <2>6
<1> QED BY <1>2, <1>3

LEMMA CuesOffsetType ==
  ASSUME NEW f, NEW seg, NEW top, f \in Seq(Cell), top \in Seq(Elem), seg.data \in Nat
  PROVE  cuesOffset(f, seg, top) \in Nat
<1> DEFINE known == {i \in DOMAIN top : top[i].id = "SeekHead" /\ seekPosition(f, top[i], "Cues") >= 0}
<1>1. CASE Has(top, "Cues")
  <2>1. LastOf(top, "Cues") \in Elem BY <1>1, LastType
  <2>2. LastOf(top, "Cues").from \in Nat BY <2>1 DEF Elem
  <2> QED BY <1>1, <2>2 DEF cuesOffset
<1>2. CASE ~Has(top, "Cues") /\ known = {}
  <2>1. Len(f) \in Nat OBVIOUS
  <2> QED BY <1>2, <2>1 DEF cuesOffset
<1>3. CASE ~Has(top, "Cues") /\ known # {}
  <2>1. known \subseteq 1..Len(top) OBVIOUS
  <2>2. cuesOffset(f, seg, top) = seg.data + seekPosition(f, top[Min(known)], "Cues") BY <1>3 DEF cuesOffset
  <2>3. Min(known) \in known /\ top[Min(known)] \in Elem
    <3> HIDE DEF known
    <3> QED BY <1>3, <2>1, FirstOf
  <2>4. seekPosition(f, top[Min(known)], "Cues") >= 0 BY <2>3
  <2> HIDE DEF known
  <2>5. seekPosition(f, top[Min(known)], "Cues") \in Int BY <2>3, SeekPositionType
  <2> QED BY <2>2, <2>4, <2>5
<1> QED BY <1>1, <1>2, <1>3

LEMMA ReadElementType ==
  ASSUME NEW f, NEW off, NEW id, f \in Seq(Cell), off \in Nat, readElement(f, off, id).id # "bad"
  PROVE  readElement(f, off, id) \in FileElem(f)
<1> DEFINE h == ReadHeaderAt(f, off)
           end == off + h.w + h.size
<1>1. HeaderOf(f, off, h) BY HeaderRead
<1>2. h.id = id /\ h.size # UnknownSize /\ end <= Len(f)
      /\ readElement(f, off, id) = Element(id, off, off + h.w, end)
  <2>1. CASE h.id = id /\ h.size # UnknownSize /\ end <= Len(f) BY <2>1 DEF readElement
  <2>2. CASE ~(h.id = id /\ h.size # UnknownSize /\ end <= Len(f))
    <3>1. readElement(f, off, id) = Element("bad", off, off, off) BY <2>2 DEF readElement
    <3> HIDE DEF h, end
    <3> QED BY <3>1 DEF Element
  <2> QED BY <2>1, <2>2
<1> HIDE DEF h
<1>3. id \in Ids /\ off + h.w \in Nat /\ end \in Nat /\ off <= end BY <1>1, <1>2 DEF HeaderOf
<1> HIDE DEF end
<1>4. Element(id, off, off + h.w, end) \in FileElem(f) BY <1>2, <1>3 DEF Element, Elem, FileElem
<1> QED BY <1>2, <1>4

\* The segment, whose header is in the file.
SegmentOf(f, seg) ==
  /\ seg.header \in Nat /\ seg.header <= Len(f) /\ seg.data \in Nat /\ seg.end \in Nat

LEMMA SegmentType ==
  ASSUME NEW f, NEW ebml, NEW h, f \in Seq(Cell), HeaderOf(f, 0, ebml),
         HeaderOf(f, ebml.w + ebml.size, h), segment(f, ebml, h).ok
  PROVE  SegmentOf(f, segment(f, ebml, h))
<1> DEFINE seg == segment(f, ebml, h)
           data == ebml.w + ebml.size + h.w
<1>1. /\ ebml.id = "EBML" /\ ebml.size # UnknownSize /\ h.id = "Segment"
      /\ seg.header = ebml.w + ebml.size /\ seg.data = data
      /\ seg.end = IF h.size # UnknownSize /\ data + h.size < Len(f) THEN data + h.size ELSE Len(f)
  BY DEF segment
<1>2. ebml.w \in Nat /\ ebml.size \in Nat BY <1>1 DEF HeaderOf
<1>3. h.w \in Nat /\ (h.size \in Nat \/ h.size = UnknownSize) /\ h.w > 0 /\ ebml.w + ebml.size + h.w <= Len(f)
  BY <1>1 DEF HeaderOf
<1>4. Len(f) \in Nat OBVIOUS
<1> HIDE DEF seg
<1>5. SegmentOf(f, seg) BY <1>1, <1>2, <1>3, <1>4 DEF SegmentOf
<1> QED BY <1>5 DEF seg

\* An element before the first cluster ends where the cluster starts or before.
LEMMA TopElement ==
  ASSUME NEW f, NEW top, NEW off, NEW end, NEW id, f \in Seq(Cell), Walked(f, top, off, end, {"Cluster"}),
         Has(top, "Cluster"), Has(top, id), id # "Cluster"
  PROVE  /\ LastOf(top, id) \in FileElem(f) /\ LastOf(top, id).id = id
         /\ LastOf(top, id).from < LastOf(top, id).data /\ LastOf(top, id).data <= LastOf(top, id).to
         /\ HeadedBy(f, LastOf(top, id))
<1>1. top \in Seq(Elem) BY DEF Walked
<1>2. LastFound(top, id) /\ LastFound(top, "Cluster") BY <1>1, LastIsOne
<1>3. PICK k \in 1..Len(top) : LastOf(top, id) = top[k] /\ top[k].id = id BY <1>2 DEF LastFound
<1>4. PICK c \in 1..Len(top) : top[c].id = "Cluster" BY <1>2 DEF LastFound
<1>5. k # c /\ ~(c < k) BY <1>3, <1>4 DEF Walked
<1>6. k < c BY <1>5
<1>7. top[k].id \notin {"Cluster", "bad"} /\ top[k].to <= top[c].from BY <1>6 DEF Walked
<1>8. ElemOf(f, top[k], off, end, {"Cluster"}) /\ ElemOf(f, top[c], off, end, {"Cluster"}) BY DEF Walked
<1>9. top[k] \in Elem /\ top[c] \in Elem BY <1>1
<1>10. top[k].from <= top[k].to /\ top[k].to <= Len(f)
  <2>1. /\ top[k].from \in Nat /\ top[k].data \in Nat /\ top[k].to \in Nat
        /\ top[c].from \in Nat /\ top[c].data \in Nat
    BY <1>9 DEF Elem
  <2>2. top[k].from < top[k].data /\ top[k].data <= top[k].to BY <1>7, <1>8 DEF ElemOf
  <2>3. top[c].from < top[c].data /\ top[c].data <= Len(f) BY <1>4, <1>8 DEF ElemOf
  <2>4. Len(f) \in Nat OBVIOUS
  <2> QED BY <2>1, <2>2, <2>3, <2>4, <1>7
<1>11. top[k].from < top[k].data /\ top[k].data <= top[k].to /\ HeadedBy(f, top[k]) BY <1>7, <1>8 DEF ElemOf
<1> QED BY <1>3, <1>9, <1>10, <1>11 DEF FileElem

\* An element with attachments.
Attached(f, e) == e.id = "Attachments" /\ e.from < e.data /\ e.data <= e.to /\ HeadedBy(f, e)

\* A source that can be cut, whose elements are in the file.
SourceOf(f, src) ==
  /\ src.ebmlHeader \in Seq(Cell) /\ src.segEnd \in Nat /\ src.video \in Nat /\ src.duration \in Nat
  /\ src.cues \in Seq(Cue) /\ src.cues # <<>>
  /\ src.info \in Seq(FileElem(f)) /\ src.tracks \in Seq(FileElem(f))
  /\ src.attachments \in Seq(FileElem(f))
  /\ src.attachments # <<>> => Attached(f, src.attachments[1])

FileElems(f) == Seq(FileElem(f))

LEMMA FileElemsAre ==
  ASSUME NEW f, NEW es, es \in FileElems(f)
  PROVE  es \in Seq(Elem)
<1>1. FileElem(f) \subseteq Elem BY DEF FileElem
<1> QED BY <1>1, SeqMonotonic DEF FileElems

LEMMA SourceOfType ==
  ASSUME NEW f, NEW seg, NEW top, NEW info, NEW tracks, NEW video, NEW cues,
         f \in Seq(Cell), SegmentOf(f, seg), Walked(f, top, seg.data, seg.end, {"Cluster"}), Has(top, "Cluster"),
         info \in FileElems(f), tracks \in FileElems(f), video \in Nat, cues \in Seq(Cue),
         sourceOf(f, seg, top, info, tracks, video, cues).ok
  PROVE  SourceOf(f, sourceOf(f, seg, top, info, tracks, video, cues))
<1> DEFINE src == sourceOf(f, seg, top, info, tracks, video, cues)
           atts == IF Has(top, "Attachments") THEN <<LastOf(top, "Attachments")>> ELSE <<>>
<1>1. CASE video = 0 \/ cues = <<>>
  <2>1. src = Failed BY <1>1 DEF sourceOf
  <2> QED BY <2>1 DEF Failed
<1>2. CASE ~(video = 0 \/ cues = <<>>)
  <2>1. /\ src.ebmlHeader = SubSeq(f, 1, seg.header) /\ src.segEnd = seg.end /\ src.video = video
        /\ src.cues = cues /\ src.duration = Value(f, info, "Duration") /\ src.info = info /\ src.tracks = tracks
        /\ src.attachments = atts
    BY <1>2 DEF sourceOf
  <2>2. SubSeq(f, 1, seg.header) \in Seq(Cell)
    <3> DEFINE n == seg.header
    <3>1. n \in Nat /\ 0 + n <= Len(f) /\ 0 \in Nat BY DEF SegmentOf
    <3> HIDE DEF n
    <3>2. SubSeq(f, 0 + 1, 0 + n) \in Seq(Cell) BY <3>1, SliceType
    <3>3. 0 + n = n BY <3>1
    <3> QED BY <3>2, <3>3 DEF n
  <2>3. Value(f, info, "Duration") \in Nat BY FileElemsAre, ValueNat
  <2>4. atts \in Seq(FileElem(f)) /\ (atts # <<>> => Attached(f, atts[1]))
    <3>1. CASE Has(top, "Attachments")
      <4> DEFINE e == LastOf(top, "Attachments")
      <4>1. e \in FileElem(f) /\ Attached(f, e) BY <3>1, TopElement DEF Attached
      <4>2. atts = <<e>> BY <3>1
      <4> HIDE DEF e, atts
      <4> QED BY <4>1, <4>2
    <3>2. CASE ~Has(top, "Attachments")
      <4>1. atts = <<>> BY <3>2
      <4> HIDE DEF atts
      <4> QED BY <4>1
    <3> QED BY <3>1, <3>2
  <2> HIDE DEF src, atts
  <2>5. SourceOf(f, src) BY <1>2, <2>1, <2>2, <2>3, <2>4 DEF SourceOf, SegmentOf, FileElems
  <2> QED BY <2>5 DEF src
<1> QED BY <1>1, <1>2

LEMMA IndexedSourceType ==
  ASSUME NEW f, NEW seg, NEW top, NEW info, NEW tracks, NEW video, NEW el,
         f \in Seq(Cell), SegmentOf(f, seg), Walked(f, top, seg.data, seg.end, {"Cluster"}), Has(top, "Cluster"),
         info \in FileElems(f), tracks \in FileElems(f), video \in Nat,
         el.id # "bad" => el \in FileElem(f),
         indexedSource(f, seg, top, info, tracks, video, el).ok
  PROVE  SourceOf(f, indexedSource(f, seg, top, info, tracks, video, el))
<1> DEFINE points == Named(Children(f, el), "CuePoint")
           cues == parseCues(f, points, video, seg.data)
<1>1. CASE el.id = "bad" \/ ~Intact(f, el)
  <2>1. indexedSource(f, seg, top, info, tracks, video, el) = Failed BY <1>1 DEF indexedSource
  <2> QED BY <2>1 DEF Failed
<1>2. CASE ~(el.id = "bad" \/ ~Intact(f, el))
  <2>1. indexedSource(f, seg, top, info, tracks, video, el) = sourceOf(f, seg, top, info, tracks, video, cues)
    BY <1>2 DEF indexedSource
  <2>2. Children(f, el) \in Seq(Elem)
    <3>1. el \in Elem BY <1>2 DEF FileElem
    <3> QED BY <3>1, ChildrenWalked
  <2>3. points \in Seq(Elem) BY <2>2, NamedType
  <2>4. seg.data \in Nat BY DEF SegmentOf
  <2> HIDE DEF points
  <2>5. cues \in Seq(Cue) BY <2>3, <2>4, ParseCuesType
  <2> HIDE DEF cues
  <2> QED BY <2>1, <2>5, SourceOfType
<1> QED BY <1>1, <1>2

LEMMA DescribedSourceType ==
  ASSUME NEW f, NEW seg, NEW top, NEW infoEl, NEW tracksEl,
         f \in Seq(Cell), SegmentOf(f, seg), Walked(f, top, seg.data, seg.end, {"Cluster"}), Has(top, "Cluster"),
         infoEl \in FileElem(f), tracksEl \in FileElem(f),
         describedSource(f, seg, top, infoEl, tracksEl).ok
  PROVE  SourceOf(f, describedSource(f, seg, top, infoEl, tracksEl))
<1> DEFINE info == Children(f, infoEl)
           tracks == Children(f, tracksEl)
           video == parseTracks(f, Named(tracks, "TrackEntry"))
           el == readElement(f, cuesOffset(f, seg, top), "Cues")
<1>1. CASE ~Intact(f, infoEl) \/ ~Intact(f, tracksEl)
  <2>1. describedSource(f, seg, top, infoEl, tracksEl) = Failed BY <1>1 DEF describedSource
  <2> QED BY <2>1 DEF Failed
<1>2. CASE ~(~Intact(f, infoEl) \/ ~Intact(f, tracksEl))
  <2>1. describedSource(f, seg, top, infoEl, tracksEl) = indexedSource(f, seg, top, info, tracks, video, el)
    BY <1>2 DEF describedSource
  <2>2. info \in FileElems(f) /\ tracks \in FileElems(f) BY <1>2, IntactChildren DEF FileElems
  <2>3. video \in Nat
    <3>1. tracks \in Seq(Elem) BY <2>2, FileElemsAre
    <3>2. Named(tracks, "TrackEntry") \in Seq(Elem) BY <3>1, NamedType
    <3> QED BY <3>2, ParseTracksType
  <2>4. el.id # "bad" => el \in FileElem(f)
    <3>1. top \in Seq(Elem) /\ seg.data \in Nat BY DEF Walked, SegmentOf
    <3>2. cuesOffset(f, seg, top) \in Nat BY <3>1, CuesOffsetType
    <3> QED BY <3>2, ReadElementType
  <2> HIDE DEF info, tracks, video, el
  <2> QED BY <2>1, <2>2, <2>3, <2>4, IndexedSourceType
<1> QED BY <1>1, <1>2

LEMMA SegmentSourceType ==
  ASSUME NEW f, NEW seg, NEW top,
         f \in Seq(Cell), SegmentOf(f, seg), Walked(f, top, seg.data, seg.end, {"Cluster"}),
         segmentSource(f, seg, top).ok
  PROVE  SourceOf(f, segmentSource(f, seg, top))
<1>1. CASE \E id \in {"Cluster", "Info", "Tracks"} : ~Has(top, id)
  <2>1. segmentSource(f, seg, top) = Failed BY <1>1 DEF segmentSource
  <2> QED BY <2>1 DEF Failed
<1>2. CASE ~\E id \in {"Cluster", "Info", "Tracks"} : ~Has(top, id)
  <2>1. segmentSource(f, seg, top) = describedSource(f, seg, top, LastOf(top, "Info"), LastOf(top, "Tracks"))
    BY <1>2 DEF segmentSource
  <2>2. Has(top, "Cluster") /\ Has(top, "Info") /\ Has(top, "Tracks") BY <1>2
  <2>3. LastOf(top, "Info") \in FileElem(f) /\ LastOf(top, "Tracks") \in FileElem(f) BY <2>2, TopElement
  <2> QED BY <2>1, <2>2, <2>3, DescribedSourceType
<1> QED BY <1>1, <1>2

\* Whatever the file is, what Open takes from it is in it (Open).
LEMMA OpenType ==
  ASSUME NEW f, f \in Seq(Cell), Open(f).ok
  PROVE  SourceOf(f, Open(f))
<1> DEFINE ebml == ReadHeaderAt(f, 0)
           h == ReadHeaderAt(f, ebml.w + ebml.size)
           seg == segment(f, ebml, h)
           top == Walk(f, seg.data, seg.end, {"Cluster"})
<1>1. Open(f) = inSegment(f, seg) BY DEF Open
<1>2. HeaderOf(f, 0, ebml) BY HeaderRead
<1>3. CASE ~seg.ok
  <2>1. inSegment(f, seg) = Failed BY <1>3 DEF inSegment
  <2> HIDE DEF seg
  <2> QED BY <1>1, <2>1 DEF Failed
<1>4. CASE seg.ok
  <2>1. ebml.w + ebml.size \in Nat
    <3>1. ebml.size # UnknownSize BY <1>4 DEF segment
    <3> HIDE DEF ebml
    <3> QED BY <1>2, <3>1 DEF HeaderOf
  <2>2. HeaderOf(f, ebml.w + ebml.size, h)
    <3> HIDE DEF ebml
    <3> QED BY <2>1, HeaderRead
  <2> HIDE DEF ebml, h
  <2>3. SegmentOf(f, seg) BY <1>2, <1>4, <2>2, SegmentType
  <2> HIDE DEF seg
  <2>4. inSegment(f, seg) = segmentSource(f, seg, top) BY <1>4 DEF inSegment
  <2>5. Walked(f, top, seg.data, seg.end, {"Cluster"})
    <3>1. seg.data \in Nat /\ seg.end \in Int BY <2>3 DEF SegmentOf
    <3> QED BY <3>1, WalkElements
  <2> HIDE DEF top
  <2> QED BY <1>1, <2>3, <2>4, <2>5, SegmentSourceType
<1> QED BY <1>3, <1>4

-----------------------------------------------------------------------------
(* Clusters and blocks.                                                      *)

\* A cluster, whose header is in the file if it can be cut.
FileCluster(f) ==
  {c \in [ok : BOOLEAN, off : Nat, end : Int, timestamp : Nat, blocks : Int] :
     c.ok => c.off < Len(f) /\ c.off < c.end /\ 0 <= c.blocks /\ c.blocks <= c.end}

LEMMA ClusterOfType ==
  ASSUME NEW f, NEW off, NEW h, NEW kids, f \in Seq(Cell), off \in Nat, HeaderOf(f, off, h),
         Walked(f, kids, off + h.w, off + h.w + h.size, BlockIds)
  PROVE  clusterOf(f, off, h, kids) \in FileCluster(f)
<1> DEFINE c == clusterOf(f, off, h, kids)
           at == {i \in DOMAIN kids : kids[i].id \in BlockIds}
           end == off + h.w + h.size
           good == /\ h.id = "Cluster" /\ h.size # UnknownSize
                   /\ \A i \in DOMAIN kids : /\ kids[i].id \notin {"bad", "EncryptedBlock"}
                                             /\ kids[i].id = "Timestamp" => kids[i].to <= Len(f)
                   /\ \A i \in at : Has(kids, "Timestamp") /\ ReadHeaderAt(f, kids[i].from).size # UnknownSize
           blocks == IF at = {} THEN end ELSE kids[Min(at)].from
<1>1. kids \in Seq(Elem) BY DEF Walked
<1>2. c = [ok |-> good, off |-> off, end |-> end, timestamp |-> Value(f, kids, "Timestamp"), blocks |-> blocks]
  BY DEF clusterOf
<1>3. good \in BOOLEAN OBVIOUS
<1>4. good => h.id = "Cluster" /\ h.size # UnknownSize OBVIOUS
<1>5. end \in Int /\ (good => off < Len(f) /\ off + h.w <= end /\ off < end)
  <2>1. h.w \in Nat /\ h.size \in Int BY DEF HeaderOf, UnknownSize
  <2>2. Len(f) \in Nat OBVIOUS
  <2> HIDE DEF good
  <2>3. good => h.w > 0 /\ off + h.w <= Len(f) /\ h.size \in Nat BY <1>4 DEF HeaderOf
  <2> QED BY <2>1, <2>2, <2>3
<1>6. blocks \in Int /\ (good => 0 <= blocks /\ blocks <= end)
  <2>1. CASE at = {}
    <3>1. blocks = end BY <2>1
    <3> HIDE DEF blocks, good, end
    <3> QED BY <1>5, <3>1
  <2>2. CASE at # {}
    <3>1. at \subseteq 1..Len(kids) BY <1>1
    <3>2. blocks = kids[Min(at)].from BY <2>2
    <3> HIDE DEF at, blocks
    <3>3. Min(at) \in 1..Len(kids) /\ kids[Min(at)] \in Elem BY <1>1, <2>2, <3>1, FirstOf
    <3>4. ElemOf(f, kids[Min(at)], off + h.w, end, BlockIds) BY <3>3 DEF Walked
    <3>5. kids[Min(at)].from \in Nat /\ kids[Min(at)].from < end BY <3>3, <3>4 DEF ElemOf, Elem
    <3> HIDE DEF end, good
    <3> QED BY <1>5, <3>2, <3>5
  <2> QED BY <2>1, <2>2
<1>7. Value(f, kids, "Timestamp") \in Nat BY <1>1, ValueNat
<1> HIDE DEF good, end, blocks, c, at
<1>8. c \in [ok : BOOLEAN, off : Nat, end : Int, timestamp : Nat, blocks : Int]
  BY <1>2, <1>3, <1>5, <1>6, <1>7
<1>9. c.ok = good /\ c.off = off /\ c.end = end /\ c.blocks = blocks BY <1>2
<1>10. c \in FileCluster(f) BY <1>5, <1>6, <1>8, <1>9 DEF FileCluster
<1> QED BY <1>10 DEF c

LEMMA ReadClusterType ==
  ASSUME NEW f, NEW off, f \in Seq(Cell), off \in Nat
  PROVE  readCluster(f, off) \in FileCluster(f) /\ readCluster(f, off).off = off
<1> DEFINE h == ReadHeaderAt(f, off)
           kids == Walk(f, off + h.w, off + h.w + h.size, BlockIds)
<1>1. HeaderOf(f, off, h) BY HeaderRead
<1>2. readCluster(f, off) = clusterOf(f, off, h, kids) BY DEF readCluster
<1> HIDE DEF h
<1>3. off + h.w \in Nat /\ off + h.w + h.size \in Int BY <1>1 DEF HeaderOf, UnknownSize
<1>4. Walked(f, kids, off + h.w, off + h.w + h.size, BlockIds) BY <1>3, WalkElements
<1> HIDE DEF kids
<1>5. clusterOf(f, off, h, kids) \in FileCluster(f) BY <1>1, <1>4, ClusterOfType
<1>6. clusterOf(f, off, h, kids).off = off BY DEF clusterOf
<1> QED BY <1>2, <1>5, <1>6

\* A block that is in the file, with more than its timestamp.
FileBlock(f) ==
  {b \in [off : Nat, len : Nat, track : Nat, time : Int, ts : Nat] :
     b.ts + 1 <= b.len /\ b.off + b.len <= Len(f)}

LEMMA PayloadPlace ==
  ASSUME NEW f, NEW e, f \in Seq(Cell), e \in FileElem(f), e.from < e.data, ReadableBlock(f, e)
  PROVE  /\ payload(f, e).data \in Nat /\ e.from < payload(f, e).data
         /\ payload(f, e).data + 3 <= e.to
<1>0. e \in Elem /\ e.from \in Nat /\ e.data \in Nat /\ e.to \in Nat BY DEF FileElem, Elem
<1>1. CASE e.id = "BlockGroup"
  <2> DEFINE kids == Children(f, e)
             p == LastOf(kids, "Block")
  <2>1. payload(f, e) = p BY <1>1 DEF payload
  <2>2. Intact(f, e) /\ Has(kids, "Block") BY <1>1 DEF ReadableBlock
  <2>3. Walked(f, kids, e.data, e.to, {}) /\ kids \in Seq(Elem) BY <1>0, ChildrenWalked
  <2>4. \A i \in DOMAIN kids : ~(kids[i].to > e.to) BY <2>2 DEF Intact, Malformed
  <2>5. payload(f, e).to - payload(f, e).data >= 3 BY DEF ReadableBlock
  <2> HIDE DEF kids
  <2>6. LastFound(kids, "Block") BY <2>2, <2>3, LastIsOne
  <2>7. PICK k \in 1..Len(kids) : p = kids[k] /\ kids[k].id = "Block" BY <2>6 DEF LastFound
  <2>8. kids[k] \in Elem /\ ElemOf(f, kids[k], e.data, e.to, {}) /\ ~(kids[k].to > e.to)
    BY <2>3, <2>4 DEF Walked
  <2> HIDE DEF p
  <2>9. p.from \in Nat /\ p.data \in Nat /\ p.to \in Nat /\ e.data <= p.from /\ p.from < p.data /\ ~(p.to > e.to)
    BY <2>7, <2>8 DEF Elem, ElemOf
  <2> QED BY <1>0, <2>1, <2>5, <2>9
<1>2. CASE e.id # "BlockGroup"
  <2>1. payload(f, e) = e BY <1>2 DEF payload
  <2>2. e.to - e.data >= 3 BY <2>1 DEF ReadableBlock
  <2> QED BY <1>0, <2>1, <2>2
<1> QED BY <1>1, <1>2

LEMMA RelValueType ==
  ASSUME NEW f, NEW off, f \in Seq(Cell), off \in Nat, off < Len(f)
  PROVE  RelValue(f, off) \in Int
<1> DEFINE c == f[off + 1]
<1>1. off + 1 \in 1..Len(f) OBVIOUS
<1>2. c \in Cell BY <1>1
<1>3. RelValue(f, off) = IF c.is = "rel" THEN c.v ELSE 0 BY DEF RelValue
<1> HIDE DEF c
<1>4. c.is = "rel" => c.v \in Int BY <1>2, RelCell
<1> QED BY <1>3, <1>4

LEMMA BlockOfType ==
  ASSUME NEW f, NEW c, NEW e, f \in Seq(Cell), c.timestamp \in Nat, e \in FileElem(f), e.from < e.data,
         ReadableBlock(f, e)
  PROVE  blockOf(f, c, e, payload(f, e).data) \in FileBlock(f)
<1> DEFINE d == payload(f, e).data
           b == blockOf(f, c, e, d)
<1>0. e.from \in Nat /\ e.to \in Nat /\ e.to <= Len(f) /\ Len(f) \in Nat BY DEF FileElem, Elem
<1>1. d \in Nat /\ e.from < d /\ d + 3 <= e.to BY PayloadPlace
<1>2. b = [off |-> e.from, len |-> e.to - e.from, track |-> CellValue(f, d),
           time |-> c.timestamp + RelValue(f, d + 1), ts |-> d + 1 - e.from]
  BY DEF blockOf
<1> HIDE DEF d, b
<1>3. CellValue(f, d) \in Nat BY <1>1, CellValueType
<1>4. RelValue(f, d + 1) \in Int
  <2> DEFINE o == d + 1
  <2>1. o \in Nat /\ o < Len(f) BY <1>0, <1>1
  <2> HIDE DEF o
  <2>2. RelValue(f, o) \in Int BY <2>1, RelValueType
  <2> QED BY <2>2 DEF o
<1>5. e.to - e.from \in Nat /\ d + 1 - e.from \in Nat /\ c.timestamp + RelValue(f, d + 1) \in Int
      /\ (d + 1 - e.from) + 1 <= e.to - e.from /\ e.from + (e.to - e.from) <= Len(f)
  <2> DEFINE rel == RelValue(f, d + 1)
             from == e.from
             to == e.to
             n == Len(f)
             time == c.timestamp
  <2>1. /\ from \in Nat /\ to \in Nat /\ to <= n /\ n \in Nat /\ d \in Nat /\ from < d /\ d + 3 <= to
        /\ rel \in Int /\ time \in Nat
    BY <1>0, <1>1, <1>4
  <2> HIDE DEF rel, from, to, n, time
  <2>2. /\ to - from \in Nat /\ d + 1 - from \in Nat /\ time + rel \in Int
        /\ (d + 1 - from) + 1 <= to - from /\ from + (to - from) <= n
    BY <2>1
  <2> QED BY <2>2 DEF rel, from, to, n, time
<1>6. b \in [off : Nat, len : Nat, track : Nat, time : Int, ts : Nat] BY <1>0, <1>2, <1>3, <1>5
<1>7. b.ts + 1 <= b.len /\ b.off + b.len <= Len(f) BY <1>2, <1>5
<1> QED BY <1>6, <1>7 DEF FileBlock, b, d

LEMMA ReadBlocksType ==
  ASSUME NEW f, NEW c, f \in Seq(Cell), c \in FileCluster(f), c.ok, readBlocks(f, c).ok
  PROVE  readBlocks(f, c).blocks \in Seq(FileBlock(f)) /\ (c.blocks = c.end \/ c.end <= Len(f))
<1> DEFINE kids == Walk(f, c.blocks, c.end, {})
           I == {i \in DOMAIN kids : kids[i].id \in BlockIds}
           found == Where(kids, I)
           W == {e \in FileElem(f) : e.from < e.data}
           block(e) == blockOf(f, c, e, payload(f, e).data)
           T == FileBlock(f)
<1>1. readBlocks(f, c) = blocksOf(f, c, kids, found) BY DEF readBlocks
<1>2. /\ c.blocks = c.end \/ c.end <= Len(f)
      /\ ~Malformed(kids, c.end) /\ \A i \in DOMAIN found : ReadableBlock(f, found[i])
      /\ readBlocks(f, c).blocks = [i \in DOMAIN found |-> block(found[i])]
  <2> HIDE DEF kids, found
  <2>1. CASE \/ ~AllThere(f, c) \/ Malformed(kids, c.end) \/ Has(kids, "EncryptedBlock")
             \/ \E i \in DOMAIN found : ~ReadableBlock(f, found[i])
    <3>1. readBlocks(f, c) = Failed BY <1>1, <2>1 DEF blocksOf
    <3> QED BY <3>1 DEF Failed
  <2>2. CASE ~(\/ ~AllThere(f, c) \/ Malformed(kids, c.end) \/ Has(kids, "EncryptedBlock")
               \/ \E i \in DOMAIN found : ~ReadableBlock(f, found[i]))
    <3>1. readBlocks(f, c) = [ok |-> TRUE, blocks |-> [i \in DOMAIN found |-> block(found[i])]]
      BY <1>1, <2>2 DEF blocksOf
    <3> QED BY <2>2, <3>1 DEF AllThere
  <2> QED BY <2>1, <2>2
<1>3. c.blocks \in Nat /\ c.end \in Int /\ c.timestamp \in Nat /\ Len(f) \in Nat BY DEF FileCluster
<1>4. Walked(f, kids, c.blocks, c.end, {}) BY <1>3, WalkElements
<1>5. \A i \in DOMAIN kids : ~(kids[i].id = "bad" \/ kids[i].to > c.end) BY <1>2 DEF Malformed
<1> HIDE DEF kids
<1>6. kids \in Seq(Elem) /\ \A i \in 1..Len(kids) : ElemOf(f, kids[i], c.blocks, c.end, {}) BY <1>4 DEF Walked
<1>7. ASSUME NEW i \in 1..Len(kids) PROVE kids[i] \in W
  <2>1. kids[i] \in Elem /\ ElemOf(f, kids[i], c.blocks, c.end, {}) /\ kids[i].id # "bad" /\ ~(kids[i].to > c.end)
    BY <1>5, <1>6
  <2>2. kids[i].to \in Nat /\ kids[i].from \in Nat /\ kids[i].data \in Nat BY <2>1 DEF Elem
  <2>3. kids[i].from < kids[i].data /\ kids[i].from <= kids[i].to /\ kids[i].to <= Len(f)
    BY <1>2, <1>3, <2>1, <2>2 DEF ElemOf
  <2> QED BY <2>1, <2>3 DEF FileElem
<1>8. found \in Seq(W)
  <2> HIDE DEF I, W
  <2>1. \A i \in 1..Len(kids) : i \in I => kids[i] \in W BY <1>7
  <2> QED BY <1>6, <2>1, WhereType
<1> HIDE DEF found
<1>9. \A e \in W : ReadableBlock(f, e) => block(e) \in T BY <1>3, BlockOfType
<1>10. DOMAIN found = 1..Len(found) /\ Len(found) \in Nat /\ \A i \in 1..Len(found) : found[i] \in W
  <2> HIDE DEF W
  <2> QED BY <1>8
<1>11. readBlocks(f, c).blocks \in [1..Len(found) -> T]
  <2> HIDE DEF block, T, W
  <2> QED BY <1>2, <1>9, <1>10
<1>12. readBlocks(f, c).blocks \in Seq(T)
  <2> HIDE DEF T
  <2> QED BY <1>10, <1>11, FunctionIsSequence
<1> QED BY <1>2, <1>12

\* Clusters of f that follow each other from p on.
Lined(f, s, p) ==
  /\ s \in Seq(FileCluster(f))
  /\ \A i \in 1..Len(s) : s[i] = readCluster(f, s[i].off)
  /\ \A i \in 1..Len(s) : p <= s[i].off
  /\ \A i, j \in 1..Len(s) : i < j => s[i].ok /\ s[i].end <= s[j].off

LEMMA LinedNone ==
  ASSUME NEW f, NEW p
  PROVE  Lined(f, <<>>, p)
<1> DEFINE s == <<>>
<1>1. s \in Seq(FileCluster(f)) /\ Len(s) = 0 OBVIOUS
<1>2. \A i \in 1..0 : FALSE OBVIOUS
<1> HIDE DEF s
<1>3. Lined(f, s, p) BY <1>1, <1>2 DEF Lined
<1> QED BY <1>3 DEF s

LEMMA LinedLater ==
  ASSUME NEW f, NEW s, NEW p, NEW q, p \in Nat, q \in Nat, p <= q, Lined(f, s, q)
  PROVE  Lined(f, s, p)
<1>1. s \in Seq(FileCluster(f)) BY DEF Lined
<1>2. \A c \in FileCluster(f) : c.off \in Nat BY DEF FileCluster
<1>3. \A i \in 1..Len(s) : s[i].off \in Nat BY <1>1, <1>2
<1>4. \A i \in 1..Len(s) : p <= s[i].off BY <1>3 DEF Lined
<1> QED BY <1>4 DEF Lined

LEMMA LinedMore ==
  ASSUME NEW f, NEW c, NEW v, NEW p, p \in Nat, c \in FileCluster(f), c.off = p,
         c = readCluster(f, p),
         v # <<>> => c.ok /\ Lined(f, v, c.end)
  PROVE  Lined(f, <<c>> \o v, p)
<1> DEFINE T == FileCluster(f)
           s == <<c>> \o v
<1>0. c.off \in Nat /\ (c.ok => c.end \in Nat /\ c.off < c.end) BY DEF FileCluster
<1>1. v \in Seq(T)
  <2>1. <<>> \in Seq(T) OBVIOUS
  <2> QED BY <2>1 DEF Lined
<1>2. s \in Seq(T) /\ Len(s) = Len(v) + 1 /\ s[1] = c /\ Len(v) \in Nat
      /\ \A i \in 2..(Len(v) + 1) : s[i] = v[i - 1]
  <2>1. <<c>> \in Seq(T) /\ <<c>>[1] = c /\ Len(<<c>>) = 1 OBVIOUS
  <2> HIDE DEF T
  <2> QED BY <1>1, <2>1
<1>3. Len(v) # 0 => c.ok /\ Lined(f, v, c.end) BY <1>1, EmptySeq
<1> HIDE DEF s
<1>4. ASSUME NEW i \in 2..(Len(v) + 1)
      PROVE  c.ok /\ c.end <= s[i].off /\ p <= s[i].off /\ i - 1 \in 1..Len(v)
  <2>1. i - 1 \in 1..Len(v) /\ Len(v) # 0 BY <1>2
  <2>2. c.ok /\ c.end <= v[i - 1].off BY <1>3, <2>1 DEF Lined
  <2>3. v[i - 1] \in T
    <3> HIDE DEF T
    <3> QED BY <1>1, <2>1
  <2>4. v[i - 1].off \in Nat BY <2>3 DEF FileCluster
  <2> QED BY <1>0, <1>2, <2>1, <2>2, <2>4
<1>5. \A i \in 1..Len(s) : i = 1 \/ i \in 2..(Len(v) + 1) BY <1>2
<1>6. \A i \in 1..Len(s) : p <= s[i].off BY <1>0, <1>2, <1>4, <1>5
<1>7. ASSUME NEW i \in 1..Len(s), NEW j \in 1..Len(s), i < j PROVE s[i].ok /\ s[i].end <= s[j].off
  <2>1. j \in 2..(Len(v) + 1) BY <1>5, <1>7
  <2>2. CASE i = 1 BY <1>2, <1>4, <2>1, <2>2
  <2>3. CASE i # 1
    <3>1. i \in 2..(Len(v) + 1) BY <1>5, <2>3
    <3>2. i - 1 \in 1..Len(v) /\ j - 1 \in 1..Len(v) /\ i - 1 < j - 1 /\ Len(v) # 0 BY <1>2, <1>7, <2>1, <3>1
    <3>3. v[i - 1].ok /\ v[i - 1].end <= v[j - 1].off BY <1>3, <3>2 DEF Lined
    <3> QED BY <1>2, <2>1, <3>1, <3>3
  <2> QED BY <2>2, <2>3
<1>8. ASSUME NEW i \in 1..Len(s) PROVE s[i] = readCluster(f, s[i].off)
  <2>1. CASE i = 1 BY <1>2, <2>1
  <2>2. CASE i # 1
    <3>1. i \in 2..(Len(v) + 1) BY <1>5, <2>2
    <3>2. i - 1 \in 1..Len(v) /\ Len(v) # 0 BY <1>2, <3>1
    <3>3. v[i - 1] = readCluster(f, v[i - 1].off) BY <1>3, <3>2 DEF Lined
    <3> QED BY <1>2, <3>1, <3>3
  <2> QED BY <2>1, <2>2
<1>9. Lined(f, s, p) BY <1>2, <1>6, <1>7, <1>8 DEF Lined
<1> QED BY <1>9 DEF s

LEMMA UpToLined ==
  ASSUME NEW f, NEW s, NEW p, NEW endT, Lined(f, s, p)
  PROVE  Lined(f, upTo(s, endT), p)
<1> DEFINE late == {i \in DOMAIN s : i > 1 /\ s[i].ok /\ s[i].timestamp >= endT}
           T == FileCluster(f)
           n == Min(late) - 1
           u == SubSeq(s, 1, n)
<1>0. s \in Seq(T) BY DEF Lined
<1>1. CASE late = {}
  <2>1. upTo(s, endT) = s BY <1>1 DEF upTo
  <2> QED BY <2>1
<1>2. CASE late # {}
  <2>1. upTo(s, endT) = u BY <1>2 DEF upTo
  <2>2. late \subseteq Nat /\ late \subseteq 1..Len(s)
    <3> HIDE DEF T
    <3> QED BY <1>0
  <2>3. Min(late) \in 1..Len(s)
    <3> HIDE DEF late
    <3> QED BY <1>2, <2>2, SmallestNumber
  <2>4. u \in Seq(T) /\ Len(u) = n /\ \A i \in 1..n : u[i] = s[i] /\ i \in 1..Len(s)
    <3> HIDE DEF T
    <3>1. n \in Nat /\ n <= Len(s) BY <1>0, <2>3
    <3> HIDE DEF n
    <3> QED BY <1>0, <3>1
  <2> HIDE DEF u, n, T
  <2>5. Lined(f, u, p) BY <2>4 DEF Lined, T
  <2> QED BY <2>1, <2>5
<1> QED BY <1>1, <1>2

\* What a collection finds at p, when g has what it finds further on.
Later(g, q, end) == IF q < end THEN g[q] ELSE <<>>
CollectStep(f, p, end, g) ==
  LET h == ReadHeaderAt(f, p)
      c == readCluster(f, p)
  IN  IF h.id \notin {"Cluster", "bad"}
      THEN IF h.size = UnknownSize THEN <<>> ELSE Later(g, p + h.w + h.size, end)
      ELSE <<c>> \o IF c.ok THEN Later(g, c.end, end) ELSE <<>>
CollectedBy(f, src, off, endT, g) ==
  /\ collectClusters(f, src, off, endT) = upTo(Later(g, off, src.segEnd), endT)
  /\ \A p \in off..src.segEnd : g[p] = CollectStep(f, p, src.segEnd, g)
CollectGoes(f, src, off, endT) == \E g : CollectedBy(f, src, off, endT, g)

LEMMA CollectRecursion ==
  ASSUME NEW f, NEW src, NEW off, NEW endT, f \in Seq(Cell), off \in Nat, src.segEnd \in Nat
  PROVE  CollectGoes(f, src, off, endT)
<1> DEFINE end == src.segEnd
           U == Seq(FileCluster(f))
           h(p) == ReadHeaderAt(f, p)
           c(p) == readCluster(f, p)
           skip(p) == h(p).id \notin {"Cluster", "bad"}
           to(p) == p + h(p).w + h(p).size
           from[p \in off..src.segEnd] ==
             LET later(q) == IF q < src.segEnd THEN from[q] ELSE <<>>
                 rest(hh, cc) ==
                   IF hh.id \notin {"Cluster", "bad"}
                   THEN IF hh.size = UnknownSize THEN <<>> ELSE later(p + hh.w + hh.size)
                   ELSE <<cc>> \o IF cc.ok THEN later(cc.end) ELSE <<>>
             IN  rest(ReadHeaderAt(f, p), readCluster(f, p))
           target(p) == IF skip(p) THEN IF h(p).size = UnknownSize THEN end ELSE to(p)
                        ELSE IF c(p).ok THEN c(p).end ELSE end
           body(p, v) == IF skip(p) THEN v ELSE <<c(p)>> \o v
           next == [p \in off..end |-> IF target(p) < end THEN target(p) ELSE end + 1]
           step == [p \in off..end |-> [v \in U |-> body(p, v)]]
           later(g, q) == IF q < end THEN g[q] ELSE <<>>
           R(g) == [p \in off..end |->
                      IF skip(p) THEN IF h(p).size = UnknownSize THEN <<>> ELSE later(g, to(p))
                      ELSE <<c(p)>> \o IF c(p).ok THEN later(g, c(p).end) ELSE <<>>]
<1>0. end \in Nat OBVIOUS
<1>1. ASSUME NEW p \in off..end
      PROVE  p \in Nat /\ target(p) \in Nat /\ (target(p) < end => p < target(p))
             /\ c(p) \in FileCluster(f) /\ c(p).off = p /\ (c(p).ok => c(p).end \in Nat /\ p < c(p).end)
  <2>1. p \in Nat OBVIOUS
  <2>2. HeaderOf(f, p, h(p)) BY <2>1, HeaderRead
  <2>3. c(p) \in FileCluster(f) /\ c(p).off = p BY <2>1, ReadClusterType
  <2> HIDE DEF h, c
  <2>4. c(p).ok => c(p).end \in Nat /\ p < c(p).end BY <2>1, <2>3 DEF FileCluster
  <2>5. skip(p) /\ h(p).size # UnknownSize => to(p) \in Nat /\ p < to(p) BY <2>1, <2>2 DEF HeaderOf
  <2> HIDE DEF skip, to, end
  <2>6. target(p) \in Nat /\ (target(p) < end => p < target(p)) BY <1>0, <2>4, <2>5
  <2> QED BY <2>1, <2>3, <2>4, <2>6
<1>2. ASSUME NEW p \in off..end, NEW v \in U PROVE body(p, v) \in U
  <2> DEFINE T == FileCluster(f)
  <2>1. c(p) \in T BY <1>1
  <2>2. v \in Seq(T) OBVIOUS
  <2> HIDE DEF T, c
  <2>3. <<c(p)>> \o v \in Seq(T) BY <2>1, <2>2
  <2> QED BY <2>3 DEF T
<1>3. step \in [off..end -> [U -> U]]
  <2> HIDE DEF body, U, end
  <2> QED BY <1>2
<1>4. PICK g \in [off..end -> U] :
        \A p \in off..end : g[p] = step[p][IF next[p] \in (p + 1)..end THEN g[next[p]] ELSE <<>>]
  <2>1. <<>> \in U /\ off \in Int /\ end \in Int BY <1>0
  <2> HIDE DEF U, step, next, end
  <2>2. Chained(U, off, end, next, step, <<>>) BY <2>1, <1>3, ChainRecursion
  <2> QED BY <2>2 DEF Chained
<1>5. ASSUME NEW p \in off..end
      PROVE  g[p] = body(p, later(g, target(p)))
  <2> DEFINE v == IF next[p] \in (p + 1)..end THEN g[next[p]] ELSE <<>>
  <2>1. p \in Nat /\ target(p) \in Nat /\ (target(p) < end => p < target(p)) BY <1>1
  <2>2. v \in U
    <3>1. \A x \in (p + 1)..end : x \in off..end
      <4> HIDE DEF end
      <4> QED BY <2>1, <1>0
    <3>2. <<>> \in U OBVIOUS
    <3> HIDE DEF U, next, end
    <3> QED BY <3>1, <3>2
  <2>3. v = later(g, target(p))
    <3>1. next[p] = IF target(p) < end THEN target(p) ELSE end + 1 BY <2>1
    <3> HIDE DEF next, target, end
    <3>2. CASE target(p) < end
      <4>1. next[p] = target(p) /\ next[p] \in (p + 1)..end BY <1>0, <2>1, <3>1, <3>2
      <4> QED BY <3>2, <4>1
    <3>3. CASE ~(target(p) < end)
      <4>1. next[p] \notin (p + 1)..end BY <1>0, <2>1, <3>1, <3>3
      <4> QED BY <3>3, <4>1
    <3> QED BY <3>2, <3>3
  <2> HIDE DEF body, v, later, target, next, end
  <2>4. g[p] = step[p][v] BY <1>4 DEF v
  <2>5. g[p] = body(p, v) BY <2>2, <2>4
  <2> QED BY <2>3, <2>5
<1>6. g = R(g)
  <2>1. g = [p \in off..end |-> g[p]] OBVIOUS
  <2>2. \A p \in off..end : g[p] = R(g)[p]
    <3> SUFFICES ASSUME NEW p \in off..end PROVE g[p] = R(g)[p] OBVIOUS
    <3>1. g[p] = body(p, later(g, target(p))) BY <1>5
    <3>2. later(g, end) = <<>> BY <1>0
    <3> HIDE DEF h, c, to, later, end, skip
    <3>3. R(g)[p] = IF skip(p) THEN IF h(p).size = UnknownSize THEN <<>> ELSE later(g, to(p))
                    ELSE <<c(p)>> \o IF c(p).ok THEN later(g, c(p).end) ELSE <<>>
      OBVIOUS
    <3> QED BY <3>1, <3>2, <3>3
  <2> HIDE DEF R, end, U
  <2> QED BY <2>1, <2>2 DEF R
<1>7. from = R(from)
  <2> HIDE DEF U
  <2> QED BY <1>6
<1>8. ASSUME NEW p \in off..end PROVE from[p] = CollectStep(f, p, end, from)
  <2>1. from[p] = R(from)[p]
    <3> HIDE DEF from
    <3> QED BY <1>7
  <2> HIDE DEF from
  <2>2. R(from)[p] = IF skip(p) THEN IF h(p).size = UnknownSize THEN <<>> ELSE later(from, to(p))
                     ELSE <<c(p)>> \o IF c(p).ok THEN later(from, c(p).end) ELSE <<>>
    <3> HIDE DEF h, c, to, later, end, skip
    <3> QED OBVIOUS
  <2> HIDE DEF R
  <2> QED BY <2>1, <2>2 DEF CollectStep, Later
<1>9. collectClusters(f, src, off, endT) = upTo(IF off < end THEN from[off] ELSE <<>>, endT)
  BY DEF collectClusters
<1> HIDE DEF from, end
<1>10. CollectedBy(f, src, off, endT, from) BY <1>8, <1>9 DEF CollectedBy, Later, end
<1> QED BY <1>10 DEF CollectGoes

\* What is found are clusters that follow each other, whatever is between them.
LEMMA FoundLined ==
  ASSUME NEW f, NEW src, NEW off, NEW endT, NEW g, f \in Seq(Cell), off \in Nat, src.segEnd \in Nat,
         CollectedBy(f, src, off, endT, g)
  PROVE  Lined(f, Later(g, off, src.segEnd), off)
<1> DEFINE end == src.segEnd
           h(p) == ReadHeaderAt(f, p)
           c(p) == readCluster(f, p)
           skip(p) == h(p).id \notin {"Cluster", "bad"}
           to(p) == p + h(p).w + h(p).size
           target(p) == IF skip(p) THEN IF h(p).size = UnknownSize THEN end ELSE to(p)
                        ELSE IF c(p).ok THEN c(p).end ELSE end
<1>0. end \in Nat OBVIOUS
<1>1. ASSUME NEW p \in off..end
      PROVE  p \in Nat /\ target(p) \in Nat /\ (target(p) < end => p < target(p))
             /\ c(p) \in FileCluster(f) /\ c(p).off = p /\ (c(p).ok => c(p).end \in Nat /\ p < c(p).end)
  <2>1. p \in Nat OBVIOUS
  <2>2. HeaderOf(f, p, h(p)) BY <2>1, HeaderRead
  <2>3. c(p) \in FileCluster(f) /\ c(p).off = p BY <2>1, ReadClusterType
  <2> HIDE DEF h, c
  <2>4. c(p).ok => c(p).end \in Nat /\ p < c(p).end BY <2>1, <2>3 DEF FileCluster
  <2>5. skip(p) /\ h(p).size # UnknownSize => to(p) \in Nat /\ p < to(p) BY <2>1, <2>2 DEF HeaderOf
  <2> HIDE DEF skip, to, end
  <2>6. target(p) \in Nat /\ (target(p) < end => p < target(p)) BY <1>0, <2>4, <2>5
  <2> QED BY <2>1, <2>3, <2>4, <2>6
<1>3. CollectedBy(f, src, off, endT, g) OBVIOUS
<1> DEFINE later(q) == IF q < end THEN g[q] ELSE <<>>
           S == {p \in off..end : Lined(f, g[p], p)}
<1>8. ASSUME NEW p \in off..end, (p + 1)..end \subseteq S PROVE p \in S
  <2>1. p \in Nat /\ target(p) \in Nat /\ (target(p) < end => p < target(p))
        /\ c(p) \in FileCluster(f) /\ c(p).off = p
    BY <1>1
  <2> DEFINE v == later(target(p))
  <2>2. g[p] = IF skip(p) THEN v ELSE <<c(p)>> \o v
    <3>1. later(end) = <<>> BY <1>0
    <3>2. g[p] = CollectStep(f, p, end, g) BY <1>3 DEF CollectedBy
    <3>3. CollectStep(f, p, end, g) = IF skip(p) THEN IF h(p).size = UnknownSize THEN <<>> ELSE later(to(p))
                                      ELSE <<c(p)>> \o IF c(p).ok THEN later(c(p).end) ELSE <<>>
      BY DEF CollectStep, Later
    <3> HIDE DEF h, c, to, later, end, skip
    <3> QED BY <3>1, <3>2, <3>3
  <2>3. v # <<>> => target(p) < end /\ Lined(f, v, target(p))
    <3>1. CASE target(p) < end
      <4>1. target(p) \in (p + 1)..end
        <5> HIDE DEF target, end
        <5> QED BY <1>0, <2>1, <3>1
      <4>2. target(p) \in S
        <5> HIDE DEF S, target, end
        <5> QED BY <1>8, <4>1
      <4>3. v = g[target(p)]
        <5> HIDE DEF target, end
        <5> QED BY <3>1
      <4> HIDE DEF v, target, end
      <4> QED BY <3>1, <4>2, <4>3
    <3>2. CASE ~(target(p) < end)
      <4> HIDE DEF target, end
      <4> QED BY <3>2
    <3> QED BY <3>1, <3>2
  <2>4. CASE skip(p)
    <3>1. g[p] = v
      <4> HIDE DEF skip, v, target
      <4> QED BY <2>2, <2>4 DEF v
    <3>2. Lined(f, v, p)
      <4>1. CASE v = <<>>
        <5> HIDE DEF v
        <5> QED BY <4>1, LinedNone
      <4>2. CASE v # <<>>
        <5> HIDE DEF v, target, end
        <5>1. p <= target(p) /\ Lined(f, v, target(p)) BY <2>1, <2>3, <4>2
        <5> QED BY <2>1, <5>1, LinedLater
      <4> QED BY <4>1, <4>2
    <3> HIDE DEF v
    <3> QED BY <3>1, <3>2
  <2>5. CASE ~skip(p)
    <3>0. c(p) = readCluster(f, p) OBVIOUS
    <3>1. g[p] = <<c(p)>> \o v
      <4> HIDE DEF skip, v, target, c
      <4> QED BY <2>2, <2>5 DEF v
    <3>2. v # <<>> => c(p).ok /\ Lined(f, v, c(p).end)
      <4>1. target(p) = IF c(p).ok THEN c(p).end ELSE end
        <5> HIDE DEF skip, c, end
        <5> QED BY <2>5
      <4>2. ~(end < end) BY <1>0
      <4> HIDE DEF v, target, c, end
      <4> QED BY <2>3, <4>1, <4>2
    <3> HIDE DEF v, c
    <3>3. Lined(f, g[p], p) BY <2>1, <3>0, <3>1, <3>2, LinedMore
    <3> QED BY <3>3
  <2> HIDE DEF skip, S
  <2> QED BY <2>4, <2>5
<1>9. off..end \subseteq S
  <2>1. off \in Int /\ end \in Int BY <1>0
  <2> HIDE DEF S, end
  <2> QED BY <2>1, <1>8, DownwardInduction
<1>11. Lined(f, IF off < end THEN g[off] ELSE <<>>, off)
  <2>1. CASE off < end
    <3>1. off \in off..end BY <2>1, <1>0
    <3>2. off \in S
      <4> HIDE DEF S, end
      <4> QED BY <1>9, <3>1
    <3> HIDE DEF end
    <3> QED BY <2>1, <3>2
  <2>2. CASE ~(off < end)
    <3> HIDE DEF end
    <3> QED BY <2>2, LinedNone
  <2> QED BY <2>1, <2>2
<1> QED BY <1>11 DEF Later

LEMMA CollectedLined ==
  ASSUME NEW f, NEW src, NEW off, NEW endT, f \in Seq(Cell), off \in Nat, src.segEnd \in Nat
  PROVE  Lined(f, collectClusters(f, src, off, endT), off)
<1>1. CollectGoes(f, src, off, endT) BY CollectRecursion
<1>2. PICK g : CollectedBy(f, src, off, endT, g) BY <1>1 DEF CollectGoes
<1> DEFINE s == Later(g, off, src.segEnd)
<1>3. Lined(f, s, off) BY <1>2, FoundLined
<1>4. collectClusters(f, src, off, endT) = upTo(s, endT) BY <1>2 DEF CollectedBy
<1> HIDE DEF s
<1> QED BY <1>3, <1>4, UpToLined

-----------------------------------------------------------------------------
(* Clips.                                                                    *)

\* Parts that may be added to a layout of a file, and layouts of it.
FilePart(f) == Part(Cell, f)
Laid(f) == Seq(Placed(Cell, f))
FileParts(f) == Seq(FilePart(f))

LEMMA LaidAreParts ==
  ASSUME NEW f, NEW parts, parts \in Laid(f)
  PROVE  parts \in FileParts(f)
<1>1. Placed(Cell, f) \subseteq FilePart(f) BY DEF Placed, FilePart
<1> QED BY <1>1, SeqMonotonic DEF Laid, FileParts

LEMMA AllLaid ==
  ASSUME NEW f, NEW parts, NEW more, f \in Seq(Cell), parts \in Laid(f), more \in FileParts(f)
  PROVE  AppendAll(parts, more) \in Laid(f)
BY AppendAllFacts DEF Laid, FileParts, FilePart

LEMMA PartsLenNat ==
  ASSUME NEW f, NEW parts, f \in Seq(Cell), parts \in FileParts(f)
  PROVE  PartsLen(parts) \in Nat
<1>1. parts \in Seq(Part(Cell, f)) BY DEF FileParts, FilePart
<1>2. PartsLen(parts) = Len(Content(parts, f)) BY <1>1, PartsLenContent
<1>3. Content(parts, f) \in Seq(Cell) BY <1>1, ContentType
<1> QED BY <1>2, <1>3, LenProperties

LEMMA LiteralType ==
  ASSUME NEW f, NEW b, f \in Seq(Cell), b \in Seq(Cell)
  PROVE  Literal(b) \in FilePart(f) /\ Literal(b) \in Placed(Cell, f)
<1>1. Len(b) \in Nat /\ 0 \in Nat OBVIOUS
<1> QED BY <1>1 DEF Literal, FilePart, Part, Placed

LEMMA RangeType ==
  ASSUME NEW f, NEW off, NEW n, f \in Seq(Cell), off \in Nat, n \in Nat, off + n <= Len(f)
  PROVE  RangeOf(off, n) \in FilePart(f)
<1>1. <<>> \in Seq(Cell) OBVIOUS
<1> QED BY <1>1 DEF RangeOf, FilePart, Part

LEMMA NothingLaid ==
  ASSUME NEW f
  PROVE  <<>> \in Laid(f) /\ <<>> \in FileParts(f)
BY DEF Laid, FileParts

\* Sequences that are given by a function on their numbers.
LEMMA EachOf ==
  ASSUME NEW T, NEW W, NEW s, NEW g, s \in Seq(T), DOMAIN g = DOMAIN s, g = [i \in DOMAIN g |-> g[i]],
         \A i \in 1..Len(s) : g[i] \in W
  PROVE  g \in Seq(W)
<1>1. DOMAIN s = 1..Len(s) /\ Len(s) \in Nat OBVIOUS
<1>2. g \in [1..Len(s) -> W] BY <1>1
<1> QED BY <1>1, <1>2, FunctionIsSequence

Blocks(f) == Seq(FileBlock(f))

LEMMA BlockPartsType ==
  ASSUME NEW f, NEW blocks, f \in Seq(Cell), blocks \in Blocks(f)
  PROVE  blockParts(blocks) \in Laid(f)
<1> DEFINE g == [i \in DOMAIN blocks |-> RangeOf(blocks[i].off, blocks[i].len)]
           T == FileBlock(f)
           W == FilePart(f)
<1>1. blocks \in Seq(T) BY DEF Blocks
<1>2. ASSUME NEW b \in T PROVE RangeOf(b.off, b.len) \in W
  <2> DEFINE o == b.off
             n == b.len
  <2>1. o \in Nat /\ n \in Nat /\ o + n <= Len(f) BY DEF FileBlock
  <2> HIDE DEF o, n
  <2>2. RangeOf(o, n) \in W BY <2>1, RangeType
  <2> QED BY <2>2 DEF o, n
<1>3. \A i \in 1..Len(blocks) : blocks[i] \in T /\ i \in DOMAIN blocks
  <2> HIDE DEF T
  <2> QED BY <1>1
<1>4. \A i \in 1..Len(blocks) : g[i] \in W
  <2> HIDE DEF T, W
  <2> QED BY <1>2, <1>3
<1>5. DOMAIN g = DOMAIN blocks /\ g = [i \in DOMAIN g |-> g[i]] OBVIOUS
<1> HIDE DEF g, T, W
<1>6. g \in Seq(W) BY <1>1, <1>4, <1>5, EachOf
<1>7. <<>> \in Laid(f) /\ g \in FileParts(f) BY <1>6, NothingLaid DEF FileParts, W
<1>8. AppendAll(<<>>, g) \in Laid(f) BY <1>7, AllLaid
<1> QED BY <1>8 DEF blockParts, g

LEMMA RebasedPartsType ==
  ASSUME NEW f, NEW blocks, NEW base, f \in Seq(Cell), blocks \in Blocks(f), base \in Int
  PROVE  rebasedParts(f, blocks, base).parts \in Laid(f)
<1> DEFINE head(b) == SubSeq(f, b.off + 1, b.off + b.ts) \o <<Rel(b.time - base)>>
           parts(b) == <<Literal(head(b)), RangeOf(b.off + b.ts + 1, b.len - b.ts - 1)>>
           g == [i \in DOMAIN blocks |-> parts(blocks[i])]
           T == FileBlock(f)
           U == FileParts(f)
<1>1. blocks \in Seq(T) BY DEF Blocks
<1>2. ASSUME NEW b \in T PROVE parts(b) \in U
  <2> DEFINE o == b.off
             t == b.ts
             n == b.len - b.ts - 1
             r == b.off + b.ts + 1
             rel == Rel(b.time - base)
  <2>1. o \in Nat /\ t \in Nat /\ n \in Nat /\ r \in Nat /\ o + t <= Len(f) /\ r + n <= Len(f)
    <3>1. b.off \in Nat /\ b.len \in Nat /\ b.ts \in Nat /\ b.ts + 1 <= b.len /\ b.off + b.len <= Len(f)
      BY DEF FileBlock
    <3>2. Len(f) \in Nat OBVIOUS
    <3> QED BY <3>1, <3>2
  <2>2. rel \in Cell
    <3>1. b.time - base \in Int BY DEF FileBlock
    <3> QED BY <3>1, RelType
  <2> HIDE DEF o, t, n, r, rel
  <2>3. SubSeq(f, o + 1, o + t) \in Seq(Cell) BY <2>1, SliceType
  <2>4. <<rel>> \in Seq(Cell) BY <2>2
  <2>5. SubSeq(f, o + 1, o + t) \o <<rel>> \in Seq(Cell) BY <2>3, <2>4, ConcatProperties
  <2>6. Literal(SubSeq(f, o + 1, o + t) \o <<rel>>) \in FilePart(f) BY <2>5, LiteralType
  <2>7. RangeOf(r, n) \in FilePart(f) BY <2>1, RangeType
  <2>8. \A x, y \in FilePart(f) : <<x, y>> \in Seq(FilePart(f)) OBVIOUS
  <2> QED BY <2>6, <2>7, <2>8 DEF FileParts, o, t, n, r, rel
<1>3. \A i \in 1..Len(blocks) : blocks[i] \in T /\ i \in DOMAIN blocks
  <2> HIDE DEF T
  <2> QED BY <1>1
<1>4. \A i \in 1..Len(blocks) : g[i] \in U
  <2> HIDE DEF T, U, parts
  <2> QED BY <1>2, <1>3
<1>5. DOMAIN g = DOMAIN blocks /\ g = [i \in DOMAIN g |-> g[i]]
  <2> HIDE DEF parts
  <2> QED OBVIOUS
<1>6. rebasedParts(f, blocks, base).parts = AppendAll(<<>>, FlattenSeq(g)) BY DEF rebasedParts
<1> HIDE DEF g, T, U
<1>7. g \in Seq(U) BY <1>1, <1>4, <1>5, EachOf
<1>8. FlattenSeq(g) \in FileParts(f)
  <2>1. g \in Seq(Seq(FilePart(f))) BY <1>7 DEF U, FileParts
  <2> QED BY <2>1, FlattenType DEF FileParts
<1>9. AppendAll(<<>>, FlattenSeq(g)) \in Laid(f) BY <1>8, NothingLaid, AllLaid
<1> QED BY <1>6, <1>9

LEMMA KeptType ==
  ASSUME NEW f, NEW blocks, NEW video, NEW t, blocks \in Blocks(f)
  PROVE  keepFrom(blocks, video, t) \in Blocks(f) /\ keepUntil(blocks, video, t) \in Blocks(f)
<1> DEFINE T == FileBlock(f)
<1>1. blocks \in Seq(T) BY DEF Blocks
<1> HIDE DEF T
<1>2. \A i \in 1..Len(blocks) : blocks[i] \in T BY <1>1
<1>3. ASSUME NEW I PROVE Where(blocks, I) \in Seq(T)
  <2>1. \A i \in 1..Len(blocks) : i \in I => blocks[i] \in T BY <1>2
  <2> QED BY <1>1, <2>1, WhereType
<1>4. keepFrom(blocks, video, t) \in Seq(T) BY <1>3 DEF keepFrom
<1>5. keepUntil(blocks, video, t) \in Seq(T) BY <1>3 DEF keepUntil
<1> QED BY <1>4, <1>5 DEF Blocks, T

\* A cluster of a clip: where it was, its new timestamp and its parts.
CutCluster(f) == [off : Nat, timestamp : Int, body : FileParts(f)]

LEMMA NewHeaderType ==
  ASSUME NEW f, NEW c, NEW origin, f \in Seq(Cell), c \in CutCluster(f), origin \in Int
  PROVE  newHeader(c, origin) \in Seq(Cell)
<1> DEFINE ts == AppendUint("Timestamp", c.timestamp - origin)
           n == Len(ts) + PartsLen(c.body)
<1>1. c.timestamp - origin \in Int /\ c.body \in FileParts(f) BY DEF CutCluster
<1>2. "Timestamp" \in Ids /\ "Cluster" \in Ids BY DEF Ids
<1>3. ts \in Seq(Cell) BY <1>1, <1>2, UintType
<1> HIDE DEF ts
<1>4. Len(ts) \in Nat /\ PartsLen(c.body) \in Nat BY <1>1, <1>3, PartsLenNat
<1>5. n \in Int BY <1>4
<1> HIDE DEF n
<1>6. AppendSizeWidth("Cluster", n, Wide) \in Seq(Cell) BY <1>2, <1>5, SizeHeaderType, EbmlAssumption
<1>7. AppendSizeWidth("Cluster", n, Wide) \o ts \in Seq(Cell) BY <1>3, <1>6, ConcatProperties
<1> QED BY <1>7 DEF newHeader, n, ts

\* A point of the new index, and how long it is.
NewPosition(src, clusters, offs, cue) ==
  AppendUint("CueTrack", src.video)
    \o AppendUintWidth("CueClusterPosition", offs[CHOOSE i \in DOMAIN clusters : clusters[i].off = cue.off], Wide)

NewPoint(src, clusters, offs, origin, cue) ==
  AppendUint("CueTime", cue.time - origin)
    \o AppendElement("CueTrackPositions", NewPosition(src, clusters, offs, cue))

NewPointLen(src, origin, cue) ==
  ElementLen(Len(AppendUint("CueTime", cue.time - origin))
               + ElementLen(Len(AppendUint("CueTrack", src.video)) + ElementLen(Wide)))

\* A cue of one of the clusters.
CueOf(clusters) == {c \in Cue : \E i \in DOMAIN clusters : clusters[i].off = c.off}

LEMMA NewPointType ==
  ASSUME NEW src, NEW clusters, NEW offs, NEW origin, NEW cue, src.video \in Nat, origin \in Int,
         \A i \in DOMAIN clusters : offs[i] \in Int, cue \in CueOf(clusters)
  PROVE  /\ NewPosition(src, clusters, offs, cue) \in Seq(Cell)
         /\ NewPoint(src, clusters, offs, origin, cue) \in Seq(Cell)
         /\ AppendElement("CuePoint", NewPoint(src, clusters, offs, origin, cue)) \in Seq(Cell)
         /\ Len(AppendElement("CuePoint", NewPoint(src, clusters, offs, origin, cue)))
              = NewPointLen(src, origin, cue)
<1> DEFINE U == Seq(Cell)
           at == CHOOSE i \in DOMAIN clusters : clusters[i].off = cue.off
           a == AppendUint("CueTrack", src.video)
           o == offs[at]
           b == AppendUintWidth("CueClusterPosition", o, Wide)
           t == cue.time - origin
           d == AppendUint("CueTime", t)
           e == AppendElement("CueTrackPositions", a \o b)
<1>1. {"CueTrack", "CueClusterPosition", "CuePoint", "CueTime", "CueTrackPositions", "Cues"} \subseteq Ids
  BY DEF Ids
<1>2. \A x, y \in U : x \o y \in U /\ Len(x \o y) = Len(x) + Len(y) /\ Len(x) \in Nat BY ConcatProperties
<1>3. at \in DOMAIN clusters BY DEF CueOf
<1>4. o \in Int /\ t \in Int /\ Wide \in Nat BY <1>3, EbmlAssumption DEF CueOf, Cue
<1>5. NewPosition(src, clusters, offs, cue) = a \o b BY DEF NewPosition
<1>6. NewPoint(src, clusters, offs, origin, cue) = d \o e BY <1>5 DEF NewPoint
<1>7. NewPointLen(src, origin, cue) = ElementLen(Len(d) + ElementLen(Len(a) + ElementLen(Wide)))
  BY DEF NewPointLen
<1> HIDE DEF at, o, t
<1>8. a \in U /\ d \in U BY <1>1, <1>4, UintType
<1>9. b \in U /\ Len(b) = ElementLen(Wide) BY <1>1, <1>4, UintWidthType, LenOfUint
<1> HIDE DEF a, b, d
<1>10. a \o b \in U /\ Len(a \o b) = Len(a) + ElementLen(Wide) BY <1>2, <1>8, <1>9
<1>11. e \in U /\ Len(e) = ElementLen(Len(a) + ElementLen(Wide)) BY <1>1, <1>10, ElementType, LenOfElement
<1> HIDE DEF e
<1>12. d \o e \in U /\ Len(d \o e) = Len(d) + ElementLen(Len(a) + ElementLen(Wide)) BY <1>2, <1>8, <1>11
<1>13. /\ AppendElement("CuePoint", d \o e) \in U
       /\ Len(AppendElement("CuePoint", d \o e)) = ElementLen(Len(d) + ElementLen(Len(a) + ElementLen(Wide)))
  BY <1>1, <1>12, ElementType, LenOfElement
<1> QED BY <1>5, <1>6, <1>7, <1>10, <1>12, <1>13

\* The points of the new index.
NewPoints(src, clusters, offs, origin, endT) ==
  [i \in DOMAIN Inside(src, clusters, origin, endT) |->
     AppendElement("CuePoint", NewPoint(src, clusters, offs, origin, Inside(src, clusters, origin, endT)[i]))]

LEMMA InsideType ==
  ASSUME NEW src, NEW clusters, NEW origin, NEW endT, src.cues \in Seq(Cue)
  PROVE  Inside(src, clusters, origin, endT) \in Seq(CueOf(clusters))
<1> DEFINE offs == {clusters[i].off : i \in DOMAIN clusters}
           I == {j \in DOMAIN src.cues : /\ src.cues[j].off \in offs
                                         /\ origin <= src.cues[j].time /\ src.cues[j].time < endT}
           W == CueOf(clusters)
<1>1. Inside(src, clusters, origin, endT) = Where(src.cues, I) BY DEF Inside
<1>2. \A j \in 1..Len(src.cues) : j \in I => src.cues[j] \in W BY DEF CueOf
<1> HIDE DEF I, W
<1>3. Where(src.cues, I) \in Seq(W) BY <1>2, WhereType
<1> QED BY <1>1, <1>3 DEF W

CuesMade(src, clusters, offs, origin, endT) ==
  LET points == NewPoints(src, clusters, offs, origin, endT)
      inside == Inside(src, clusters, origin, endT)
  IN  /\ cuesElement(src, clusters, offs, origin, endT) = AppendElement("Cues", FlattenSeq(points))
      /\ points \in Seq(Seq(Cell)) /\ Len(points) = Len(inside)
      /\ \A i \in 1..Len(inside) : Len(points[i]) = NewPointLen(src, origin, inside[i])

LEMMA CuesElementIs ==
  ASSUME NEW src, NEW clusters, NEW offs, NEW origin, NEW endT, src.cues \in Seq(Cue), src.video \in Nat,
         origin \in Int, \A i \in DOMAIN clusters : offs[i] \in Int
  PROVE  CuesMade(src, clusters, offs, origin, endT)
<1> DEFINE inside == Inside(src, clusters, origin, endT)
           point(c) == AppendElement("CuePoint", NewPoint(src, clusters, offs, origin, c))
           W == CueOf(clusters)
           U == Seq(Cell)
           g == NewPoints(src, clusters, offs, origin, endT)
<1>1. inside \in Seq(W) BY InsideType
<1>2. cuesElement(src, clusters, offs, origin, endT) = AppendElement("Cues", FlattenSeq(g))
  BY DEF cuesElement, NewPoints, NewPoint, NewPosition
<1>3. \A c \in W : point(c) \in U /\ Len(point(c)) = NewPointLen(src, origin, c) BY NewPointType
<1>4. DOMAIN g = DOMAIN inside /\ g = [i \in DOMAIN g |-> g[i]] BY DEF NewPoints
<1>5. \A i \in DOMAIN inside : g[i] = point(inside[i]) BY DEF NewPoints
<1> HIDE DEF inside, W, U, point, g
<1>6. \A i \in 1..Len(inside) : inside[i] \in W /\ i \in DOMAIN inside BY <1>1
<1>7. \A i \in 1..Len(inside) : g[i] \in U /\ Len(g[i]) = NewPointLen(src, origin, inside[i])
  BY <1>3, <1>5, <1>6
<1>8. g \in Seq(U) BY <1>1, <1>4, <1>7, EachOf
<1>9. Len(g) = Len(inside)
  <2>1. DOMAIN inside = 1..Len(inside) /\ Len(inside) \in Nat BY <1>1
  <2>2. DOMAIN g = 1..Len(g) /\ Len(g) \in Nat BY <1>8
  <2> QED BY <1>4, <2>1, <2>2
<1> QED BY <1>2, <1>7, <1>8, <1>9 DEF CuesMade, g, U, inside

LEMMA CuesElementType ==
  ASSUME NEW src, NEW clusters, NEW offs, NEW origin, NEW endT, src.cues \in Seq(Cue), src.video \in Nat,
         origin \in Int, \A i \in DOMAIN clusters : offs[i] \in Int
  PROVE  cuesElement(src, clusters, offs, origin, endT) \in Seq(Cell)
<1> DEFINE g == NewPoints(src, clusters, offs, origin, endT)
<1>1. CuesMade(src, clusters, offs, origin, endT) BY CuesElementIs
<1>2. cuesElement(src, clusters, offs, origin, endT) = AppendElement("Cues", FlattenSeq(g)) /\ g \in Seq(Seq(Cell))
  BY <1>1 DEF CuesMade
<1> HIDE DEF g
<1>3. FlattenSeq(g) \in Seq(Cell) /\ "Cues" \in Ids BY <1>2, FlattenType DEF Ids
<1> QED BY <1>2, <1>3, ElementType

\* An index is as long wherever the clusters are.
LEMMA LenOfCues ==
  ASSUME NEW src, NEW clusters, NEW offs, NEW offs2, NEW origin, NEW endT, src.cues \in Seq(Cue),
         src.video \in Nat, origin \in Int, \A i \in DOMAIN clusters : offs[i] \in Int,
         \A i \in DOMAIN clusters : offs2[i] \in Int
  PROVE  Len(cuesElement(src, clusters, offs, origin, endT)) = Len(cuesElement(src, clusters, offs2, origin, endT))
<1> DEFINE s == NewPoints(src, clusters, offs, origin, endT)
           t == NewPoints(src, clusters, offs2, origin, endT)
           inside == Inside(src, clusters, origin, endT)
<1>0. CuesMade(src, clusters, offs, origin, endT) BY CuesElementIs
<1>1. /\ cuesElement(src, clusters, offs, origin, endT) = AppendElement("Cues", FlattenSeq(s))
      /\ s \in Seq(Seq(Cell)) /\ Len(s) = Len(inside)
      /\ \A i \in 1..Len(inside) : Len(s[i]) = NewPointLen(src, origin, inside[i])
  BY <1>0 DEF CuesMade
<1>9. CuesMade(src, clusters, offs2, origin, endT) BY CuesElementIs
<1>2. /\ cuesElement(src, clusters, offs2, origin, endT) = AppendElement("Cues", FlattenSeq(t))
      /\ t \in Seq(Seq(Cell)) /\ Len(t) = Len(inside)
      /\ \A i \in 1..Len(inside) : Len(t[i]) = NewPointLen(src, origin, inside[i])
  BY <1>9 DEF CuesMade
<1> HIDE DEF s, t, inside
<1>3. Len(FlattenSeq(s)) = Len(FlattenSeq(t)) BY <1>1, <1>2, FlattenLens
<1>4. FlattenSeq(s) \in Seq(Cell) /\ FlattenSeq(t) \in Seq(Cell) BY <1>1, <1>2, FlattenType
<1>5. "Cues" \in Ids BY DEF Ids
<1> QED BY <1>1, <1>2, <1>3, <1>4, <1>5, LenOfElement

SeekPositions == Seq(Ids \X Int)

\* An entry of a seek head, and how long each of them is.
SeekEntry(id, v) == AppendElement("SeekID", <<Id(id)>>) \o AppendUintWidth("SeekPosition", v, Wide)

SeekLen == ElementLen(ElementLen(1) + ElementLen(Wide))

LEMMA LenOfSeek ==
  ASSUME NEW id, NEW v, id \in Ids, v \in Int
  PROVE  /\ SeekEntry(id, v) \in Seq(Cell) /\ AppendElement("Seek", SeekEntry(id, v)) \in Seq(Cell)
         /\ Len(AppendElement("Seek", SeekEntry(id, v))) = SeekLen /\ SeekLen \in Nat
<1> DEFINE a == AppendElement("SeekID", <<Id(id)>>)
           b == AppendUintWidth("SeekPosition", v, Wide)
<1>1. {"Seek", "SeekID", "SeekPosition", "SeekHead"} \subseteq Ids /\ Wide \in Nat BY EbmlAssumption DEF Ids
<1>2. Id(id) \in Cell BY NewCells
<1>3. <<Id(id)>> \in Seq(Cell) /\ Len(<<Id(id)>>) = 1 BY <1>2
<1>4. a \in Seq(Cell) /\ Len(a) = ElementLen(1) /\ ElementLen(1) \in Nat BY <1>1, <1>3, ElementType, LenOfElement
<1>5. b \in Seq(Cell) /\ Len(b) = ElementLen(Wide) /\ ElementLen(Wide) \in Nat
  BY <1>1, UintWidthType, LenOfUint
<1>6. SeekEntry(id, v) = a \o b BY DEF SeekEntry
<1> HIDE DEF a, b
<1>7. a \o b \in Seq(Cell) /\ Len(a \o b) = ElementLen(1) + ElementLen(Wide) BY <1>4, <1>5, ConcatProperties
<1>8. AppendElement("Seek", a \o b) \in Seq(Cell) BY <1>1, <1>7, ElementType
<1>9. Len(AppendElement("Seek", a \o b)) = ElementLen(Len(a \o b)) /\ ElementLen(Len(a \o b)) \in Nat
  BY <1>1, <1>7, LenOfElement
<1>10. ElementLen(Len(a \o b)) = SeekLen BY <1>7 DEF SeekLen
<1> QED BY <1>6, <1>7, <1>8, <1>9, <1>10

\* The entries of a seek head.
Seeks(ps) == [i \in DOMAIN ps |-> AppendElement("Seek", SeekEntry(ps[i][1], ps[i][2]))]

LEMMA SeekHeadIs ==
  ASSUME NEW ps, ps \in SeekPositions
  PROVE  /\ seekHead(ps) = AppendElement("SeekHead", FlattenSeq(Seeks(ps)))
         /\ Seeks(ps) \in Seq(Seq(Cell)) /\ Len(Seeks(ps)) = Len(ps)
         /\ \A i \in 1..Len(ps) : Len(Seeks(ps)[i]) = SeekLen
<1> DEFINE T == Ids \X Int
           U == Seq(Cell)
           g == Seeks(ps)
<1>1. seekHead(ps) = AppendElement("SeekHead", FlattenSeq(g)) BY DEF seekHead, Seeks, SeekEntry
<1>2. ASSUME NEW p \in T
      PROVE  /\ AppendElement("Seek", SeekEntry(p[1], p[2])) \in U
             /\ Len(AppendElement("Seek", SeekEntry(p[1], p[2]))) = SeekLen
  <2>1. p[1] \in Ids /\ p[2] \in Int OBVIOUS
  <2> QED BY <2>1, LenOfSeek
<1>3. ps \in Seq(T) BY DEF SeekPositions
<1> HIDE DEF T, U
<1>4. \A i \in 1..Len(ps) : ps[i] \in T /\ i \in DOMAIN ps BY <1>3
<1>5. \A i \in 1..Len(ps) : g[i] \in U /\ Len(g[i]) = SeekLen BY <1>2, <1>4 DEF Seeks
<1>6. DOMAIN g = DOMAIN ps /\ g = [i \in DOMAIN g |-> g[i]] BY DEF Seeks
<1> HIDE DEF g
<1>7. g \in Seq(U) BY <1>3, <1>5, <1>6, EachOf
<1>8. Len(g) = Len(ps)
  <2>1. DOMAIN ps = 1..Len(ps) /\ Len(ps) \in Nat BY <1>3
  <2>2. DOMAIN g = 1..Len(g) /\ Len(g) \in Nat BY <1>7
  <2> QED BY <1>6, <2>1, <2>2
<1> QED BY <1>1, <1>5, <1>7, <1>8 DEF g, U

LEMMA SeekHeadType ==
  ASSUME NEW ps, ps \in SeekPositions
  PROVE  seekHead(ps) \in Seq(Cell)
<1> DEFINE g == Seeks(ps)
<1>1. seekHead(ps) = AppendElement("SeekHead", FlattenSeq(g)) /\ g \in Seq(Seq(Cell)) BY SeekHeadIs
<1> HIDE DEF g
<1>2. FlattenSeq(g) \in Seq(Cell) /\ "SeekHead" \in Ids BY <1>1, FlattenType DEF Ids
<1> QED BY <1>1, <1>2, ElementType

\* A seek head is as long as any other with as many entries.
LEMMA LenOfSeekHead ==
  ASSUME NEW ps, NEW qs, ps \in SeekPositions, qs \in SeekPositions, Len(ps) = Len(qs)
  PROVE  Len(seekHead(ps)) = Len(seekHead(qs))
<1> DEFINE s == Seeks(ps)
           t == Seeks(qs)
<1>1. /\ seekHead(ps) = AppendElement("SeekHead", FlattenSeq(s)) /\ s \in Seq(Seq(Cell)) /\ Len(s) = Len(ps)
      /\ \A i \in 1..Len(ps) : Len(s[i]) = SeekLen
  BY SeekHeadIs
<1>2. /\ seekHead(qs) = AppendElement("SeekHead", FlattenSeq(t)) /\ t \in Seq(Seq(Cell)) /\ Len(t) = Len(qs)
      /\ \A i \in 1..Len(qs) : Len(t[i]) = SeekLen
  BY SeekHeadIs
<1> HIDE DEF s, t
<1>3. Len(FlattenSeq(s)) = Len(FlattenSeq(t)) BY <1>1, <1>2, FlattenLens
<1>4. FlattenSeq(s) \in Seq(Cell) /\ FlattenSeq(t) \in Seq(Cell) BY <1>1, <1>2, FlattenType
<1>5. "SeekHead" \in Ids BY DEF Ids
<1> QED BY <1>1, <1>2, <1>3, <1>4, <1>5, LenOfElement

-----------------------------------------------------------------------------
(* Reading what was written: cells that stand at a position of longer ones.    *)

\* x is what b has at p.
At(b, p, x) == p \in Nat /\ p + Len(x) <= Len(b) /\ \A i \in 1..Len(x) : b[p + i] = x[i]

LEMMA AtWhole ==
  ASSUME NEW b, b \in Seq(Cell)
  PROVE  At(b, 0, b)
<1>1. Len(b) \in Nat /\ \A i \in 1..Len(b) : 0 + i = i OBVIOUS
<1> QED BY <1>1 DEF At

LEMMA AtParts ==
  ASSUME NEW b, NEW p, NEW x, NEW y, x \in Seq(Cell), y \in Seq(Cell), b \in Seq(Cell), At(b, p, x \o y)
  PROVE  At(b, p, x) /\ At(b, p + Len(x), y) /\ Len(x \o y) = Len(x) + Len(y)
<1> DEFINE z == x \o y
<1>1. /\ Len(z) = Len(x) + Len(y) /\ Len(x) \in Nat /\ Len(y) \in Nat /\ Len(b) \in Nat
      /\ \A i \in 1..Len(x) : z[i] = x[i]
      /\ \A i \in 1..Len(y) : z[Len(x) + i] = y[i]
  OBVIOUS
<1>2. p \in Nat /\ p + Len(z) <= Len(b) /\ \A i \in 1..Len(z) : b[p + i] = z[i] BY DEF At
<1> HIDE DEF z
<1>3. At(b, p, x)
  <2>1. \A i \in 1..Len(x) : i \in 1..Len(z) BY <1>1
  <2> QED BY <1>1, <1>2, <2>1 DEF At
<1>4. At(b, p + Len(x), y)
  <2>1. \A i \in 1..Len(y) : Len(x) + i \in 1..Len(z) /\ (p + Len(x)) + i = p + (Len(x) + i) BY <1>1, <1>2
  <2>2. \A i \in 1..Len(y) : b[(p + Len(x)) + i] = y[i] BY <1>1, <1>2, <2>1
  <2> QED BY <1>1, <1>2, <2>2 DEF At
<1> QED BY <1>1, <1>3, <1>4 DEF z

LEMMA HeadAt ==
  ASSUME NEW b, NEW p, NEW id, NEW n, NEW w, b \in Seq(Cell), id \in Ids, n \in Nat, w \in Nat, w > 0,
         n < Pow(SizeBase, w) - 1, At(b, p, AppendSizeWidth(id, n, w))
  PROVE  ReadHeaderAt(b, p) = [id |-> id, w |-> w, size |-> n] /\ Len(AppendSizeWidth(id, n, w)) = w
<1> DEFINE m == Pow(SizeBase, w)
           s == n % m
           c == [is |-> "head", id |-> id, size |-> s, w |-> w]
           x == AppendSizeWidth(id, n, w)
<1>1. m \in Nat /\ m > 0
  <2>1. SizeBase \in Nat /\ SizeBase > 0 BY EbmlAssumption
  <2> QED BY <2>1, PowNat
<1>2. n < m - 1 OBVIOUS
<1>0. x = Cells(c, w) BY DEF AppendSizeWidth
<1> HIDE DEF m
<1>3. s = n BY <1>1, <1>2
<1> HIDE DEF s
<1>4. c.is = "head" /\ c.id = id /\ c.size = n /\ c.w = w /\ c \in Cell
  BY <1>3, NewCells
<1> HIDE DEF c
<1>5. Len(x) = w /\ x[1] = c
  <2>1. Len(Cells(c, w)) = w BY <1>4, CellsType
  <2>2. 1 \in 1..w OBVIOUS
  <2>3. Cells(c, w)[1] = c BY <2>2 DEF Cells
  <2> QED BY <1>0, <2>1, <2>3
<1>6. p \in Nat /\ p + w <= Len(b) /\ b[p + 1] = c
  <2>1. 1 \in 1..w OBVIOUS
  <2> HIDE DEF x
  <2> QED BY <1>5, <2>1 DEF At, x
<1> HIDE DEF x
<1>7. Len(b) \in Nat OBVIOUS
<1>8. ReadHeaderAt(b, p) = [id |-> c.id, w |-> c.w, size |-> IF c.size = Pow(SizeBase, c.w) - 1 THEN UnknownSize ELSE c.size]
  <2>1. ~(p >= Len(b) \/ b[p + 1].is # "head" \/ p + b[p + 1].w > Len(b)) BY <1>4, <1>6, <1>7
  <2> QED BY <1>6, <2>1 DEF ReadHeaderAt
<1>9. ReadHeaderAt(b, p) = [id |-> id, w |-> w, size |-> n] BY <1>1, <1>2, <1>4, <1>8 DEF m
<1> QED BY <1>5, <1>9 DEF x

\* An element at p with this payload is read, up to a place inside b.
Reads(b, p, id, data, to) ==
  \E w \in Nat : /\ w > 0 /\ ReadHeaderAt(b, p) = [id |-> id, w |-> w, size |-> Len(data)]
                 /\ At(b, p + w, data) /\ to = p + w + Len(data) /\ to <= Len(b)

Small(b) == Len(b) < Pow(SizeBase, Wide) - 1

LEMMA ElementAt ==
  ASSUME NEW b, NEW p, NEW id, NEW data, b \in Seq(Cell), id \in Ids, data \in Seq(Cell), Small(b),
         At(b, p, AppendElement(id, data))
  PROVE  Reads(b, p, id, data, p + Len(AppendElement(id, data)))
<1> DEFINE n == Len(data)
           w == SizeWidth(n)
           x == AppendSizeWidth(id, n, w)
<1>1. n \in Nat /\ n \in Int OBVIOUS
<1>2. w \in 1..Wide /\ (w = Wide \/ n < Pow(SizeBase, w) - 1) BY <1>1, SizeWidthType
<1>3. w \in Nat /\ w > 0 BY <1>2, EbmlAssumption
<1>4. AppendElement(id, data) = x \o data BY DEF AppendElement
<1> HIDE DEF n, w
<1>5. x \in Seq(Cell) BY <1>1, <1>3, SizeHeaderType
<1>6. At(b, p, x) /\ At(b, p + Len(x), data) /\ Len(x \o data) = Len(x) + Len(data) BY <1>4, <1>5, AtParts
<1>7. p + Len(x) \in Nat /\ p + Len(x) + Len(data) <= Len(b) /\ p \in Nat BY <1>6 DEF At
<1>8. n < Pow(SizeBase, w) - 1
  <2>1. Pow(SizeBase, Wide) \in Nat
    <3>1. SizeBase \in Nat /\ SizeBase > 0 /\ Wide \in Nat BY EbmlAssumption
    <3> QED BY <3>1, PowNat
  <2>2. Len(x) \in Nat /\ Len(b) \in Nat BY <1>5
  <2>3. n <= Len(b) BY <1>1, <1>7, <2>2 DEF n
  <2>4. n < Pow(SizeBase, Wide) - 1 BY <1>1, <2>1, <2>2, <2>3 DEF Small
  <2> QED BY <1>2, <2>4
<1>9. ReadHeaderAt(b, p) = [id |-> id, w |-> w, size |-> n] /\ Len(x) = w BY <1>1, <1>3, <1>6, <1>8, HeadAt
<1>10. p + Len(AppendElement(id, data)) = p + w + Len(data)
  <2>1. Len(AppendElement(id, data)) = w + Len(data) BY <1>4, <1>6, <1>9
  <2> HIDE DEF x
  <2> QED BY <1>1, <1>3, <1>7, <2>1 DEF n
<1> HIDE DEF x
<1>11. /\ w \in Nat /\ w > 0 /\ ReadHeaderAt(b, p) = [id |-> id, w |-> w, size |-> Len(data)]
       /\ At(b, p + w, data) /\ p + w + Len(data) <= Len(b)
  BY <1>3, <1>6, <1>7, <1>9 DEF n
<1> QED BY <1>10, <1>11 DEF Reads

\* An element starts at p.
HeadIs(b, p, id, w, n) ==
  ReadHeaderAt(b, p) = [id |-> id, w |-> w, size |-> n] /\ w \in Nat /\ w > 0 /\ n \in Nat /\ id # "bad"

\* A walk starts with the element at p and goes on after it.
WalkStarts(b, p, end, stop, id, w, n) ==
  Walk(b, p, end, stop) = <<Element(id, p, p + w, p + w + n)>> \o Walk(b, p + w + n, end, stop)

LEMMA WalkStep ==
  ASSUME NEW b, NEW p, NEW end, NEW stop, NEW id, NEW w, NEW n, b \in Seq(Cell), p \in Nat, end \in Nat,
         p < end, HeadIs(b, p, id, w, n), id \notin stop
  PROVE  WalkStarts(b, p, end, stop, id, w, n)
<1> DEFINE h == [id |-> id, w |-> w, size |-> n]
<1>7. /\ h = ReadHeaderAt(b, p) /\ h.id = id /\ h.w = w /\ h.size = n
      /\ w \in Nat /\ w > 0 /\ n \in Nat /\ id # "bad"
  BY DEF HeadIs
<1> HIDE DEF h
<1> DEFINE to == p + w + n
           goes(q) == LET x == ReadHeaderAt(b, q) IN x.id \notin stop \cup {"bad"} /\ x.size # UnknownSize
<1>0. end \in Int /\ WalkGoes(b, p, end, stop)
  <2>1. end \in Int OBVIOUS
  <2> QED BY <2>1, WalkRecursion
<1>1. PICK g : WalkedBy(b, p, end, stop, g) BY <1>0 DEF WalkGoes
<1>2. WalkTo(b, p) = to BY <1>7 DEF WalkTo
<1>3. to \in Nat /\ p < to BY <1>7
<1>4. h.size # UnknownSize BY <1>7 DEF UnknownSize
<1> DEFINE v == IF to < end THEN g[to] ELSE <<>>
<1>5. Walk(b, p, end, stop) = <<Element(id, p, p + w, to)>> \o v
  <2>1. p \in p..end OBVIOUS
  <2>2. Walk(b, p, end, stop) = WalkRest(b, p, stop, IF WalkTo(b, p) < end THEN g[WalkTo(b, p)] ELSE <<>>)
    BY <1>1, <2>1 DEF WalkedBy
  <2>3. Walk(b, p, end, stop) = WalkRest(b, p, stop, v) BY <1>2, <2>2
  <2> HIDE DEF v, to
  <2> QED BY <1>2, <1>4, <1>7, <2>3 DEF WalkRest
<1>6. v = Walk(b, to, end, stop)
  <2>1. CASE ~(to < end)
    <3>1. Walk(b, to, end, stop) = <<>> BY <2>1 DEF Walk
    <3> QED BY <2>1, <3>1
  <2>2. CASE to < end
    <3> HIDE DEF to
    <3>0. WalkGoes(b, to, end, stop) BY <1>0, <1>3, <2>2, WalkRecursion
    <3>1. PICK k : WalkedBy(b, to, end, stop, k) BY <3>0 DEF WalkGoes
    <3> DEFINE S == {q \in to..end : g[q] = k[q]}
    <3>2. ASSUME NEW q \in to..end, (q + 1)..end \subseteq S PROVE q \in S
      <4> DEFINE t == WalkTo(b, q)
                 x == IF t < end THEN g[t] ELSE <<>>
                 y == IF t < end THEN k[t] ELSE <<>>
      <4>0. q \in p..end /\ q \in Nat BY <1>3
      <4>1. g[q] = WalkRest(b, q, stop, x) /\ k[q] = WalkRest(b, q, stop, y)
        BY <1>1, <3>1, <4>0 DEF WalkedBy
      <4>2. HeaderOf(b, q, ReadHeaderAt(b, q)) BY <4>0, HeaderRead
      <4>3. CASE goes(q)
        <5>1. t \in Nat /\ q < t BY <4>0, <4>2, <4>3 DEF WalkTo, HeaderOf
        <5>2. t < end => t \in (q + 1)..end BY <4>0, <5>1
        <5>3. x = y BY <3>2, <5>2
        <5> HIDE DEF x, y, t
        <5> QED BY <4>1, <5>3
      <4>4. CASE ~goes(q)
        <5> HIDE DEF x, y
        <5>1. WalkRest(b, q, stop, x) = WalkRest(b, q, stop, y) BY <4>4 DEF WalkRest
        <5> QED BY <4>1, <5>1
      <4> HIDE DEF goes, t
      <4> QED BY <4>3, <4>4
    <3>3. to..end \subseteq S
      <4> HIDE DEF S
      <4>1. to \in Int /\ end \in Int BY <1>3
      <4> QED BY <3>2, <4>1, DownwardInduction
    <3>4. to \in to..end BY <1>3, <2>2
    <3>5. g[to] = k[to] BY <3>3, <3>4
    <3> QED BY <2>2, <3>1, <3>5 DEF WalkedBy
  <2> HIDE DEF v, to
  <2> QED BY <2>1, <2>2
<1> HIDE DEF v
<1> QED BY <1>5, <1>6 DEF WalkStarts

\* A walk from p on starts with an element that has this payload, and goes on at its end.
\* An element with a header that says what it is.
Solid(f, e) == e.id # "bad" /\ e.from < e.data /\ e.data <= e.to /\ HeadedBy(f, e)

LEMMA RawAt ==
  ASSUME NEW b, NEW f, NEW p, NEW e, b \in Seq(Cell), f \in Seq(Cell), e \in FileElem(f), Solid(f, e),
         At(b, p, Raw(f, e))
  PROVE  /\ Reads(b, p, e.id, SubSeq(f, e.data + 1, e.to), p + Len(Raw(f, e)))
         /\ SubSeq(f, e.data + 1, e.to) \in Seq(Cell)
<1> DEFINE o == e.from
           w == e.data - e.from
           n == e.to - e.data
           x == Raw(f, e)
           y == SubSeq(f, e.data + 1, e.to)
           h == ReadHeaderAt(f, o)
           c == f[o + 1]
<1>1. /\ e.from \in Nat /\ e.data \in Nat /\ e.to \in Nat /\ e.to <= Len(f) /\ Len(f) \in Nat
      /\ e.from < e.data /\ e.data <= e.to
  BY DEF FileElem, Elem, Solid
<1>2. o \in Nat /\ w \in Nat /\ w > 0 /\ n \in Nat /\ o + w + n = e.to /\ o + w = e.data /\ o + w + n <= Len(f)
  BY <1>1
<1>3. h.id = e.id /\ h.w = w /\ h.size = n /\ e.id # "bad" BY DEF Solid, HeadedBy
<1>4. x = SubSeq(f, o + 1, o + (w + n)) /\ y = SubSeq(f, (o + w) + 1, (o + w) + n)
  <2>1. o + (w + n) = e.to /\ (o + w) + n = e.to /\ o + w = e.data BY <1>2
  <2>2. x = SubSeq(f, o + 1, e.to) BY DEF Raw
  <2> HIDE DEF o, w, n, x
  <2> QED BY <2>1, <2>2
<1> HIDE DEF o, w, n, x, y
<1>5. x \in Seq(Cell) /\ Len(x) = w + n
  <2>1. w + n \in Nat /\ o + (w + n) <= Len(f) BY <1>2
  <2> DEFINE m == w + n
  <2> HIDE DEF m
  <2>2. x = SubSeq(f, o + 1, o + m) /\ m \in Nat /\ o + m <= Len(f) BY <1>4, <2>1 DEF m
  <2>3. x \in Seq(Cell) /\ Len(x) = m BY <1>2, <2>2, SliceType
  <2> QED BY <2>3 DEF m
<1>6. y \in Seq(Cell) /\ Len(y) = n
  <2> DEFINE m == o + w
  <2>1. m \in Nat /\ m + n <= Len(f) BY <1>2
  <2>2. y = SubSeq(f, m + 1, m + n) BY <1>4
  <2> HIDE DEF m
  <2> QED BY <1>2, <2>1, <2>2, SliceType
<1>7. \A i \in 1..(w + n) : x[i] = f[o + i] BY <1>2, <1>4
<1>8. \A i \in 1..n : y[i] = f[(o + w) + i] BY <1>2, <1>4
<1>9. p \in Nat /\ p + (w + n) <= Len(b) /\ \A i \in 1..(w + n) : b[p + i] = x[i]
  BY <1>5 DEF At, x
<1>10. b[p + 1] = c
  <2>1. 1 \in 1..(w + n) BY <1>2
  <2> QED BY <1>7, <1>9, <2>1
<1>11. /\ ~(o >= Len(f) \/ c.is # "head" \/ o + c.w > Len(f))
       /\ h = [id |-> c.id, w |-> c.w, size |-> IF c.size = Pow(SizeBase, c.w) - 1 THEN UnknownSize ELSE c.size]
  <2>1. CASE o >= Len(f) \/ c.is # "head" \/ o + c.w > Len(f)
    <3>1. h = [id |-> "bad", size |-> 0, w |-> 0] BY <2>1 DEF ReadHeaderAt
    <3> HIDE DEF h
    <3> QED BY <1>3, <3>1
  <2>2. CASE ~(o >= Len(f) \/ c.is # "head" \/ o + c.w > Len(f)) BY <2>2 DEF ReadHeaderAt
  <2> QED BY <2>1, <2>2
<1>12. c.w = w
  <2> HIDE DEF h
  <2> QED BY <1>3, <1>11
<1>13. Len(b) \in Nat OBVIOUS
<1>14. ~(p >= Len(b) \/ b[p + 1].is # "head" \/ p + b[p + 1].w > Len(b))
  BY <1>2, <1>9, <1>10, <1>11, <1>12, <1>13
<1>15. ReadHeaderAt(b, p) = h BY <1>10, <1>11, <1>14 DEF ReadHeaderAt
<1>16. h = [id |-> e.id, w |-> w, size |-> n]
  <2> HIDE DEF h, c
  <2> QED BY <1>3, <1>11
<1>17. At(b, p + w, y)
  <2>1. \A i \in 1..n : w + i \in 1..(w + n) /\ (p + w) + i = p + (w + i) /\ (o + w) + i = o + (w + i)
    BY <1>2, <1>9
  <2>2. \A i \in 1..n : b[(p + w) + i] = y[i] BY <1>7, <1>8, <1>9, <2>1
  <2> QED BY <1>2, <1>6, <1>9, <2>2 DEF At
<1>18. p + (w + n) = p + w + Len(y) /\ p + (w + n) <= Len(b) BY <1>2, <1>6, <1>9
<1> HIDE DEF h, c
<1>19. Reads(b, p, e.id, y, p + Len(x))
  <2>1. ReadHeaderAt(b, p) = [id |-> e.id, w |-> w, size |-> Len(y)] BY <1>6, <1>15, <1>16
  <2>2. p + Len(x) = p + w + Len(y) /\ p + Len(x) <= Len(b) BY <1>5, <1>18
  <2> QED BY <1>2, <1>17, <2>1, <2>2 DEF Reads
<1> QED BY <1>6, <1>19 DEF x, y

\* Where the i-th sequence starts in all of them.
Start(ss, i) == Len(FlattenSeq(SubSeq(ss, 1, i - 1)))

Starts(ss, i) ==
  /\ Start(ss, i) \in Nat /\ Start(ss, i + 1) \in Nat /\ Start(ss, i + 1) = Start(ss, i) + Len(ss[i])
  /\ FlattenSeq(SubSeq(ss, 1, i)) = FlattenSeq(SubSeq(ss, 1, i - 1)) \o ss[i]
  /\ FlattenSeq(SubSeq(ss, 1, i - 1)) \in Seq(Cell) /\ ss[i] \in Seq(Cell)

LEMMA StartStep ==
  ASSUME NEW ss, NEW i, ss \in Seq(Seq(Cell)), i \in 1..Len(ss)
  PROVE  Starts(ss, i)
<1> DEFINE U == Seq(Cell)
           x == SubSeq(ss, 1, i)
           y == SubSeq(ss, 1, i - 1)
<1>1. ss \in Seq(U) /\ ss[i] \in U OBVIOUS
<1> HIDE DEF U
<1>2. x \in Seq(U) /\ y \in Seq(U) /\ x = Append(y, ss[i]) BY <1>1, PrefixAppend
<1>3. (i + 1) - 1 = i BY <1>1
<1>4. Start(ss, i) = Len(FlattenSeq(y)) /\ Start(ss, i + 1) = Len(FlattenSeq(x)) BY <1>3 DEF Start
<1> HIDE DEF x, y
<1>5. FlattenSeq(x) = FlattenSeq(y) \o ss[i] BY <1>1, <1>2, FlattenAppend DEF U
<1>6. FlattenSeq(y) \in Seq(Cell) /\ ss[i] \in Seq(Cell) BY <1>1, <1>2, FlattenType DEF U
<1> DEFINE a == FlattenSeq(y)
           c == ss[i]
<1>7. a \in Seq(Cell) /\ c \in Seq(Cell) /\ FlattenSeq(x) = a \o c BY <1>5, <1>6
<1>8. Len(a) \in Nat /\ Len(a \o c) = Len(a) + Len(c) /\ Len(a \o c) \in Nat
  <2> HIDE DEF a, c
  <2> QED BY <1>7
<1> HIDE DEF a, c
<1>9. Start(ss, i) \in Nat /\ Start(ss, i + 1) \in Nat /\ Start(ss, i + 1) = Start(ss, i) + Len(c)
  BY <1>4, <1>7, <1>8 DEF a
<1> QED BY <1>5, <1>6, <1>9 DEF Starts, x, y, c

LEMMA StartEnds ==
  ASSUME NEW ss, ss \in Seq(Seq(Cell))
  PROVE  Start(ss, 1) = 0 /\ Start(ss, Len(ss) + 1) = Len(FlattenSeq(ss))
<1> DEFINE U == Seq(Cell)
<1>1. ss \in Seq(U) OBVIOUS
<1> HIDE DEF U
<1>2. SubSeq(ss, 1, 1 - 1) = <<>> BY <1>1
<1>3. Start(ss, 1) = Len(FlattenSeq(<<>>)) BY <1>2 DEF Start
<1>4. Start(ss, 1) = 0 BY <1>3, FlattenEmpty
<1>5. (Len(ss) + 1) - 1 = Len(ss) BY <1>1
<1>6. SubSeq(ss, 1, Len(ss)) = ss BY <1>1, WholeSubSeq
<1> QED BY <1>4, <1>5, <1>6 DEF Start

\* Each of the sequences is at its start.
EachAt(b, d, ss) == \A i \in 1..Len(ss) : At(b, d + Start(ss, i), ss[i])

LEMMA FlattenAt ==
  ASSUME NEW b, NEW d, NEW ss, b \in Seq(Cell), ss \in Seq(Seq(Cell)), At(b, d, FlattenSeq(ss))
  PROVE  EachAt(b, d, ss)
<1> DEFINE n == Len(ss)
           pre(i) == FlattenSeq(SubSeq(ss, 1, i))
           S == {i \in 0..n : At(b, d, pre(i))}
<1>1. n \in Nat
  <2> DEFINE U == Seq(Cell)
  <2>1. ss \in Seq(U) OBVIOUS
  <2> HIDE DEF U
  <2> QED BY <2>1
<1>2. SubSeq(ss, 1, n) = ss BY WholeSubSeq
<1>3. At(b, d, pre(n)) BY <1>2
<1>4. ASSUME NEW i \in 1..n, At(b, d, pre(i)) PROVE At(b, d, pre(i - 1)) /\ At(b, d + Start(ss, i), ss[i])
  <2>1. Starts(ss, i) BY StartStep
  <2> DEFINE x == pre(i - 1)
             y == ss[i]
  <2>2. x \in Seq(Cell) /\ y \in Seq(Cell) /\ pre(i) = x \o y /\ Start(ss, i) = Len(x)
    BY <2>1 DEF Starts, Start
  <2>3. At(b, d, x \o y) BY <1>4, <2>2
  <2> HIDE DEF x, y, pre
  <2>4. At(b, d, x) /\ At(b, d + Len(x), y) BY <2>2, <2>3, AtParts
  <2> QED BY <2>2, <2>4 DEF x, y
<1> HIDE DEF pre
<1>5. ASSUME NEW i \in 0..n, (i + 1)..n \subseteq S PROVE i \in S
  <2>1. CASE i = n BY <1>3, <2>1
  <2>2. CASE i # n
    <3>1. i + 1 \in (i + 1)..n /\ i + 1 \in 1..n /\ (i + 1) - 1 = i BY <1>1, <2>2
    <3>2. At(b, d, pre(i + 1)) BY <1>5, <3>1
    <3>3. At(b, d, pre((i + 1) - 1)) BY <1>4, <3>1, <3>2
    <3> QED BY <3>1, <3>3
  <2> QED BY <2>1, <2>2
<1>6. 0..n \subseteq S
  <2> HIDE DEF S
  <2>1. 0 \in Int /\ n \in Int BY <1>1
  <2> QED BY <1>5, <2>1, DownwardInduction
<1>7. \A i \in 1..n : At(b, d + Start(ss, i), ss[i])
  <2> SUFFICES ASSUME NEW i \in 1..n PROVE At(b, d + Start(ss, i), ss[i]) OBVIOUS
  <2>1. i \in 0..n BY <1>1
  <2>2. At(b, d, pre(i)) BY <1>6, <2>1
  <2> QED BY <1>4, <2>2
<1> QED BY <1>7 DEF EachAt

\* x is an element in b, wherever it is there.
Framed(b, x, id) == \A p \in Nat : At(b, p, x) => \E w \in Nat : w <= Len(x) /\ HeadIs(b, p, id, w, Len(x) - w)

\* A walk gives these elements one after the other.
Gives(s, d, ss, ids) ==
  /\ Len(s) = Len(ss)
  /\ \A i \in 1..Len(ss) : s[i].id = ids[i] /\ s[i].from = d + Start(ss, i) /\ s[i].to = d + Start(ss, i + 1)

LEMMA WalkFlat ==
  ASSUME NEW b, NEW d, NEW ss, NEW ids, b \in Seq(Cell), ss \in Seq(Seq(Cell)),
         At(b, d, FlattenSeq(ss)), \A i \in 1..Len(ss) : Framed(b, ss[i], ids[i])
  PROVE  Gives(Walk(b, d, d + Len(FlattenSeq(ss)), {}), d, ss, ids)
<1> DEFINE n == Len(ss)
           end == d + Len(FlattenSeq(ss))
           p(i) == d + Start(ss, i)
           walk(i) == Walk(b, p(i), end, {})
           good(i) == /\ walk(i) \in Seq(Elem) /\ Len(walk(i)) = n + 1 - i
                      /\ \A j \in 1..(n + 1 - i) :
                           /\ walk(i)[j].id = ids[i + j - 1] /\ walk(i)[j].from = p(i + j - 1)
                           /\ walk(i)[j].to = p(i + j)
<1>1. n \in Nat /\ \A i \in 1..n : ss[i] \in Seq(Cell)
  <2> DEFINE U == Seq(Cell)
  <2>1. ss \in Seq(U) OBVIOUS
  <2> HIDE DEF U
  <2>2. n \in Nat /\ \A i \in 1..n : ss[i] \in U BY <2>1
  <2> QED BY <2>2 DEF U
<1>2. d \in Nat /\ end <= Len(b) /\ p(1) = d /\ p(n + 1) = end
  <2>1. d \in Nat /\ end <= Len(b) BY DEF At
  <2>2. Start(ss, 1) = 0 /\ Start(ss, n + 1) = Len(FlattenSeq(ss)) BY StartEnds
  <2>3. d + 0 = d BY <2>1
  <2>4. p(n + 1) = end BY <2>2
  <2> HIDE DEF end, n
  <2> QED BY <2>1, <2>2, <2>3, <2>4
<1>3. \A i \in 1..n : Starts(ss, i) BY StartStep
<1>4. \A i \in 1..n : p(i) \in Nat /\ p(i + 1) \in Nat /\ p(i + 1) = p(i) + Len(ss[i]) /\ Len(ss[i]) \in Nat
  <2> SUFFICES ASSUME NEW i \in 1..n
               PROVE  p(i) \in Nat /\ p(i + 1) \in Nat /\ p(i + 1) = p(i) + Len(ss[i]) /\ Len(ss[i]) \in Nat
    OBVIOUS
  <2> DEFINE x == ss[i]
  <2>1. x \in Seq(Cell) BY <1>1
  <2> HIDE DEF x
  <2>2. Len(x) \in Nat BY <2>1
  <2>3. Start(ss, i) \in Nat /\ Start(ss, i + 1) = Start(ss, i) + Len(x) BY <1>3 DEF Starts, x
  <2>4. d \in Nat BY <1>2
  <2> HIDE DEF end
  <2>5. p(i) \in Nat /\ p(i + 1) \in Nat /\ p(i + 1) = p(i) + Len(x) BY <2>2, <2>3, <2>4
  <2> QED BY <2>2, <2>5 DEF x
<1>5. \A i \in 1..n : At(b, p(i), ss[i])
  BY FlattenAt DEF EachAt
<1>6. end \in Nat /\ \A i \in 1..(n + 1) : p(i) \in Nat
  <2> HIDE DEF p, end
  <2>1. p(n + 1) \in Nat
    <3>1. CASE n = 0 BY <1>2, <3>1
    <3>2. CASE n # 0
      <4>1. n \in 1..n BY <1>1, <3>2
      <4> QED BY <1>4, <4>1
    <3> QED BY <3>1, <3>2
  <2>2. \A i \in 1..(n + 1) : i \in 1..n \/ i = n + 1 BY <1>1
  <2> QED BY <1>2, <1>4, <2>1, <2>2
<1>7. \A i \in 1..n : At(b, p(i), ss[i]) /\ Framed(b, ss[i], ids[i]) BY <1>5
<1> DEFINE none == {}
<1>8. \A i \in 1..(n + 1) : walk(i) \in Seq(Elem)
  <2> SUFFICES ASSUME NEW i \in 1..(n + 1) PROVE walk(i) \in Seq(Elem) OBVIOUS
  <2>1. p(i) \in Nat /\ end \in Int BY <1>6
  <2> HIDE DEF p, end
  <2>2. Walked(b, Walk(b, p(i), end, none), p(i), end, none) BY <2>1, WalkElements
  <2> QED BY <2>2 DEF Walked
<1> HIDE DEF p, end
<1>9. good(n + 1) /\ p(n + 1) <= end
  <2>1. ~(p(n + 1) < end) BY <1>2, <1>6
  <2>2. walk(n + 1) = <<>> BY <2>1 DEF Walk
  <2> HIDE DEF walk
  <2>3. Len(walk(n + 1)) = 0 /\ n + 1 - (n + 1) = 0 BY <1>1, <2>2
  <2>4. walk(n + 1) \in Seq(Elem) BY <1>1, <1>8
  <2> QED BY <1>2, <1>6, <2>3, <2>4
<1>10. ASSUME NEW i \in 1..n, good(i + 1), p(i + 1) <= end PROVE good(i) /\ p(i) <= end
  <2> DEFINE x == ss[i]
             q == p(i)
             id == ids[i]
  <2>1. q \in Nat /\ At(b, q, x) /\ Framed(b, x, id) BY <1>4, <1>7
  <2>2. PICK w \in Nat : w <= Len(x) /\ HeadIs(b, q, id, w, Len(x) - w) BY <2>1 DEF Framed
  <2>3. w > 0 BY <2>2 DEF HeadIs
  <2>4. p(i + 1) \in Nat /\ p(i + 1) = q + Len(x) /\ Len(x) \in Nat BY <1>4
  <2>5. q < end
    <3> DEFINE l == Len(x)
               y == p(i + 1)
    <3>1. l \in Nat /\ w \in Nat /\ 0 < w /\ w <= l /\ y = q + l /\ y <= end /\ end \in Int
      BY <1>6, <1>10, <2>2, <2>3, <2>4
    <3> HIDE DEF l, y, q
    <3> QED BY <2>1, <3>1
  <2> DEFINE m == Len(x) - w
             rest == walk(i + 1)
             e == Element(id, q, q + w, p(i + 1))
  <2>6. q + w + m = p(i + 1) BY <2>1, <2>2, <2>4
  <2>7. id \notin none OBVIOUS
  <2>8. HeadIs(b, q, id, w, m) BY <2>2
  <2> HIDE DEF m, none, q, x, id
  <2>9. WalkStarts(b, q, end, none, id, w, m) BY <1>6, <2>1, <2>5, <2>7, <2>8, WalkStep
  <2>10. walk(i) = <<e>> \o rest BY <2>6, <2>9 DEF WalkStarts, q, none
  <2>11. e.id = id /\ e.from = q /\ e.to = p(i + 1) BY DEF Element
  <2>22. id \in Ids
    <3>1. HeaderOf(b, q, ReadHeaderAt(b, q)) BY <2>1, HeaderRead
    <3> QED BY <2>8, <3>1 DEF HeadIs, HeaderOf
  <2>23. e \in Elem BY <2>1, <2>2, <2>4, <2>22 DEF Elem, Element
  <2>12. i + 1 \in 1..(n + 1) BY <1>1
  <2>13. rest \in Seq(Elem) /\ Len(rest) = n - i
    <3>1. n + 1 - (i + 1) = n - i BY <1>1
    <3> QED BY <1>10, <3>1
  <2> DEFINE k == i + 1
  <2>14. \A j \in 1..(n + 1 - k) : /\ rest[j].id = ids[k + j - 1] /\ rest[j].from = p(k + j - 1)
                                   /\ rest[j].to = p(k + j)
    BY <1>10
  <2>20. i \in 1..(n + 1) BY <1>1
  <2>21. walk(i) \in Seq(Elem) BY <1>8, <2>20
  <2> HIDE DEF e, walk, rest
  <2>15. Len(walk(i)) = 1 + (n - i) /\ walk(i)[1] = e /\ \A j \in 1..(n - i) : walk(i)[1 + j] = rest[j]
    <3> DEFINE T == Elem
    <3>1. e \in T /\ rest \in Seq(T) /\ Len(rest) = n - i BY <2>13, <2>23
    <3> HIDE DEF T
    <3>2. <<e>> \o rest \in Seq(T) /\ Len(<<e>> \o rest) = 1 + (n - i) /\ (<<e>> \o rest)[1] = e
          /\ \A j \in 1..(n - i) : (<<e>> \o rest)[1 + j] = rest[j]
      BY <1>1, <3>1
    <3> QED BY <2>10, <3>2
  <2>16. n + 1 - i = 1 + (n - i) /\ n + 1 - k = n - i /\ k = i + 1 BY <1>1
  <2> DEFINE s == walk(i)
  <2>17. ASSUME NEW j \in 1..(n + 1 - i)
         PROVE  s[j].id = ids[i + j - 1] /\ s[j].from = p(i + j - 1) /\ s[j].to = p(i + j)
    <3>1. CASE j = 1
      <4>1. i + j - 1 = i /\ i + j = i + 1 BY <1>1, <3>1
      <4> QED BY <2>11, <2>15, <3>1, <4>1 DEF q, id
    <3>2. CASE j # 1
      <4> DEFINE h == j - 1
      <4>1. h \in 1..(n - i) /\ 1 + h = j /\ k + h - 1 = i + j - 1 /\ k + h = i + j BY <1>1, <2>16, <3>2
      <4> HIDE DEF h, s, k
      <4>2. s[j] = rest[h] BY <2>15, <4>1 DEF s
      <4>3. rest[h].id = ids[k + h - 1] /\ rest[h].from = p(k + h - 1) /\ rest[h].to = p(k + h)
        BY <2>14, <2>16, <4>1
      <4> QED BY <4>1, <4>2, <4>3
    <3> QED BY <3>1, <3>2
  <2>18. q <= end BY <1>6, <2>1, <2>5
  <2> QED BY <2>15, <2>16, <2>17, <2>18, <2>21 DEF q
<1> HIDE DEF good
<1>11. \A i \in 1..(n + 1) : good(i) /\ p(i) <= end
  <2> DEFINE R == {i \in 1..(n + 1) : good(i) /\ p(i) <= end}
  <2>1. ASSUME NEW i \in 1..(n + 1), (i + 1)..(n + 1) \subseteq R PROVE i \in R
    <3>1. CASE i = n + 1 BY <1>9, <3>1
    <3>2. CASE i # n + 1
      <4>1. i \in 1..n /\ i + 1 \in (i + 1)..(n + 1) BY <1>1, <3>2
      <4>2. i + 1 \in R BY <2>1, <4>1
      <4> QED BY <1>10, <4>1, <4>2
    <3> QED BY <3>1, <3>2
  <2> DEFINE m == n + 1
  <2>2. 1 \in Int /\ m \in Int /\ \A i \in 1..m : (i + 1)..m \subseteq R => i \in R BY <1>1, <2>1
  <2> HIDE DEF R, m
  <2>3. 1..m \subseteq R BY <2>2, DownwardInduction
  <2> QED BY <2>3 DEF R, m
<1>12. 1 \in 1..(n + 1) /\ n + 1 - 1 = n /\ \A j \in 1..n : 1 + j - 1 = j /\ 1 + j = j + 1 BY <1>1
<1>13. good(1) BY <1>11, <1>12
<1> DEFINE s == walk(1)
<1>14. s = Walk(b, d, d + Len(FlattenSeq(ss)), {}) BY <1>2 DEF end
<1>15. Len(s) = n /\ \A j \in 1..n : s[j].id = ids[j] /\ s[j].from = p(j) /\ s[j].to = p(j + 1)
  <2> HIDE DEF s
  <2>1. Len(s) = n BY <1>12, <1>13 DEF good, s
  <2>2. \A j \in 1..n : s[j].id = ids[1 + j - 1] /\ s[j].from = p(1 + j - 1) /\ s[j].to = p(1 + j)
    BY <1>12, <1>13 DEF good, s
  <2> QED BY <1>12, <2>1, <2>2
<1> HIDE DEF s
<1> QED BY <1>14, <1>15 DEF Gives, p

LEMMA FramedElement ==
  ASSUME NEW b, NEW id, NEW data, b \in Seq(Cell), id \in Ids, id # "bad", data \in Seq(Cell), Small(b)
  PROVE  Framed(b, AppendElement(id, data), id)
<1> DEFINE x == AppendElement(id, data)
<1>1. Len(x) \in Nat
  <2>1. x \in Seq(Cell) BY ElementType
  <2> HIDE DEF x
  <2> QED BY <2>1
<1> SUFFICES ASSUME NEW p \in Nat, At(b, p, x)
             PROVE  \E w \in Nat : w <= Len(x) /\ HeadIs(b, p, id, w, Len(x) - w)
  BY DEF Framed
<1>2. Reads(b, p, id, data, p + Len(x)) BY ElementAt
<1> HIDE DEF x
<1>3. PICK w \in Nat : /\ w > 0 /\ ReadHeaderAt(b, p) = [id |-> id, w |-> w, size |-> Len(data)]
                       /\ p + Len(x) = p + w + Len(data)
  BY <1>2 DEF Reads
<1> DEFINE n == Len(data)
           m == Len(x)
<1>4. n \in Nat OBVIOUS
<1> HIDE DEF n
<1>5. m \in Nat /\ p + m = p + w + n BY <1>1, <1>3 DEF n
<1> HIDE DEF m
<1>6. w <= m /\ m - w = n BY <1>4, <1>5
<1>7. HeadIs(b, p, id, w, n) BY <1>3, <1>4 DEF HeadIs, n
<1>8. w <= Len(x) /\ HeadIs(b, p, id, w, Len(x) - w) BY <1>6, <1>7 DEF m
<1> QED BY <1>8

LEMMA FramedWide ==
  ASSUME NEW b, NEW id, NEW data, b \in Seq(Cell), id \in Ids, id # "bad", data \in Seq(Cell), Small(b)
  PROVE  Framed(b, AppendSizeWidth(id, Len(data), Wide) \o data, id)
<1> DEFINE n == Len(data)
           h == AppendSizeWidth(id, n, Wide)
           x == h \o data
<1>1. n \in Nat /\ n \in Int /\ Len(b) \in Nat OBVIOUS
<1>2. Wide \in Nat /\ Wide > 0 BY EbmlAssumption
<1> HIDE DEF n
<1>3. h \in Seq(Cell) BY <1>1, <1>2, SizeHeaderType
<1> HIDE DEF h
<1>4. Len(x) = Len(h) + n /\ Len(h) \in Nat BY <1>3 DEF n
<1> HIDE DEF x
<1> SUFFICES ASSUME NEW p \in Nat, At(b, p, x)
             PROVE  \E w \in Nat : w <= Len(x) /\ HeadIs(b, p, id, w, Len(x) - w)
  BY DEF Framed, x, h, n
<1>5. At(b, p, h) BY <1>3, AtParts DEF x
<1>6. n < Pow(SizeBase, Wide) - 1
  <2>1. Pow(SizeBase, Wide) \in Nat
    <3>1. SizeBase \in Nat /\ SizeBase > 0 BY EbmlAssumption
    <3> QED BY <1>2, <3>1, PowNat
  <2>2. p + Len(x) <= Len(b) BY DEF At
  <2> QED BY <1>1, <1>4, <2>1, <2>2 DEF Small
<1>7. ReadHeaderAt(b, p) = [id |-> id, w |-> Wide, size |-> n] /\ Len(h) = Wide
  BY <1>1, <1>2, <1>5, <1>6, HeadAt DEF h
<1>8. HeadIs(b, p, id, Wide, n) BY <1>1, <1>2, <1>7 DEF HeadIs
<1>9. Wide <= Len(x) /\ Len(x) - Wide = n BY <1>1, <1>2, <1>4, <1>7
<1> QED BY <1>2, <1>8, <1>9

LEMMA RawFramed ==
  ASSUME NEW b, NEW f, NEW e, b \in Seq(Cell), f \in Seq(Cell), e \in FileElem(f), Solid(f, e)
  PROVE  Framed(b, Raw(f, e), e.id)
<1> DEFINE x == Raw(f, e)
           data == SubSeq(f, e.data + 1, e.to)
<1>1. Len(x) \in Nat
  <2>1. x \in Seq(Cell) BY RawType
  <2> HIDE DEF x
  <2> QED BY <2>1
<1> SUFFICES ASSUME NEW p \in Nat, At(b, p, x)
             PROVE  \E w \in Nat : w <= Len(x) /\ HeadIs(b, p, e.id, w, Len(x) - w)
  BY DEF Framed
<1>2. Reads(b, p, e.id, data, p + Len(x)) /\ data \in Seq(Cell) BY RawAt
<1> HIDE DEF x, data
<1>3. PICK w \in Nat : /\ w > 0 /\ ReadHeaderAt(b, p) = [id |-> e.id, w |-> w, size |-> Len(data)]
                       /\ p + Len(x) = p + w + Len(data)
  BY <1>2 DEF Reads
<1> DEFINE n == Len(data)
           m == Len(x)
<1>4. n \in Nat BY <1>2
<1> HIDE DEF n
<1>5. m \in Nat /\ p + m = p + w + n BY <1>1, <1>3 DEF n
<1> HIDE DEF m
<1>6. w <= m /\ m - w = n BY <1>4, <1>5
<1>7. HeadIs(b, p, e.id, w, n) BY <1>3, <1>4 DEF HeadIs, n, Solid
<1>8. w <= Len(x) /\ HeadIs(b, p, e.id, w, Len(x) - w) BY <1>6, <1>7 DEF m
<1> QED BY <1>8

LEMMA FramedRaw ==
  ASSUME NEW b, NEW f, NEW e, b \in Seq(Cell), f \in Seq(Cell), e \in FileElem(f), Attached(f, e)
  PROVE  Framed(b, Raw(f, e), "Attachments")
<1>1. Solid(f, e) /\ e.id = "Attachments" BY DEF Attached, Solid
<1>2. Framed(b, Raw(f, e), e.id) BY <1>1, RawFramed
<1> QED BY <1>1, <1>2

\* The payload of an element that is in b.
LEMMA PayloadAt ==
  ASSUME NEW b, NEW e, NEW id, NEW data, b \in Seq(Cell), e \in Elem, HeadedBy(b, e), id \in Ids,
         data \in Seq(Cell), Small(b), At(b, e.from, AppendElement(id, data))
  PROVE  At(b, e.data, data) /\ e.to = e.data + Len(data) /\ e.to <= Len(b)
<1> DEFINE p == e.from
           x == AppendElement(id, data)
           n == Len(data)
           h == ReadHeaderAt(b, p)
<1>1. Reads(b, p, id, data, p + Len(x)) BY ElementAt
<1>2. n \in Nat /\ e.from \in Nat /\ e.data \in Nat /\ e.to \in Nat BY DEF Elem
<1> HIDE DEF x, n
<1>3. PICK w \in Nat : h = [id |-> id, w |-> w, size |-> n] /\ At(b, p + w, data) /\ p + w + n <= Len(b)
  BY <1>1 DEF Reads, n
<1>4. h.w = e.data - p /\ h.size = e.to - e.data BY DEF HeadedBy
<1>5. h.w = w /\ h.size = n BY <1>3
<1> HIDE DEF h
<1>6. p + w = e.data /\ e.to = e.data + n
  <2> DEFINE d == e.data
             t == e.to
  <2>1. w \in Nat /\ w = d - p /\ n = t - d /\ p \in Nat /\ d \in Nat /\ t \in Nat /\ n \in Nat
    BY <1>2, <1>3, <1>4, <1>5
  <2> HIDE DEF d, t, p
  <2>2. p + w = d /\ t = d + n BY <2>1
  <2> QED BY <2>2 DEF d, t
<1> QED BY <1>3, <1>6 DEF n

\* These are the elements of b with these cells.
Held(b, kids, ss, ids, end) ==
  /\ Len(kids) = Len(ss) /\ kids \in Seq(Elem)
  /\ \A i \in 1..Len(ss) : /\ kids[i] \in Elem /\ kids[i].id = ids[i] /\ HeadedBy(b, kids[i])
                           /\ At(b, kids[i].from, ss[i]) /\ kids[i].to <= end

LEMMA WalkHolds ==
  ASSUME NEW b, NEW d, NEW ss, NEW ids, b \in Seq(Cell), ss \in Seq(Seq(Cell)), At(b, d, FlattenSeq(ss)),
         \A i \in 1..Len(ss) : Framed(b, ss[i], ids[i]) /\ ids[i] # "bad"
  PROVE  Held(b, Walk(b, d, d + Len(FlattenSeq(ss)), {}), ss, ids, d + Len(FlattenSeq(ss)))
<1> DEFINE n == Len(ss)
           end == d + Len(FlattenSeq(ss))
           none == {}
           s == Walk(b, d, end, none)
<1>1. n \in Nat
  <2> DEFINE U == Seq(Cell)
  <2>1. ss \in Seq(U) OBVIOUS
  <2> HIDE DEF U
  <2> QED BY <2>1
<1>2. Gives(s, d, ss, ids) BY WalkFlat
<1>3. EachAt(b, d, ss) BY FlattenAt
<1>4. d \in Nat /\ end \in Int
  <2>1. FlattenSeq(ss) \in Seq(Cell) BY FlattenType
  <2>2. Len(FlattenSeq(ss)) \in Nat BY <2>1
  <2> QED BY <2>2 DEF At
<1> HIDE DEF end, none
<1>5. Walked(b, s, d, end, none) BY <1>4, WalkElements
<1> HIDE DEF s
<1>6. Len(s) = n /\ s \in Seq(Elem) BY <1>2, <1>5 DEF Gives, Walked
<1>7. ASSUME NEW i \in 1..n
      PROVE  /\ s[i] \in Elem /\ s[i].id = ids[i] /\ HeadedBy(b, s[i])
             /\ At(b, s[i].from, ss[i]) /\ s[i].to <= end
  <2>1. s[i].id = ids[i] /\ s[i].from = d + Start(ss, i) /\ s[i].to = d + Start(ss, i + 1)
    BY <1>2 DEF Gives
  <2>2. s[i] \in Elem
    <3> DEFINE T == Elem
    <3>1. s \in Seq(T) BY <1>6
    <3> HIDE DEF T
    <3>2. s[i] \in T BY <1>6, <3>1
    <3> QED BY <3>2 DEF T
  <2>3. ElemOf(b, s[i], d, end, none) BY <1>5, <1>6 DEF Walked
  <2>4. HeadedBy(b, s[i]) BY <2>1, <2>3 DEF ElemOf, none
  <2>5. At(b, s[i].from, ss[i]) BY <1>3, <2>1 DEF EachAt
  <2>6. Start(ss, i + 1) <= Len(FlattenSeq(ss))
    <3> DEFINE S == {j \in 2..(n + 1) : Start(ss, j) <= Start(ss, n + 1)}
    <3>1. \A j \in 1..n : Start(ss, j) \in Nat /\ Start(ss, j + 1) \in Nat /\ Start(ss, j) <= Start(ss, j + 1)
      <4> SUFFICES ASSUME NEW j \in 1..n
                   PROVE  Start(ss, j) \in Nat /\ Start(ss, j + 1) \in Nat /\ Start(ss, j) <= Start(ss, j + 1)
        OBVIOUS
      <4>1. Starts(ss, j) BY StartStep
      <4> DEFINE x == ss[j]
      <4>2. x \in Seq(Cell) BY <4>1 DEF Starts
      <4> HIDE DEF x
      <4>3. Len(x) \in Nat BY <4>2
      <4> QED BY <4>1, <4>3 DEF Starts, x
    <3>2. ASSUME NEW j \in 2..(n + 1), (j + 1)..(n + 1) \subseteq S PROVE j \in S
      <4>1. CASE j = n + 1
        <5>1. n \in 1..n BY <1>1, <4>1
        <5>2. Start(ss, n + 1) \in Nat BY <3>1, <5>1
        <5> QED BY <4>1, <5>2
      <4>2. CASE j # n + 1
        <5>1. j + 1 \in (j + 1)..(n + 1) /\ j \in 1..n /\ n \in 1..n BY <1>1, <4>2
        <5>2. Start(ss, j + 1) <= Start(ss, n + 1) BY <3>2, <5>1
        <5>3. Start(ss, j) <= Start(ss, j + 1) /\ Start(ss, j) \in Nat /\ Start(ss, j + 1) \in Nat
              /\ Start(ss, n + 1) \in Nat
          BY <3>1, <5>1
        <5>4. Start(ss, j) <= Start(ss, n + 1) BY <5>2, <5>3
        <5> QED BY <5>4
      <4> QED BY <4>1, <4>2
    <3> DEFINE m == n + 1
    <3>3. 2 \in Int /\ m \in Int /\ \A j \in 2..m : (j + 1)..m \subseteq S => j \in S BY <1>1, <3>2
    <3> HIDE DEF S, m
    <3>4. 2..m \subseteq S BY <3>3, DownwardInduction
    <3>5. i + 1 \in 2..m BY <1>1 DEF m
    <3>6. Start(ss, i + 1) <= Start(ss, n + 1) BY <3>4, <3>5 DEF S
    <3> QED BY <3>6, StartEnds
  <2>7. s[i].to <= end
    <3>1. Starts(ss, i) BY StartStep
    <3>2. Start(ss, i + 1) \in Nat BY <3>1 DEF Starts
    <3>3. Len(FlattenSeq(ss)) \in Nat
      <4>1. FlattenSeq(ss) \in Seq(Cell) BY FlattenType
      <4> QED BY <4>1
    <3> DEFINE u == Start(ss, i + 1)
               v == Len(FlattenSeq(ss))
    <3>4. u \in Nat /\ v \in Nat /\ u <= v /\ s[i].to = d + u /\ end = d + v BY <2>1, <2>6, <3>2, <3>3 DEF end
    <3> HIDE DEF u, v
    <3> QED BY <1>4, <3>4
  <2> QED BY <2>1, <2>2, <2>4, <2>5, <2>7
<1>8. Held(b, s, ss, ids, end) BY <1>6, <1>7 DEF Held
<1> QED BY <1>8 DEF s, end, none

LEMMA ChildrenHold ==
  ASSUME NEW b, NEW e, NEW id, NEW ss, NEW ids, b \in Seq(Cell), e \in Elem, HeadedBy(b, e), id \in Ids,
         ss \in Seq(Seq(Cell)), Small(b), At(b, e.from, AppendElement(id, FlattenSeq(ss))),
         \A i \in 1..Len(ss) : Framed(b, ss[i], ids[i]) /\ ids[i] # "bad"
  PROVE  Held(b, Children(b, e), ss, ids, e.to) /\ e.to <= Len(b)
<1> DEFINE data == FlattenSeq(ss)
           d == e.data
<1>1. data \in Seq(Cell) BY FlattenType
<1>2. At(b, d, data) /\ e.to = d + Len(data) /\ e.to <= Len(b)
  <2>1. At(b, e.from, AppendElement(id, data)) OBVIOUS
  <2> HIDE DEF data
  <2> QED BY <1>1, <2>1, PayloadAt
<1> HIDE DEF d
<1>3. Held(b, Walk(b, d, d + Len(FlattenSeq(ss)), {}), ss, ids, d + Len(FlattenSeq(ss))) BY <1>2, WalkHolds
<1>4. Children(b, e) = Walk(b, d, e.to, {}) BY DEF Children, d
<1> QED BY <1>2, <1>3, <1>4

\* A Seek with the id that is sought and this position.
SeekSays(b, e, id, v) ==
  /\ \A other \in Ids : SeeksFor(b, Children(b, e), e.to, other) <=> other = id
  /\ Value(b, Children(b, e), "SeekPosition") = v

LEMMA SeekReads ==
  ASSUME NEW b, NEW e, NEW id, NEW v, b \in Seq(Cell), e \in Elem, HeadedBy(b, e), id \in Ids, v \in Nat,
         v < Pow(UintBase, Wide), Small(b), At(b, e.from, AppendElement("Seek", SeekEntry(id, v)))
  PROVE  SeekSays(b, e, id, v)
<1> DEFINE a == AppendElement("SeekID", <<Id(id)>>)
           num == Num(v % Pow(UintBase, Wide))
           data == Cells(num, Wide)
           c == AppendElement("SeekPosition", data)
           ss == <<a, c>>
           ids == <<"SeekID", "SeekPosition">>
           kids == Children(b, e)
<1>1. {"Seek", "SeekID", "SeekPosition"} \subseteq Ids /\ "SeekID" # "bad" /\ "SeekPosition" # "bad" BY DEF Ids
<1>2. Wide \in Nat /\ Wide > 0 /\ Pow(UintBase, Wide) \in Nat /\ Pow(UintBase, Wide) > 0
  <2>1. Wide \in Nat /\ Wide > 0 /\ UintBase \in Nat /\ UintBase > 0 BY EbmlAssumption
  <2> QED BY <2>1, PowNat
<1>3. v % Pow(UintBase, Wide) = v BY <1>2
<1>4. num = Num(v) /\ num \in Cell BY <1>3, NewCells
<1>5. Id(id) \in Cell BY NewCells
<1>6. <<Id(id)>> \in Seq(Cell) BY <1>5
<1> HIDE DEF num
<1>7. data \in Seq(Cell) /\ Len(data) = Wide BY <1>2, <1>4, CellsType
<1>8. data[1] = num
  <2>1. 1 \in 1..Wide BY <1>2
  <2> QED BY <2>1 DEF Cells
<1> HIDE DEF data
<1>9. a \in Seq(Cell) /\ c \in Seq(Cell) BY <1>1, <1>6, <1>7, ElementType
<1>10. SeekEntry(id, v) = a \o c BY DEF SeekEntry, AppendUintWidth, data, num
<1>11. Framed(b, a, "SeekID") /\ Framed(b, c, "SeekPosition") BY <1>1, <1>6, <1>7, FramedElement
<1> DEFINE U == Seq(Cell)
<1>20. a \in U /\ c \in U BY <1>9
<1> HIDE DEF a, c, U
<1>12. ss \in Seq(U) /\ Len(ss) = 2 /\ ss[1] = a /\ ss[2] = c BY <1>20
<1>13. FlattenSeq(ss) = a \o c
  <2>1. <<a>> \in Seq(U) /\ ss = Append(<<a>>, c) BY <1>20
  <2>2. FlattenSeq(Append(<<a>>, c)) = FlattenSeq(<<a>>) \o c BY <1>20, <2>1, FlattenAppend DEF U
  <2>3. FlattenSeq(<<a>>) = a BY <1>20, FlattenSingle DEF U
  <2> QED BY <2>1, <2>2, <2>3
<1>14. \A i \in 1..Len(ss) : Framed(b, ss[i], ids[i]) /\ ids[i] # "bad"
  <2>1. 1..Len(ss) = {1, 2} BY <1>12
  <2>2. ids[1] = "SeekID" /\ ids[2] = "SeekPosition" OBVIOUS
  <2> HIDE DEF ss, ids
  <2> QED BY <1>1, <1>11, <1>12, <2>1, <2>2
<1>15. ids[1] = "SeekID" /\ ids[2] = "SeekPosition" OBVIOUS
<1> HIDE DEF ss, ids
<1>16. At(b, e.from, AppendElement("Seek", FlattenSeq(ss))) BY <1>10, <1>13
<1>17. ss \in Seq(Seq(Cell)) BY <1>12 DEF U
<1>18. Held(b, kids, ss, ids, e.to) /\ e.to <= Len(b) BY <1>1, <1>14, <1>16, <1>17, ChildrenHold
<1> HIDE DEF kids
<1>19. /\ Len(kids) = 2 /\ kids \in Seq(Elem)
       /\ kids[1] \in Elem /\ kids[1].id = "SeekID" /\ HeadedBy(b, kids[1]) /\ At(b, kids[1].from, a)
       /\ kids[2] \in Elem /\ kids[2].id = "SeekPosition" /\ HeadedBy(b, kids[2]) /\ At(b, kids[2].from, c)
       /\ kids[1].to <= e.to /\ kids[2].to <= e.to
  <2>1. 1 \in 1..Len(ss) /\ 2 \in 1..Len(ss) BY <1>12
  <2> QED BY <1>12, <1>15, <1>18, <2>1 DEF Held
<1> DEFINE k == kids[1]
           l == kids[2]
<1>21. DOMAIN kids = {1, 2}
  <2> DEFINE T == Elem
  <2>1. kids \in Seq(T) BY <1>19
  <2> HIDE DEF T
  <2>2. DOMAIN kids = 1..2 BY <1>19, <2>1
  <2> QED BY <2>2
<1>22. Has(kids, "SeekID") /\ Has(kids, "SeekPosition") BY <1>19, <1>21 DEF Has
<1>23. LastOf(kids, "SeekID") = k /\ LastOf(kids, "SeekPosition") = l
  <2>1. LastFound(kids, "SeekID") /\ LastFound(kids, "SeekPosition") BY <1>19, <1>22, LastIsOne
  <2>2. 1..Len(kids) = {1, 2} BY <1>19
  <2> QED BY <1>19, <2>1, <2>2 DEF LastFound
<1>24. ~Malformed(kids, e.to)
  <2>1. e.to \in Nat /\ k.to \in Nat /\ l.to \in Nat BY <1>19 DEF Elem
  <2>2. \A i \in DOMAIN kids : kids[i].id # "bad" /\ ~(kids[i].to > e.to) BY <1>1, <1>19, <1>21, <2>1
  <2> QED BY <2>2 DEF Malformed
<1> HIDE DEF k, l
<1>25. At(b, k.data, <<Id(id)>>) /\ k.to = k.data + Len(<<Id(id)>>) /\ k.to <= Len(b)
  BY <1>1, <1>6, <1>19, PayloadAt DEF a, k
<1>26. At(b, l.data, data) /\ l.to = l.data + Wide /\ l.to <= Len(b)
  BY <1>1, <1>7, <1>19, PayloadAt DEF c, l
<1>27. Len(b) \in Nat OBVIOUS
<1>28. k.data \in Nat /\ k.data < k.to /\ k.data < Len(b) /\ b[k.data + 1] = Id(id)
  <2>1. Len(<<Id(id)>>) = 1 /\ 1 \in 1..1 /\ <<Id(id)>>[1] = Id(id) OBVIOUS
  <2>2. k.data \in Nat /\ b[k.data + 1] = Id(id) BY <1>25, <2>1 DEF At
  <2> QED BY <1>25, <1>27, <2>1, <2>2
<1>29. l.data \in Nat /\ l.data < l.to /\ l.data < Len(b) /\ b[l.data + 1] = num
  <2>1. 1 \in 1..Len(data) BY <1>2, <1>7
  <2>2. l.data \in Nat /\ b[l.data + 1] = num BY <1>8, <1>26, <2>1 DEF At
  <2> QED BY <1>2, <1>26, <1>27, <2>2
<1>30. \A other \in Ids : HoldsId(b, k, other) <=> other = id
  <2>1. \A other \in Ids : Id(other) = Id(id) <=> other = id
    <3>1. \A o : Id(o).id = o BY DEF Id
    <3> QED BY <3>1
  <2> QED BY <1>28, <2>1 DEF HoldsId
<1>31. \A other \in Ids : SeeksFor(b, kids, e.to, other) <=> other = id
  BY <1>22, <1>23, <1>24, <1>30 DEF SeeksFor
<1>32. Value(b, kids, "SeekPosition") = v
  <2>1. Value(b, kids, "SeekPosition") = Uint(b, l) BY <1>22, <1>23 DEF Value
  <2>2. Uint(b, l) = CellValue(b, l.data) BY <1>29 DEF Uint
  <2>3. num.is = "num" /\ num.v = v BY <1>4 DEF Num
  <2>4. CellValue(b, l.data) = v BY <1>29, <2>3 DEF CellValue
  <2> QED BY <2>1, <2>2, <2>4
<1> QED BY <1>31, <1>32 DEF SeekSays, kids

\* Positions by id that can be said.
SeekTo(ps) ==
  /\ ps \in SeekPositions
  /\ \A i \in 1..Len(ps) : ps[i][2] >= 0 /\ ps[i][2] < Pow(UintBase, Wide)
  /\ \A i, j \in 1..Len(ps) : ps[i][1] = ps[j][1] => i = j

\* A seek head leads to them.
Leads(b, e, ps) == \A i \in 1..Len(ps) : seekPosition(b, e, ps[i][1]) = ps[i][2]

LEMMA SeekHeadReads ==
  ASSUME NEW b, NEW e, NEW ps, b \in Seq(Cell), e \in Elem, HeadedBy(b, e), SeekTo(ps), Small(b),
         At(b, e.from, seekHead(ps))
  PROVE  Leads(b, e, ps)
<1> DEFINE ss == Seeks(ps)
           n == Len(ps)
           ids == [i \in 1..n |-> "Seek"]
           seeks == Children(b, e)
<1>1. {"SeekHead", "Seek"} \subseteq Ids /\ "Seek" # "bad" BY DEF Ids
<1>2. ps \in SeekPositions BY DEF SeekTo
<1>3. n \in Nat /\ DOMAIN ps = 1..n /\ \A i \in 1..n : ps[i][1] \in Ids /\ ps[i][2] \in Int
  <2> DEFINE T == Ids \X Int
  <2>1. ps \in Seq(T) BY <1>2 DEF SeekPositions
  <2>2. \A t \in T : t[1] \in Ids /\ t[2] \in Int OBVIOUS
  <2> HIDE DEF T
  <2>3. n \in Nat /\ DOMAIN ps = 1..n /\ \A i \in 1..n : ps[i] \in T BY <2>1
  <2> QED BY <2>2, <2>3
<1>4. /\ seekHead(ps) = AppendElement("SeekHead", FlattenSeq(ss))
      /\ ss \in Seq(Seq(Cell)) /\ Len(ss) = n
  BY <1>2, SeekHeadIs
<1>5. \A i \in 1..n : ss[i] = AppendElement("Seek", SeekEntry(ps[i][1], ps[i][2])) BY <1>3 DEF Seeks
<1>6. \A i \in 1..n : ids[i] = "Seek" OBVIOUS
<1> HIDE DEF ss, ids, n
<1>7. \A i \in 1..n : Framed(b, ss[i], ids[i]) /\ ids[i] # "bad"
  <2> SUFFICES ASSUME NEW i \in 1..n PROVE Framed(b, ss[i], "Seek") BY <1>1, <1>6
  <2> DEFINE id == ps[i][1]
             v == ps[i][2]
             data == SeekEntry(id, v)
  <2>1. id \in Ids /\ v \in Int BY <1>3
  <2> HIDE DEF id, v
  <2>2. data \in Seq(Cell) BY <2>1, LenOfSeek
  <2> HIDE DEF data
  <2>3. Framed(b, AppendElement("Seek", data), "Seek") BY <1>1, <2>2, FramedElement
  <2> QED BY <1>5, <2>3 DEF data, id, v
<1>8. Held(b, seeks, ss, ids, e.to) /\ e.to <= Len(b) BY <1>1, <1>4, <1>7, ChildrenHold
<1>9. \A i \in 1..n : SeekSays(b, seeks[i], ps[i][1], ps[i][2])
  <2> SUFFICES ASSUME NEW i \in 1..n PROVE SeekSays(b, seeks[i], ps[i][1], ps[i][2]) OBVIOUS
  <2> DEFINE id == ps[i][1]
             v == ps[i][2]
             k == seeks[i]
  <2>1. id \in Ids /\ v \in Nat /\ v < Pow(UintBase, Wide) BY <1>3 DEF SeekTo, n
  <2>2. k \in Elem /\ HeadedBy(b, k) /\ At(b, k.from, AppendElement("Seek", SeekEntry(id, v)))
    BY <1>4, <1>5, <1>8 DEF Held
  <2> HIDE DEF id, v, k
  <2>3. SeekSays(b, k, id, v) BY <2>1, <2>2, SeekReads
  <2> QED BY <2>3 DEF id, v, k
<1>10. DOMAIN seeks = 1..n /\ \A i \in 1..n : seeks[i].id = "Seek" /\ seeks[i].to <= e.to /\ seeks[i] \in Elem
  <2> HIDE DEF seeks
  <2> DEFINE T == Elem
  <2>1. seeks \in Seq(T) /\ Len(seeks) = n BY <1>4, <1>8 DEF Held
  <2> HIDE DEF T
  <2>2. DOMAIN seeks = 1..n BY <2>1
  <2> QED BY <1>4, <1>6, <1>8, <2>2 DEF Held
<1>11. ~Malformed(seeks, e.to)
  <2> HIDE DEF seeks
  <2>1. e.to \in Nat /\ \A i \in 1..n : seeks[i].to \in Nat BY <1>10 DEF Elem
  <2> QED BY <1>1, <1>10, <2>1 DEF Malformed
<1>12. ASSUME NEW i \in 1..n PROVE seekPosition(b, e, ps[i][1]) = ps[i][2]
  <2> DEFINE id == ps[i][1]
             found == {j \in DOMAIN seeks : /\ seeks[j].id = "Seek"
                                            /\ SeeksFor(b, Children(b, seeks[j]), seeks[j].to, id)}
  <2>1. seekPosition(b, e, id) = IF Malformed(seeks, e.to) \/ found = {} THEN -1
                                 ELSE Value(b, Children(b, seeks[Min(found)]), "SeekPosition")
    BY DEF seekPosition
  <2>2. found = {i}
    <3> HIDE DEF seeks
    <3>1. \A j \in 1..n : SeeksFor(b, Children(b, seeks[j]), seeks[j].to, id) <=> id = ps[j][1]
      BY <1>3, <1>9 DEF SeekSays
    <3>2. \A j \in 1..n : id = ps[j][1] <=> i = j BY DEF SeekTo, n
    <3> QED BY <1>10, <3>1, <3>2
  <2> HIDE DEF found, seeks
  <2>3. Min(found) = i
    <3>1. found \subseteq Nat /\ found # {} BY <2>2
    <3>2. Min(found) \in found BY <3>1, SmallestNumber
    <3> QED BY <2>2, <3>2
  <2>4. Value(b, Children(b, seeks[i]), "SeekPosition") = ps[i][2] BY <1>9 DEF SeekSays
  <2> QED BY <1>11, <2>1, <2>2, <2>3, <2>4
<1> QED BY <1>12 DEF Leads, n

-----------------------------------------------------------------------------
(* How a clip is put together.                                              *)

\* What the seek head of a clip leads to.
SeekPlaces(src, info, tracks, cues, atts) ==
  <<<<"Info", info>>, <<"Tracks", tracks>>>>
    \o (IF src.attachments = <<>> THEN <<>> ELSE <<<<"Attachments", atts>>>>)
    \o <<<<"Cues", cues>>>>

LEMMA SeekPlacesType ==
  ASSUME NEW src, NEW a, NEW b, NEW c, NEW d, a \in Int, b \in Int, c \in Int, d \in Int
  PROVE  /\ SeekPlaces(src, a, b, c, d) \in SeekPositions
         /\ Len(SeekPlaces(src, a, b, c, d)) = IF src.attachments = <<>> THEN 3 ELSE 4
<1> DEFINE T == Ids \X Int
           x == <<<<"Info", a>>, <<"Tracks", b>>>>
           y == IF src.attachments = <<>> THEN <<>> ELSE <<<<"Attachments", d>>>>
           z == <<<<"Cues", c>>>>
<1>1. {"Info", "Tracks", "Attachments", "Cues"} \subseteq Ids BY DEF Ids
<1>2. <<"Info", a>> \in T /\ <<"Tracks", b>> \in T /\ <<"Cues", c>> \in T /\ <<"Attachments", d>> \in T
  BY <1>1
<1> HIDE DEF T
<1>3. /\ x \in Seq(T) /\ y \in Seq(T) /\ z \in Seq(T)
      /\ Len(x) = 2 /\ Len(z) = 1 /\ Len(y) = IF src.attachments = <<>> THEN 0 ELSE 1
  BY <1>2
<1>4. SeekPlaces(src, a, b, c, d) = (x \o y) \o z BY DEF SeekPlaces
<1> HIDE DEF x, y, z
<1>5. x \o y \in Seq(T) /\ Len(x \o y) = Len(x) + Len(y) BY <1>3, ConcatProperties
<1>6. (x \o y) \o z \in Seq(T) /\ Len((x \o y) \o z) = Len(x \o y) + Len(z) BY <1>3, <1>5, ConcatProperties
<1> QED BY <1>3, <1>4, <1>5, <1>6 DEF SeekPositions, T

AttachmentsLen(src) ==
  IF src.attachments = <<>> THEN 0 ELSE src.attachments[1].to - src.attachments[1].from

\* A source has no attachments, or one element with them.
LEMMA SourceAttached ==
  ASSUME NEW f, NEW src, SourceOf(f, src), src.attachments # <<>>
  PROVE  src.attachments[1] \in FileElem(f) /\ Attached(f, src.attachments[1])
<1> DEFINE T == FileElem(f)
           att == src.attachments
<1>1. att \in Seq(T) /\ att # <<>> BY DEF SourceOf
<1> HIDE DEF T
<1>2. att[1] \in T BY <1>1
<1> QED BY <1>2 DEF T, SourceOf

LEMMA AttachmentsLenNat ==
  ASSUME NEW f, NEW src, f \in Seq(Cell), SourceOf(f, src)
  PROVE  AttachmentsLen(src) \in Nat
<1>1. CASE src.attachments = <<>> BY <1>1 DEF AttachmentsLen
<1>2. CASE src.attachments # <<>>
  <2> DEFINE e == src.attachments[1]
  <2>1. e \in FileElem(f) BY <1>2, SourceAttached
  <2>2. e.from \in Nat /\ e.to \in Nat /\ e.from <= e.to BY <2>1 DEF FileElem, Elem
  <2>3. AttachmentsLen(src) = e.to - e.from BY <1>2 DEF AttachmentsLen
  <2> HIDE DEF e
  <2> QED BY <2>2, <2>3
<1> QED BY <1>1, <1>2

AttachmentParts(src) ==
  IF src.attachments = <<>> THEN <<>> ELSE <<RangeOf(src.attachments[1].from, AttachmentsLen(src))>>

Bodies(clusters, origin) ==
  FlattenSeq([i \in DOMAIN clusters |-> <<Literal(newHeader(clusters[i], origin))>> \o clusters[i].body])

\* How a clip is put together: every position is that of what it is for.
Shaped(src, clusters, origin, endT, parts, info, tracks, pos) ==
  LET infoEl == AppendElement("Info", info)
      tracksEl == AppendElement("Tracks", tracks)
      cuesEl == cuesElement(src, clusters, pos, origin, endT)
      n == Len(clusters)
      infoPos == Len(seekHead(SeekPlaces(src, 0, 0, 0, 0)))
      tracksPos == infoPos + Len(infoEl)
      attPos == tracksPos + Len(tracksEl)
      cuesPos == attPos + AttachmentsLen(src)
      seeks == seekHead(SeekPlaces(src, infoPos, tracksPos, cuesPos, attPos))
      head == src.ebmlHeader \o AppendSizeWidth("Segment", pos[n + 1], Wide) \o seeks \o infoEl \o tracksEl
  IN  /\ info \in Seq(Cell) /\ tracks \in Seq(Cell) /\ pos \in [1..(n + 1) -> Int]
      /\ head \in Seq(Cell) /\ cuesEl \in Seq(Cell)
      /\ Len(seeks) = infoPos
      /\ pos[1] = cuesPos + Len(cuesEl)
      /\ \A i \in 1..n : pos[i + 1] = pos[i] + Len(newHeader(clusters[i], origin)) + PartsLen(clusters[i].body)
      /\ parts = AppendAll(<<Literal(head)>>,
                    AttachmentParts(src) \o <<Literal(cuesEl)>> \o Bodies(clusters, origin))

Shape(src, clusters, origin, endT, parts) ==
  \E info, tracks, pos : Shaped(src, clusters, origin, endT, parts, info, tracks, pos)

\* The infos and the tracks of a clip.
InfoOf(f, src, origin, endT, title) ==
  Copied(f, src.info, Dropped) \o AppendUintWidth("Duration", endT - origin, Wide)
    \o AppendElement("Title", <<title>>)
TracksOf(f, src) == Copied(f, src.tracks, {"CRC-32", "Void"})

\* How a clip of src is put together, with what its infos and tracks are.
AssembledAs(f, src, clusters, origin, endT, title, parts) ==
  \E pos : Shaped(src, clusters, origin, endT, parts,
                  InfoOf(f, src, origin, endT, title), TracksOf(f, src), pos)

LEMMA AssembledShaped ==
  ASSUME NEW f, NEW src, NEW clusters, NEW origin, NEW endT, NEW title,
         f \in Seq(Cell), SourceOf(f, src), clusters \in Seq(CutCluster(f)), origin \in Int, endT \in Int,
         title \in Cell
  PROVE  AssembledAs(f, src, clusters, origin, endT, title, assemble(f, src, clusters, origin, endT, title))
<1> DEFINE info == Copied(f, src.info, Dropped) \o AppendUintWidth("Duration", endT - origin, Wide)
                     \o AppendElement("Title", <<title>>)
           tracks == Copied(f, src.tracks, {"CRC-32", "Void"})
           infoEl == AppendElement("Info", info)
           tracksEl == AppendElement("Tracks", tracks)
           att == src.attachments
           attLen == IF att = <<>> THEN 0 ELSE att[1].to - att[1].from
           headers == [i \in DOMAIN clusters |-> newHeader(clusters[i], origin)]
           len(i) == Len(headers[i]) + PartsLen(clusters[i].body)
           cuesEl(offs) == cuesElement(src, clusters, offs, origin, endT)
           seeks(a, b, c, d) ==
             seekHead(<<<<"Info", a>>, <<"Tracks", b>>>>
                        \o (IF att = <<>> THEN <<>> ELSE <<<<"Attachments", d>>>>)
                        \o <<<<"Cues", c>>>>)
           infoPos == Len(seeks(0, 0, 0, 0))
           tracksPos == infoPos + Len(infoEl)
           attPos == tracksPos + Len(tracksEl)
           cuesPos == attPos + attLen
           firstPos == cuesPos + Len(cuesEl([i \in DOMAIN clusters |-> 0]))
           pos[i \in 1..(Len(clusters) + 1)] == IF i = 1 THEN firstPos ELSE pos[i - 1] + len(i - 1)
           head == src.ebmlHeader \o AppendSizeWidth("Segment", pos[Len(clusters) + 1], Wide)
                     \o seeks(infoPos, tracksPos, cuesPos, attPos) \o infoEl \o tracksEl
           attachments == IF att = <<>> THEN <<>> ELSE <<RangeOf(att[1].from, attLen)>>
           bodies == FlattenSeq([i \in DOMAIN clusters |-> <<Literal(headers[i])>> \o clusters[i].body])
           U == Seq(Cell)
           F == FileParts(f)
           C == CutCluster(f)
           n == Len(clusters)
<1>1. assemble(f, src, clusters, origin, endT, title)
        = AppendAll(<<Literal(head)>>, attachments \o <<Literal(cuesEl(pos))>> \o bodies)
  BY DEF assemble
<1>2. /\ {"Info", "Tracks", "Attachments", "Cues", "Duration", "Title", "Segment"} \subseteq Ids
      /\ Wide \in Nat /\ Wide > 0
  BY EbmlAssumption DEF Ids
<1>3. /\ src.info \in FileElems(f) /\ src.tracks \in FileElems(f) /\ att \in FileElems(f)
      /\ src.ebmlHeader \in U /\ src.cues \in Seq(Cue) /\ src.video \in Nat
  BY DEF SourceOf, FileElems
<1>4. \A a, b \in U : a \o b \in U BY ConcatProperties
<1>5. info \in U
  <2> DEFINE a == Copied(f, src.info, Dropped)
             b == AppendUintWidth("Duration", endT - origin, Wide)
             c == AppendElement("Title", <<title>>)
  <2>1. a \in U BY <1>3, CopiedType DEF FileElems
  <2>2. endT - origin \in Int OBVIOUS
  <2>3. b \in U BY <1>2, <2>2, UintWidthType
  <2>4. <<title>> \in Seq(Cell) OBVIOUS
  <2>5. c \in U BY <1>2, <2>4, ElementType
  <2> HIDE DEF a, b, c
  <2>6. (a \o b) \o c \in U BY <1>4, <2>1, <2>3, <2>5
  <2> QED BY <2>6 DEF a, b, c
<1>6. tracks \in U BY <1>3, CopiedType DEF FileElems
<1> HIDE DEF info, tracks
<1>25. infoEl \in U /\ tracksEl \in U BY <1>2, <1>5, <1>6, ElementType
<1>7. \A i \in DOMAIN clusters : clusters[i] \in C
  <2> HIDE DEF C
  <2> QED BY DEF C
<1>8. DOMAIN clusters = 1..n /\ n \in Nat OBVIOUS
<1>9. \A c \in C : newHeader(c, origin) \in U BY NewHeaderType
<1>10. \A i \in 1..n : headers[i] \in U /\ clusters[i].body \in F /\ len(i) \in Int
  <2> SUFFICES ASSUME NEW i \in 1..n PROVE headers[i] \in U /\ clusters[i].body \in F /\ len(i) \in Int
    OBVIOUS
  <2>1. clusters[i] \in C BY <1>7, <1>8
  <2>2. headers[i] = newHeader(clusters[i], origin) BY <1>8
  <2>3. headers[i] \in U BY <1>9, <2>1, <2>2
  <2>4. clusters[i].body \in F BY <2>1 DEF CutCluster
  <2> HIDE DEF headers
  <2>5. PartsLen(clusters[i].body) \in Nat BY <2>4, PartsLenNat
  <2>6. Len(headers[i]) \in Nat BY <2>3
  <2> QED BY <2>3, <2>4, <2>5, <2>6
<1> HIDE DEF infoEl, tracksEl
<1>11. \A a, b, c, d : seeks(a, b, c, d) = seekHead(SeekPlaces(src, a, b, c, d)) BY DEF SeekPlaces
<1>26. ASSUME NEW a \in Int, NEW b \in Int, NEW c \in Int, NEW d \in Int
       PROVE  seeks(a, b, c, d) \in U /\ Len(seeks(a, b, c, d)) = Len(seeks(0, 0, 0, 0))
  <2> HIDE DEF seeks
  <2>0. 0 \in Int OBVIOUS
  <2>1. /\ SeekPlaces(src, a, b, c, d) \in SeekPositions
        /\ Len(SeekPlaces(src, a, b, c, d)) = Len(SeekPlaces(src, 0, 0, 0, 0))
    BY <2>0, SeekPlacesType
  <2>2. SeekPlaces(src, 0, 0, 0, 0) \in SeekPositions BY <2>0, SeekPlacesType
  <2>3. Len(seekHead(SeekPlaces(src, a, b, c, d))) = Len(seekHead(SeekPlaces(src, 0, 0, 0, 0)))
    BY <2>1, <2>2, LenOfSeekHead
  <2> QED BY <1>11, <2>1, <2>3, SeekHeadType
<1>12. \A g : (\A i \in DOMAIN clusters : g[i] \in Int) => cuesEl(g) \in U BY <1>3, CuesElementType
<1>27. \A g : (\A i \in DOMAIN clusters : g[i] \in Int)
                => Len(cuesEl(g)) = Len(cuesEl([i \in DOMAIN clusters |-> 0]))
  <2> DEFINE z == [i \in DOMAIN clusters |-> 0]
  <2>1. \A i \in DOMAIN clusters : z[i] \in Int OBVIOUS
  <2> HIDE DEF z
  <2> SUFFICES ASSUME NEW g, \A i \in DOMAIN clusters : g[i] \in Int
               PROVE  Len(cuesEl(g)) = Len(cuesEl(z))
    BY DEF z
  <2> QED BY <1>3, <2>1, LenOfCues
<1>28. /\ \A g : cuesEl(g) = cuesElement(src, clusters, g, origin, endT)
       /\ attLen = AttachmentsLen(src) /\ attachments = AttachmentParts(src)
       /\ bodies = Bodies(clusters, origin)
       /\ \A i \in 1..n : len(i) = Len(newHeader(clusters[i], origin)) + PartsLen(clusters[i].body)
  BY <1>8 DEF AttachmentsLen, AttachmentParts, Bodies
<1> HIDE DEF seeks, cuesEl
<1>13. attLen \in Nat BY <1>28, AttachmentsLenNat
<1> HIDE DEF att, attLen, attachments
<1>14. infoPos \in Int /\ tracksPos \in Int /\ attPos \in Int /\ cuesPos \in Int
  <2>1. seeks(0, 0, 0, 0) \in U BY <1>26
  <2> QED BY <1>13, <1>25, <2>1
<1>15. firstPos \in Int
  <2>1. cuesEl([i \in DOMAIN clusters |-> 0]) \in U BY <1>12
  <2> HIDE DEF cuesPos
  <2> QED BY <1>14, <2>1
<1> HIDE DEF infoPos, tracksPos, attPos, cuesPos, firstPos, len, headers
<1>16. pos \in [1..(n + 1) -> Int] /\ pos[1] = firstPos /\ \A i \in 1..n : pos[i + 1] = pos[i] + len(i)
  <2> DEFINE step == [i \in 1..(n + 1) |-> [u \in Int |-> IF i = 1 THEN u ELSE u + len(i - 1)]]
  <2>1. \A i \in 2..(n + 1) : i - 1 \in 1..n /\ i - 1 \in 1..(n + 1) BY <1>8
  <2>2. step \in [1..(n + 1) -> [Int -> Int]]
    <3>1. \A i \in 1..(n + 1) : \A u \in Int : (IF i = 1 THEN u ELSE u + len(i - 1)) \in Int
      BY <1>8, <1>10, <2>1
    <3> QED BY <3>1
  <2>3. PICK g \in [1..(n + 1) -> Int] :
          \A i \in 1..(n + 1) : g[i] = IF i = 1 THEN firstPos ELSE step[i][g[i - 1]]
    <3> HIDE DEF step
    <3>1. Recursive(Int, 1, n + 1, firstPos, step) BY <1>8, <1>15, <2>2, FiniteRecursion
    <3> QED BY <3>1 DEF Recursive
  <2>4. \A i \in 1..(n + 1) : g[i] = IF i = 1 THEN firstPos ELSE g[i - 1] + len(i - 1)
    <3>1. \A i \in 1..(n + 1) : i # 1 => i - 1 \in 1..(n + 1) BY <1>8
    <3>2. \A i \in 1..(n + 1) : \A u \in Int : i # 1 => step[i][u] = u + len(i - 1) OBVIOUS
    <3>3. \A i \in 1..(n + 1) : g[i] \in Int BY <2>3
    <3> HIDE DEF step
    <3> QED BY <2>3, <3>1, <3>2, <3>3
  <2>5. g = [i \in 1..(n + 1) |-> IF i = 1 THEN firstPos ELSE g[i - 1] + len(i - 1)] BY <2>4
  <2>6. pos = [i \in 1..(n + 1) |-> IF i = 1 THEN firstPos ELSE pos[i - 1] + len(i - 1)] BY <2>5
  <2>7. Agree(g, pos, 1, n + 1)
    <3> HIDE DEF pos, step
    <3>1. \A i \in 1..(n + 1) : /\ pos[i] = IF i = 1 THEN firstPos ELSE pos[i - 1] + len(i - 1)
                                /\ g[i] = IF i = 1 THEN firstPos ELSE g[i - 1] + len(i - 1)
      BY <2>4, <2>6
    <3>2. 1 \in 1..(n + 1) /\ 1 \in Int /\ n + 1 \in Int BY <1>8
    <3>3. g[1] = pos[1] BY <3>1, <3>2
    <3>4. \A i \in 1..(n + 1) : i > 1 /\ g[i - 1] = pos[i - 1] => g[i] = pos[i] BY <3>1
    <3> QED BY <3>2, <3>3, <3>4, FiniteRecursionUnique
  <2> HIDE DEF pos
  <2>8. \A i \in 1..(n + 1) : pos[i] \in Int BY <2>7 DEF Agree
  <2>9. DOMAIN pos = 1..(n + 1) /\ pos = [i \in DOMAIN pos |-> pos[i]]
    <3>1. \A q : q = [i \in 1..(n + 1) |-> IF i = 1 THEN firstPos ELSE q[i - 1] + len(i - 1)]
            => DOMAIN q = 1..(n + 1) /\ q = [i \in DOMAIN q |-> q[i]]
      OBVIOUS
    <3> QED BY <2>6, <3>1
  <2>10. pos[1] = firstPos /\ \A i \in 1..n : pos[i + 1] = pos[i] + len(i)
    <3>1. \A i \in 1..(n + 1) : pos[i] = IF i = 1 THEN firstPos ELSE pos[i - 1] + len(i - 1) BY <2>6
    <3>2. 1 \in 1..(n + 1) /\ \A i \in 1..n : i + 1 \in 1..(n + 1) /\ i + 1 # 1 /\ (i + 1) - 1 = i BY <1>8
    <3> QED BY <3>1, <3>2
  <2> QED BY <2>8, <2>9, <2>10
<1> HIDE DEF pos
<1>17. Len(cuesEl(pos)) = Len(cuesEl([i \in DOMAIN clusters |-> 0]))
  <2>1. \A i \in DOMAIN clusters : pos[i] \in Int BY <1>8, <1>16
  <2> QED BY <1>27, <2>1
<1>18. Len(seeks(infoPos, tracksPos, cuesPos, attPos)) = infoPos
  <2>1. Len(seeks(infoPos, tracksPos, cuesPos, attPos)) = Len(seeks(0, 0, 0, 0)) BY <1>14, <1>26
  <2> QED BY <2>1 DEF infoPos
<1>19. /\ infoPos = Len(seekHead(SeekPlaces(src, 0, 0, 0, 0))) /\ tracksPos = infoPos + Len(infoEl)
       /\ attPos = tracksPos + Len(tracksEl) /\ cuesPos = attPos + AttachmentsLen(src)
       /\ firstPos = cuesPos + Len(cuesEl([i \in DOMAIN clusters |-> 0]))
  BY <1>11, <1>28 DEF infoPos, tracksPos, attPos, cuesPos, firstPos
<1>20. \A i \in 1..n : pos[i + 1] = pos[i] + Len(newHeader(clusters[i], origin)) + PartsLen(clusters[i].body)
  <2>1. \A c \in C : Len(newHeader(c, origin)) \in Nat /\ PartsLen(c.body) \in Nat
    BY <1>9, PartsLenNat DEF CutCluster
  <2>2. \A i \in 1..n : clusters[i] \in C /\ pos[i] \in Int BY <1>7, <1>8, <1>16
  <2> HIDE DEF C
  <2> QED BY <1>16, <1>28, <2>1, <2>2
<1> DEFINE parts == assemble(f, src, clusters, origin, endT, title)
<1>21. parts = AppendAll(<<Literal(head)>>, AttachmentParts(src) \o <<Literal(cuesEl(pos))>> \o Bodies(clusters, origin))
  BY <1>1, <1>28
<1>22. head = src.ebmlHeader \o AppendSizeWidth("Segment", pos[n + 1], Wide)
                \o seekHead(SeekPlaces(src, infoPos, tracksPos, cuesPos, attPos)) \o infoEl \o tracksEl
  BY <1>11
<1>23. cuesEl(pos) = cuesElement(src, clusters, pos, origin, endT) BY <1>28
<1>29. cuesEl(pos) \in U BY <1>8, <1>12, <1>16
<1>30. head \in U
  <2> DEFINE h == AppendSizeWidth("Segment", pos[n + 1], Wide)
             s == seeks(infoPos, tracksPos, cuesPos, attPos)
  <2>1. pos[n + 1] \in Int BY <1>8, <1>16
  <2>2. h \in U BY <1>2, <2>1, SizeHeaderType
  <2>3. s \in U BY <1>14, <1>26
  <2> HIDE DEF h, s
  <2>4. src.ebmlHeader \o h \o s \o infoEl \o tracksEl \in U BY <1>3, <1>4, <1>25, <2>2, <2>3
  <2> QED BY <2>4 DEF h, s
<1> HIDE DEF parts, head
<1>24. Shaped(src, clusters, origin, endT, parts, info, tracks, pos)
  BY <1>5, <1>6, <1>11, <1>16, <1>17, <1>18, <1>19, <1>20, <1>21, <1>22, <1>23, <1>29, <1>30 DEF Shaped, infoEl, tracksEl
<1>31. info = InfoOf(f, src, origin, endT, title) /\ tracks = TracksOf(f, src)
  BY DEF InfoOf, TracksOf, info, tracks
<1> QED BY <1>24, <1>31 DEF AssembledAs, parts

LEMMA AssembleShape ==
  ASSUME NEW f, NEW src, NEW clusters, NEW origin, NEW endT, NEW title,
         f \in Seq(Cell), SourceOf(f, src), clusters \in Seq(CutCluster(f)), origin \in Int, endT \in Int,
         title \in Cell
  PROVE  Shape(src, clusters, origin, endT, assemble(f, src, clusters, origin, endT, title))
<1>1. AssembledAs(f, src, clusters, origin, endT, title, assemble(f, src, clusters, origin, endT, title))
  BY AssembledShaped
<1> QED BY <1>1 DEF AssembledAs, Shape

LEMMA BodiesType ==
  ASSUME NEW f, NEW clusters, NEW origin, f \in Seq(Cell), clusters \in Seq(CutCluster(f)), origin \in Int
  PROVE  Bodies(clusters, origin) \in FileParts(f)
<1> DEFINE g == [i \in DOMAIN clusters |-> <<Literal(newHeader(clusters[i], origin))>> \o clusters[i].body]
           C == CutCluster(f)
           F == FileParts(f)
           n == Len(clusters)
<1>1. DOMAIN clusters = 1..n /\ n \in Nat /\ clusters \in Seq(C) OBVIOUS
<1>2. ASSUME NEW c \in C PROVE <<Literal(newHeader(c, origin))>> \o c.body \in F
  <2>1. newHeader(c, origin) \in Seq(Cell) BY NewHeaderType
  <2>2. Literal(newHeader(c, origin)) \in FilePart(f) BY <2>1, LiteralType
  <2>3. <<Literal(newHeader(c, origin))>> \in F BY <2>2 DEF FileParts
  <2>4. c.body \in F BY DEF CutCluster
  <2> QED BY <2>3, <2>4, ConcatProperties DEF FileParts
<1>3. Bodies(clusters, origin) = FlattenSeq(g) BY DEF Bodies
<1> HIDE DEF C
<1>4. \A i \in 1..n : clusters[i] \in C BY <1>1
<1>5. \A i \in 1..n : g[i] \in F
  <2> HIDE DEF F
  <2> QED BY <1>1, <1>2, <1>4
<1>6. DOMAIN g = 1..n /\ g = [i \in DOMAIN g |-> g[i]] BY <1>1
<1> HIDE DEF g
<1>7. g \in [1..n -> F]
  <2> HIDE DEF F
  <2> QED BY <1>5, <1>6
<1>8. FlattenSeq(g) \in F BY <1>1, <1>7, FlattenOf DEF FileParts
<1> QED BY <1>3, <1>8

LEMMA ContentConcat ==
  ASSUME NEW f, NEW x, NEW y, f \in Seq(Cell), x \in FileParts(f), y \in FileParts(f)
  PROVE  /\ Content(x \o y, f) = Content(x, f) \o Content(y, f) /\ x \o y \in FileParts(f)
         /\ Content(x, f) \in Seq(Cell) /\ Content(y, f) \in Seq(Cell)
<1> DEFINE T == Part(Cell, f)
           U == Seq(Cell)
           a == CellsOf(x, f)
           c == CellsOf(y, f)
           z == x \o y
<1>1. x \in Seq(T) /\ y \in Seq(T) BY DEF FileParts, FilePart
<1>2. a \in Seq(U) /\ c \in Seq(U) BY <1>1, CellsOfType
<1>3. Content(x, f) \in U /\ Content(y, f) \in U BY <1>1, ContentType
<1> HIDE DEF T, U
<1>4. /\ z \in Seq(T) /\ Len(z) = Len(x) + Len(y) /\ Len(x) \in Nat /\ Len(y) \in Nat
      /\ DOMAIN z = 1..(Len(x) + Len(y)) /\ DOMAIN x = 1..Len(x) /\ DOMAIN y = 1..Len(y)
      /\ \A i \in 1..Len(x) : z[i] = x[i]
  BY <1>1
<1>9. \A i \in 1..Len(y) : z[Len(x) + i] = y[i] BY <1>1
<1> HIDE DEF z
<1>5. /\ DOMAIN a = 1..Len(x) /\ DOMAIN c = 1..Len(y)
      /\ \A i \in 1..Len(x) : a[i] = PartCells(x[i], f)
      /\ \A i \in 1..Len(y) : c[i] = PartCells(y[i], f)
  BY <1>4 DEF CellsOf
<1> HIDE DEF a, c
<1>6. Len(a) = Len(x) /\ Len(c) = Len(y) BY <1>2, <1>4, <1>5
<1>7. CellsOf(z, f) = a \o c
  <2> DEFINE g == CellsOf(z, f)
             h == a \o c
  <2>1. DOMAIN g = 1..(Len(x) + Len(y)) /\ \A i \in DOMAIN z : g[i] = PartCells(z[i], f)
    BY <1>4 DEF CellsOf
  <2>2. g = [i \in DOMAIN g |-> g[i]] BY DEF CellsOf
  <2>3. /\ DOMAIN h = 1..(Len(x) + Len(y)) /\ h = [i \in DOMAIN h |-> h[i]]
        /\ \A i \in 1..Len(x) : h[i] = a[i]
        /\ \A i \in 1..Len(y) : h[Len(x) + i] = c[i]
    <3>1. /\ h \in Seq(U) /\ Len(h) = Len(x) + Len(y)
          /\ (\A i \in 1..Len(x) : h[i] = a[i])
          /\ (\A i \in 1..Len(y) : h[Len(x) + i] = c[i])
      <4>1. /\ h \in Seq(U) /\ Len(h) = Len(a) + Len(c)
            /\ (\A i \in 1..Len(a) : h[i] = a[i])
            /\ (\A i \in 1..Len(c) : h[Len(a) + i] = c[i])
        BY <1>2
      <4> HIDE DEF h
      <4> QED BY <1>6, <4>1
    <3> HIDE DEF h
    <3>2. DOMAIN h = 1..(Len(x) + Len(y)) BY <3>1
    <3>3. h = [i \in DOMAIN h |-> h[i]] BY <3>1
    <3> QED BY <3>1, <3>2, <3>3
  <2> HIDE DEF g, h
  <2>4. ASSUME NEW i \in 1..(Len(x) + Len(y)) PROVE g[i] = h[i]
    <3>1. CASE i <= Len(x)
      <4>1. i \in 1..Len(x) BY <1>4, <3>1
      <4> QED BY <1>4, <1>5, <2>1, <2>3, <4>1
    <3>2. CASE ~(i <= Len(x))
      <4> DEFINE j == i - Len(x)
      <4>1. j \in 1..Len(y) /\ i = Len(x) + j BY <1>4, <3>2
      <4> HIDE DEF j
      <4>2. z[i] = y[j] /\ h[i] = c[j] /\ c[j] = PartCells(y[j], f) BY <1>5, <1>9, <2>3, <4>1
      <4> QED BY <1>4, <2>1, <4>2
    <3> QED BY <3>1, <3>2
  <2>5. g = h BY <2>1, <2>2, <2>3, <2>4
  <2> QED BY <2>5 DEF g, h
<1>8. FlattenSeq(a \o c) = FlattenSeq(a) \o FlattenSeq(c) BY <1>2, FlattenConcat DEF U
<1>10. Content(z, f) = Content(x, f) \o Content(y, f) BY <1>7, <1>8, ContentIsFlat DEF a, c
<1> QED BY <1>3, <1>4, <1>10 DEF z, T, U, FileParts, FilePart

\* What is put together of parts holds what each of them does.
ContentEach(f, pp) == Content(FlattenSeq(pp), f) = FlattenSeq([i \in DOMAIN pp |-> Content(pp[i], f)])

LEMMA ContentFlatten ==
  ASSUME NEW f, NEW pp, f \in Seq(Cell), pp \in Seq(FileParts(f))
  PROVE  ContentEach(f, pp)
<1> DEFINE F == FileParts(f)
           U == Seq(Cell)
           each(s) == [i \in DOMAIN s |-> Content(s[i], f)]
           P == {s \in Seq(F) : ContentEach(f, s)}
<1>1. <<>> \in P
  <2>1. FlattenSeq(<<>>) = <<>> /\ Content(<<>>, f) = <<>> BY FlattenEmpty, ContentEmpty
  <2>2. each(<<>>) = <<>> OBVIOUS
  <2>3. <<>> \in Seq(F) OBVIOUS
  <2> QED BY <2>1, <2>2, <2>3 DEF ContentEach
<1>2. ASSUME NEW s \in Seq(F), NEW x \in F, s \in P PROVE Append(s, x) \in P
  <2> DEFINE t == Append(s, x)
             n == Len(s)
  <2>1. FlattenSeq(t) = FlattenSeq(s) \o x /\ FlattenSeq(s) \in F
    BY FlattenAppend, FlattenType DEF FileParts
  <2>2. Content(FlattenSeq(t), f) = Content(FlattenSeq(s), f) \o Content(x, f) /\ Content(x, f) \in U
    BY <2>1, ContentConcat
  <2>3. \A y \in F : Content(y, f) \in U BY ContentType DEF FileParts, FilePart
  <2> HIDE DEF F, U
  <2>4. /\ n \in Nat /\ t \in Seq(F) /\ Len(t) = n + 1 /\ DOMAIN t = 1..(n + 1) /\ DOMAIN s = 1..n
        /\ t[n + 1] = x /\ (\A i \in 1..n : t[i] = s[i] /\ s[i] \in F)
    OBVIOUS
  <2> HIDE DEF t
  <2> DEFINE u == each(s)
             v == each(t)
             y == Content(x, f)
  <2>5. u \in [1..n -> U] BY <2>3, <2>4
  <2>6. u \in Seq(U) /\ Len(u) = n BY <2>4, <2>5, FunctionIsSequence
  <2>7. DOMAIN v = 1..(n + 1) /\ v[n + 1] = y /\ (\A i \in 1..n : v[i] = u[i])
    <3>1. n + 1 \in 1..(n + 1) /\ \A i \in 1..n : i \in 1..(n + 1) BY <2>4
    <3> QED BY <2>4, <3>1
  <2>8. v = [i \in DOMAIN v |-> v[i]] OBVIOUS
  <2>13. y \in U BY <2>2
  <2> HIDE DEF u, v, y
  <2> DEFINE w == Append(u, y)
  <2>9. v = w
    <3>1. DOMAIN w = 1..(n + 1) /\ w[n + 1] = y /\ (\A i \in 1..n : w[i] = u[i])
          /\ w = [i \in DOMAIN w |-> w[i]]
      <4>1. w \in Seq(U) /\ Len(w) = n + 1 /\ w[n + 1] = y /\ (\A i \in 1..n : w[i] = u[i])
        BY <2>4, <2>6, <2>13
      <4> HIDE DEF w
      <4>2. DOMAIN w = 1..(n + 1) BY <4>1
      <4>3. w = [i \in DOMAIN w |-> w[i]] BY <4>1
      <4> QED BY <4>1, <4>2, <4>3
    <3> HIDE DEF w
    <3>2. \A i \in 1..(n + 1) : i = n + 1 \/ i \in 1..n BY <2>4
    <3>3. \A i \in 1..(n + 1) : v[i] = w[i] BY <2>7, <3>1, <3>2
    <3> QED BY <2>7, <2>8, <3>1, <3>3
  <2>10. FlattenSeq(Append(u, y)) = FlattenSeq(u) \o y BY <2>6, <2>13, FlattenAppend DEF U
  <2>11. Content(FlattenSeq(s), f) = FlattenSeq(u) BY <1>2 DEF ContentEach, u
  <2>12. ContentEach(f, t) BY <2>2, <2>9, <2>10, <2>11 DEF ContentEach, v, y
  <2> QED BY <2>4, <2>12 DEF t
<1>3. Seq(F) \subseteq P
  <2> HIDE DEF F, P
  <2> QED BY <1>1, <1>2, AppendInduction
<1> QED BY <1>3

LEMMA LiteralContent ==
  ASSUME NEW f, NEW x, f \in Seq(Cell), x \in Seq(Cell)
  PROVE  Content(<<Literal(x)>>, f) = x /\ <<Literal(x)>> \in FileParts(f)
<1> DEFINE p == Literal(x)
           T == Part(Cell, f)
           none == <<>>
<1>1. p \in T BY LiteralType DEF FilePart
<1>2. PartCells(p, f) = x BY DEF PartCells, Literal
<1> HIDE DEF p, T
<1>3. none \in Seq(T) /\ Append(none, p) = <<p>> /\ <<p>> \in Seq(T) BY <1>1
<1>4. Content(none, f) = <<>> BY ContentEmpty
<1>5. Content(Append(none, p), f) = Content(none, f) \o PartCells(p, f)
  <2> HIDE DEF none
  <2> QED BY <1>1, <1>3, ContentAppend DEF T
<1>6. <<>> \o x = x OBVIOUS
<1>7. Content(<<p>>, f) = x BY <1>2, <1>3, <1>4, <1>5, <1>6
<1> QED BY <1>3, <1>7 DEF p, T, FileParts, FilePart

\* What the parts of a clip after its head hold.
AttachmentCells(f, src) == IF src.attachments = <<>> THEN <<>> ELSE <<Raw(f, src.attachments[1])>>

ClusterCells(f, clusters, origin) ==
  [i \in DOMAIN clusters |-> newHeader(clusters[i], origin) \o Content(clusters[i].body, f)]

LEMMA AttachmentContent ==
  ASSUME NEW f, NEW src, f \in Seq(Cell), SourceOf(f, src)
  PROVE  /\ Content(AttachmentParts(src), f) = FlattenSeq(AttachmentCells(f, src))
         /\ AttachmentParts(src) \in FileParts(f) /\ AttachmentCells(f, src) \in Seq(Seq(Cell))
<1>1. CASE src.attachments = <<>>
  <2>1. AttachmentParts(src) = <<>> /\ AttachmentCells(f, src) = <<>>
    BY <1>1 DEF AttachmentParts, AttachmentCells
  <2>2. Content(<<>>, f) = <<>> /\ FlattenSeq(<<>>) = <<>> BY ContentEmpty, FlattenEmpty
  <2>3. <<>> \in FileParts(f) BY NothingLaid
  <2>4. <<>> \in Seq(Seq(Cell)) OBVIOUS
  <2> QED BY <2>1, <2>2, <2>3, <2>4
<1>2. CASE src.attachments # <<>>
  <2> DEFINE e == src.attachments[1]
             n == e.to - e.from
             o == e.from
             x == Raw(f, e)
             p == RangeOf(o, n)
             T == Part(Cell, f)
             none == <<>>
  <2>1. e \in FileElem(f) BY <1>2, SourceAttached
  <2>2. e.from \in Nat /\ e.to \in Nat /\ e.from <= e.to /\ e.to <= Len(f) BY <2>1 DEF FileElem, Elem
  <2>3. x \in Seq(Cell) BY <2>1, RawType
  <2> HIDE DEF e
  <2>4. o \in Nat /\ n \in Nat /\ o + n = e.to /\ o + n <= Len(f) BY <2>2
  <2>5. AttachmentParts(src) = <<p>> /\ AttachmentCells(f, src) = <<x>>
    BY <1>2 DEF AttachmentParts, AttachmentsLen, AttachmentCells, e
  <2>6. x = SubSeq(f, o + 1, e.to) BY DEF Raw
  <2>7. x = SubSeq(f, o + 1, o + n)
    <3> HIDE DEF x, n
    <3> QED BY <2>4, <2>6
  <2> HIDE DEF o, n, x
  <2>8. p \in T BY <2>4, RangeType DEF FilePart
  <2>9. PartCells(p, f) = x BY <2>7 DEF PartCells, RangeOf
  <2> HIDE DEF p, T
  <2>10. none \in Seq(T) /\ Append(none, p) = <<p>> /\ <<p>> \in Seq(T) BY <2>8
  <2>11. Content(none, f) = <<>> BY ContentEmpty
  <2>12. Content(Append(none, p), f) = Content(none, f) \o PartCells(p, f)
    <3> HIDE DEF none
    <3> QED BY <2>8, <2>10, ContentAppend DEF T
  <2>13. <<>> \o x = x BY <2>3 DEF x
  <2>14. Content(<<p>>, f) = x BY <2>9, <2>10, <2>11, <2>12, <2>13
  <2>15. x \in Seq(Cell) BY <2>3 DEF x
  <2>16. FlattenSeq(<<x>>) = x BY <2>15, FlattenSingle
  <2> DEFINE U == Seq(Cell)
  <2>17. x \in U BY <2>15
  <2> HIDE DEF U
  <2>18. <<x>> \in Seq(U) BY <2>17
  <2> QED BY <2>5, <2>10, <2>14, <2>16, <2>18 DEF U, T, FileParts, FilePart
<1> QED BY <1>1, <1>2

LEMMA ClusterContent ==
  ASSUME NEW f, NEW clusters, NEW origin, f \in Seq(Cell), clusters \in Seq(CutCluster(f)), origin \in Int
  PROVE  /\ Content(Bodies(clusters, origin), f) = FlattenSeq(ClusterCells(f, clusters, origin))
         /\ ClusterCells(f, clusters, origin) \in Seq(Seq(Cell))
         /\ Len(ClusterCells(f, clusters, origin)) = Len(clusters)
<1> DEFINE g == [i \in DOMAIN clusters |-> <<Literal(newHeader(clusters[i], origin))>> \o clusters[i].body]
           C == CutCluster(f)
           F == FileParts(f)
           U == Seq(Cell)
           n == Len(clusters)
           cells == ClusterCells(f, clusters, origin)
           held == [i \in DOMAIN g |-> Content(g[i], f)]
<1>1. DOMAIN clusters = 1..n /\ n \in Nat /\ clusters \in Seq(C) OBVIOUS
<1>2. ASSUME NEW c \in C
      PROVE  /\ <<Literal(newHeader(c, origin))>> \o c.body \in F
             /\ Content(<<Literal(newHeader(c, origin))>> \o c.body, f) = newHeader(c, origin) \o Content(c.body, f)
             /\ newHeader(c, origin) \o Content(c.body, f) \in U
  <2> DEFINE h == newHeader(c, origin)
             l == <<Literal(h)>>
             y == c.body
  <2>1. h \in Seq(Cell) BY NewHeaderType
  <2>2. Content(l, f) = h /\ l \in F BY <2>1, LiteralContent
  <2>3. y \in F BY DEF CutCluster
  <2> HIDE DEF l, y, F, U
  <2>4. Content(l \o y, f) = Content(l, f) \o Content(y, f) /\ l \o y \in F /\ Content(y, f) \in Seq(Cell)
    BY <2>2, <2>3, ContentConcat DEF F
  <2>5. h \o Content(y, f) \in Seq(Cell)
    <3> HIDE DEF h
    <3> QED BY <2>1, <2>4, ConcatProperties
  <2> QED BY <2>2, <2>4, <2>5 DEF l, y, U
<1>3. Bodies(clusters, origin) = FlattenSeq(g) BY DEF Bodies
<1> HIDE DEF C
<1>4. \A i \in 1..n : clusters[i] \in C BY <1>1
<1>5. \A i \in 1..n : g[i] \in F
  <2> HIDE DEF F
  <2> QED BY <1>1, <1>2, <1>4
<1>6. DOMAIN g = 1..n /\ g = [i \in DOMAIN g |-> g[i]] BY <1>1
<1>7. \A i \in 1..n : g[i] = <<Literal(newHeader(clusters[i], origin))>> \o clusters[i].body BY <1>1
<1>8. /\ DOMAIN cells = 1..n /\ cells = [i \in DOMAIN cells |-> cells[i]]
      /\ \A i \in 1..n : cells[i] = newHeader(clusters[i], origin) \o Content(clusters[i].body, f)
  BY <1>1 DEF ClusterCells
<1> HIDE DEF g
<1>9. g \in [1..n -> F]
  <2> HIDE DEF F
  <2> QED BY <1>5, <1>6
<1>10. g \in Seq(F) BY <1>1, <1>9, FunctionIsSequence
<1>11. Content(FlattenSeq(g), f) = FlattenSeq(held) BY <1>10, ContentFlatten DEF ContentEach
<1> HIDE DEF F, U, cells
<1>12. held = cells
  <2>1. DOMAIN held = 1..n /\ held = [i \in DOMAIN held |-> held[i]] /\ \A i \in 1..n : held[i] = Content(g[i], f)
    BY <1>6
  <2> HIDE DEF held
  <2>2. \A i \in 1..n : Content(g[i], f) = newHeader(clusters[i], origin) \o Content(clusters[i].body, f)
    BY <1>2, <1>4, <1>7
  <2>3. \A i \in 1..n : held[i] = cells[i] BY <1>8, <2>1, <2>2
  <2> QED BY <1>8, <2>1, <2>3
<1>13. \A i \in 1..n : cells[i] \in U BY <1>2, <1>4, <1>8
<1>14. cells \in [1..n -> U] BY <1>8, <1>13
<1>15. cells \in Seq(U) /\ Len(cells) = n BY <1>1, <1>14, FunctionIsSequence
<1> HIDE DEF held
<1> QED BY <1>3, <1>11, <1>12, <1>15 DEF cells, U

RegroupingAll(a, b, c, d, x, y, z) ==
  (((a \o b) \o c) \o d) \o ((x \o y) \o z) = a \o ((((b \o c) \o d) \o x) \o (y \o z))

LEMMA Regrouped ==
  ASSUME NEW T, NEW a, NEW b, NEW c, NEW d, NEW x, NEW y, NEW z, a \in Seq(T), b \in Seq(T), c \in Seq(T),
         d \in Seq(T), x \in Seq(T), y \in Seq(T), z \in Seq(T)
  PROVE  RegroupingAll(a, b, c, d, x, y, z)
<1> DEFINE bc == b \o c
           bcd == bc \o d
           yz == y \o z
           r == x \o yz
<1>1. bc \in Seq(T) /\ yz \in Seq(T) BY ConcatProperties
<1>2. Regrouping(a, b, c) /\ Regrouping(x, y, z) BY Associated
<1>3. (a \o b) \o c = a \o bc /\ (x \o y) \o z = r BY <1>2 DEF Regrouping
<1> HIDE DEF bc, yz
<1>4. bcd \in Seq(T) /\ r \in Seq(T) BY <1>1, ConcatProperties
<1>5. Regrouping(a, bc, d) BY <1>1, Associated
<1>6. (a \o bc) \o d = a \o bcd BY <1>5 DEF Regrouping
<1> HIDE DEF bcd
<1>7. Regrouping(bcd, x, yz) BY <1>1, <1>4, Associated
<1>8. (bcd \o x) \o yz = bcd \o r BY <1>7 DEF Regrouping
<1> HIDE DEF r
<1>9. Regrouping(a, bcd, r) BY <1>4, Associated
<1>10. (a \o bcd) \o r = a \o (bcd \o r) BY <1>9 DEF Regrouping
<1>11. (((a \o b) \o c) \o d) \o ((x \o y) \o z) = a \o ((bcd \o x) \o yz)
  BY <1>3, <1>6, <1>8, <1>10
<1> QED BY <1>11 DEF RegroupingAll, bcd, bc, yz

\* What one sequence after the other has.
Joined(T, x, y) ==
  /\ x \o y \in Seq(T) /\ Len(x \o y) = Len(x) + Len(y) /\ Len(x) \in Nat /\ Len(y) \in Nat
  /\ \A i \in 1..Len(x) : (x \o y)[i] = x[i]
  /\ \A i \in 1..Len(y) : (x \o y)[Len(x) + i] = y[i]

LEMMA ConcatJoins ==
  ASSUME NEW T, NEW x, NEW y, x \in Seq(T), y \in Seq(T)
  PROVE  Joined(T, x, y)
BY DEF Joined

\* The elements of a clip's segment one after the other.
Pieces(f, src, clusters, origin, seeks, infoEl, tracksEl, cuesEl) ==
  (<<seeks, infoEl, tracksEl>> \o AttachmentCells(f, src)) \o (<<cuesEl>> \o ClusterCells(f, clusters, origin))

\* How many are before the clusters.
Tops(src) == IF src.attachments = <<>> THEN 4 ELSE 5

\* Each at its place.
InPlace(f, src, ss, seeks, infoEl, tracksEl, cuesEl, cells) ==
  /\ ss \in Seq(Seq(Cell)) /\ Len(ss) = Tops(src) + Len(cells) /\ Len(cells) \in Nat
  /\ ss[1] = seeks /\ ss[2] = infoEl /\ ss[3] = tracksEl /\ ss[Tops(src)] = cuesEl
  /\ src.attachments # <<>> => ss[4] = Raw(f, src.attachments[1])
  /\ \A i \in 1..Len(cells) : ss[Tops(src) + i] = cells[i]

LEMMA PiecesInPlace ==
  ASSUME NEW f, NEW src, NEW clusters, NEW origin, NEW seeks, NEW infoEl, NEW tracksEl, NEW cuesEl,
         f \in Seq(Cell), SourceOf(f, src), clusters \in Seq(CutCluster(f)), origin \in Int,
         seeks \in Seq(Cell), infoEl \in Seq(Cell), tracksEl \in Seq(Cell), cuesEl \in Seq(Cell)
  PROVE  InPlace(f, src, Pieces(f, src, clusters, origin, seeks, infoEl, tracksEl, cuesEl),
                 seeks, infoEl, tracksEl, cuesEl, ClusterCells(f, clusters, origin))
<1> DEFINE U == Seq(Cell)
           cells == ClusterCells(f, clusters, origin)
           ss == Pieces(f, src, clusters, origin, seeks, infoEl, tracksEl, cuesEl)
           m == Len(cells)
<1>1. cells \in Seq(U) BY ClusterContent
<1>2. seeks \in U /\ infoEl \in U /\ tracksEl \in U /\ cuesEl \in U OBVIOUS
<1> HIDE DEF U, cells
<1>3. m \in Nat /\ DOMAIN cells = 1..m BY <1>1
<1> DEFINE a == <<seeks, infoEl, tracksEl>>
           z == <<cuesEl>> \o cells
<1>4. a \in Seq(U) /\ Len(a) = 3 /\ a[1] = seeks /\ a[2] = infoEl /\ a[3] = tracksEl BY <1>2
<1>5. z \in Seq(U) /\ Len(z) = 1 + m /\ z[1] = cuesEl /\ \A i \in 1..m : z[1 + i] = cells[i] BY <1>1, <1>2
<1> HIDE DEF a, z
<1>6. CASE src.attachments = <<>>
  <2>1. ss = (a \o <<>>) \o z /\ Tops(src) = 4 BY <1>6 DEF Pieces, AttachmentCells, Tops, a, z, cells
  <2>2. a \o <<>> = a BY <1>4
  <2>3. ss \in Seq(U) /\ Len(ss) = 3 + (1 + m) /\ ss[1] = a[1] /\ ss[2] = a[2] /\ ss[3] = a[3]
        /\ \A i \in 1..(1 + m) : ss[3 + i] = z[i]
    <3>1. ss = a \o z BY <2>1, <2>2
    <3>2. Joined(U, a, z) BY <1>4, <1>5, ConcatJoins
    <3>3. /\ ss \in Seq(U) /\ Len(ss) = Len(a) + Len(z)
          /\ (\A i \in 1..Len(a) : ss[i] = a[i])
          /\ (\A i \in 1..Len(z) : ss[Len(a) + i] = z[i])
      BY <3>1, <3>2 DEF Joined
    <3>4. 1 \in 1..3 /\ 2 \in 1..3 /\ 3 \in 1..3 OBVIOUS
    <3> HIDE DEF ss, m
    <3> QED BY <1>4, <1>5, <3>3, <3>4
  <2> HIDE DEF ss
  <2>4. ss[4] = cuesEl
    <3>1. 1 \in 1..(1 + m) /\ 3 + 1 = 4 BY <1>3
    <3> QED BY <1>5, <2>3, <3>1
  <2>5. \A i \in 1..m : ss[4 + i] = cells[i]
    <3>1. \A i \in 1..m : 1 + i \in 1..(1 + m) /\ 3 + (1 + i) = 4 + i BY <1>3
    <3> QED BY <1>5, <2>3, <3>1
  <2>6. 3 + (1 + m) = 4 + m BY <1>3
  <2> QED BY <1>3, <1>4, <1>6, <2>1, <2>3, <2>4, <2>5, <2>6 DEF InPlace, ss, cells, U
<1>7. CASE src.attachments # <<>>
  <2> DEFINE x == Raw(f, src.attachments[1])
             b == a \o <<x>>
  <2>1. ss = b \o z /\ Tops(src) = 5 BY <1>7 DEF Pieces, AttachmentCells, Tops, a, z, cells
  <2>2. x \in U
    <3>1. x \in Seq(Cell) BY <1>7, SourceAttached, RawType
    <3> QED BY <3>1 DEF U
  <2> HIDE DEF x
  <2>3. b \in Seq(U) /\ Len(b) = 4 /\ b[1] = a[1] /\ b[2] = a[2] /\ b[3] = a[3] /\ b[4] = x
    <3> DEFINE y == <<x>>
    <3>1. y \in Seq(U) /\ Len(y) = 1 /\ y[1] = x BY <2>2
    <3> HIDE DEF y
    <3>2. Joined(U, a, y) BY <1>4, <3>1, ConcatJoins
    <3>3. 1 \in 1..3 /\ 2 \in 1..3 /\ 3 \in 1..3 /\ 1 \in 1..1 /\ 3 + 1 = 4 OBVIOUS
    <3>4. /\ b \in Seq(U) /\ Len(b) = Len(a) + Len(y)
          /\ (\A i \in 1..Len(a) : b[i] = a[i])
          /\ (\A i \in 1..Len(y) : b[Len(a) + i] = y[i])
      BY <3>2 DEF Joined, y
    <3> HIDE DEF b
    <3> QED BY <1>4, <3>1, <3>3, <3>4
  <2> HIDE DEF b
  <2>4. ss \in Seq(U) /\ Len(ss) = 4 + (1 + m) /\ ss[1] = b[1] /\ ss[2] = b[2] /\ ss[3] = b[3] /\ ss[4] = b[4]
        /\ \A i \in 1..(1 + m) : ss[4 + i] = z[i]
    <3>2. Joined(U, b, z) BY <1>5, <2>3, ConcatJoins
    <3>3. /\ ss \in Seq(U) /\ Len(ss) = Len(b) + Len(z)
          /\ (\A i \in 1..Len(b) : ss[i] = b[i])
          /\ (\A i \in 1..Len(z) : ss[Len(b) + i] = z[i])
      BY <2>1, <3>2 DEF Joined
    <3>4. 1 \in 1..4 /\ 2 \in 1..4 /\ 3 \in 1..4 /\ 4 \in 1..4 OBVIOUS
    <3> HIDE DEF ss, m
    <3> QED BY <1>5, <2>3, <3>3, <3>4
  <2> HIDE DEF ss
  <2>5. ss[5] = cuesEl
    <3>1. 1 \in 1..(1 + m) /\ 4 + 1 = 5 BY <1>3
    <3> QED BY <1>5, <2>4, <3>1
  <2>6. \A i \in 1..m : ss[5 + i] = cells[i]
    <3>1. \A i \in 1..m : 1 + i \in 1..(1 + m) /\ 4 + (1 + i) = 5 + i BY <1>3
    <3> QED BY <1>5, <2>4, <3>1
  <2>7. 4 + (1 + m) = 5 + m BY <1>3
  <2>8. ss[1] = seeks /\ ss[2] = infoEl /\ ss[3] = tracksEl /\ ss[4] = x BY <1>4, <2>3, <2>4
  <2> HIDE DEF m
  <2>9. Len(ss) = 5 + Len(cells) /\ Len(cells) \in Nat BY <1>3, <2>4, <2>7 DEF m
  <2> QED BY <2>1, <2>4, <2>5, <2>6, <2>8, <2>9 DEF InPlace, ss, cells, x, U, m
<1> QED BY <1>6, <1>7

\* What a clip's cells are.
Makes(f, src, clusters, origin, seeks, infoEl, tracksEl, cuesEl, lead, head) ==
  Content(AppendAll(<<Literal(head)>>,
            (AttachmentParts(src) \o <<Literal(cuesEl)>>) \o Bodies(clusters, origin)), f)
  = lead \o FlattenSeq(Pieces(f, src, clusters, origin, seeks, infoEl, tracksEl, cuesEl))

LEMMA ContentMade ==
  ASSUME NEW f, NEW src, NEW clusters, NEW origin, NEW seeks, NEW infoEl, NEW tracksEl, NEW cuesEl, NEW lead,
         NEW head, f \in Seq(Cell), SourceOf(f, src), clusters \in Seq(CutCluster(f)), origin \in Int,
         seeks \in Seq(Cell), infoEl \in Seq(Cell), tracksEl \in Seq(Cell), cuesEl \in Seq(Cell),
         lead \in Seq(Cell), head = ((lead \o seeks) \o infoEl) \o tracksEl
  PROVE  Makes(f, src, clusters, origin, seeks, infoEl, tracksEl, cuesEl, lead, head)
<1> DEFINE U == Seq(Cell)
           F == FileParts(f)
           cells == ClusterCells(f, clusters, origin)
           atts == AttachmentCells(f, src)
           ap == AttachmentParts(src)
           lp == <<Literal(cuesEl)>>
           bp == Bodies(clusters, origin)
           hp == <<Literal(head)>>
           a == <<seeks, infoEl, tracksEl>>
<1>1. cells \in Seq(U) /\ Content(bp, f) = FlattenSeq(cells) /\ bp \in F BY ClusterContent, BodiesType
<1>2. atts \in Seq(U) /\ Content(ap, f) = FlattenSeq(atts) /\ ap \in F BY AttachmentContent
<1>3. Content(lp, f) = cuesEl /\ lp \in F BY LiteralContent
<1>4. \A x, y \in U : x \o y \in U BY ConcatProperties
<1>5. head \in Seq(Cell) BY <1>4
<1>6. hp \in Laid(f) /\ Content(hp, f) = head /\ hp \in F
  <2>1. Literal(head) \in Placed(Cell, f) BY <1>5, LiteralType
  <2> DEFINE T == Placed(Cell, f)
  <2> HIDE DEF T
  <2>2. <<Literal(head)>> \in Seq(T) BY <2>1 DEF T
  <2>3. Content(hp, f) = head /\ hp \in F BY <1>5, LiteralContent
  <2> QED BY <2>2, <2>3 DEF Laid, T
<1> HIDE DEF F, ap, lp, bp, hp
<1>7. Content(ap \o lp, f) = Content(ap, f) \o cuesEl /\ ap \o lp \in F BY <1>2, <1>3, ContentConcat DEF F
<1> DEFINE more == (ap \o lp) \o bp
<1>8. Content(more, f) = Content(ap \o lp, f) \o Content(bp, f) /\ more \in F
  <2> DEFINE x == ap \o lp
  <2>1. x \in F BY <1>7
  <2> HIDE DEF x
  <2> QED BY <1>1, <2>1, ContentConcat DEF F, x
<1> HIDE DEF more
<1>9. Content(AppendAll(hp, more), f) = head \o Content(more, f)
  <2>1. hp \in Seq(Placed(Cell, f)) /\ more \in Seq(Part(Cell, f)) BY <1>6, <1>8 DEF Laid, F, FileParts, FilePart
  <2>2. Content(AppendAll(hp, more), f) = Content(hp, f) \o Content(more, f) BY <2>1, AppendAllFacts
  <2> QED BY <1>6, <2>2
<1>10. Content(more, f) = (FlattenSeq(atts) \o cuesEl) \o FlattenSeq(cells) BY <1>1, <1>2, <1>7, <1>8
<1>11. seeks \in U /\ infoEl \in U /\ tracksEl \in U /\ cuesEl \in U /\ lead \in U OBVIOUS
<1>12. FlattenSeq(atts) \in U /\ FlattenSeq(cells) \in U BY <1>1, <1>2, FlattenType
<1> HIDE DEF atts, cells
<1> DEFINE xa == FlattenSeq(atts)
           xc == FlattenSeq(cells)
           x3 == (seeks \o infoEl) \o tracksEl
<1>13. FlattenSeq(a) = x3
  <2> HIDE DEF U
  <2>1. /\ <<seeks>> \in Seq(U) /\ <<seeks, infoEl>> = Append(<<seeks>>, infoEl)
        /\ <<seeks, infoEl>> \in Seq(U) /\ a = Append(<<seeks, infoEl>>, tracksEl)
    BY <1>11
  <2>2. FlattenSeq(<<seeks>>) = seeks BY <1>11, FlattenSingle DEF U
  <2>3. FlattenSeq(Append(<<seeks>>, infoEl)) = seeks \o infoEl BY <1>11, <2>1, <2>2, FlattenAppend DEF U
  <2>4. FlattenSeq(Append(<<seeks, infoEl>>, tracksEl)) = FlattenSeq(<<seeks, infoEl>>) \o tracksEl
    BY <1>11, <2>1, FlattenAppend DEF U
  <2> QED BY <2>1, <2>3, <2>4
<1>14. FlattenSeq(a \o atts) = x3 \o xa /\ a \in Seq(U) /\ a \o atts \in Seq(U)
  <2> HIDE DEF U
  <2>1. a \in Seq(U) BY <1>11
  <2>2. a \o atts \in Seq(U) BY <1>2, <2>1, ConcatProperties
  <2> HIDE DEF a
  <2>3. FlattenSeq(a \o atts) = FlattenSeq(a) \o FlattenSeq(atts) 
    <3>1. a \in Seq(Seq(Cell)) /\ atts \in Seq(Seq(Cell)) BY <1>2, <2>1 DEF U
    <3> QED BY <3>1, FlattenConcat
  <2> QED BY <1>13, <2>1, <2>2, <2>3
<1> DEFINE c == <<cuesEl>>
<1>15. FlattenSeq(c \o cells) = cuesEl \o xc /\ c \o cells \in Seq(U)
  <2> HIDE DEF U
  <2>1. c \in Seq(U) BY <1>11
  <2>2. c \o cells \in Seq(U) BY <1>1, <2>1, ConcatProperties
  <2>3. FlattenSeq(c) = cuesEl BY <1>11, FlattenSingle DEF U
  <2> HIDE DEF c
  <2>4. FlattenSeq(c \o cells) = FlattenSeq(c) \o FlattenSeq(cells) 
    <3>1. c \in Seq(Seq(Cell)) /\ cells \in Seq(Seq(Cell)) BY <1>1, <2>1 DEF U
    <3> QED BY <3>1, FlattenConcat
  <2> QED BY <2>2, <2>3, <2>4
<1> DEFINE ss == Pieces(f, src, clusters, origin, seeks, infoEl, tracksEl, cuesEl)
<1>16. ss = (a \o atts) \o (c \o cells) BY DEF Pieces, atts, cells
<1> HIDE DEF a, c, ss
<1>17. FlattenSeq(ss) = (x3 \o xa) \o (cuesEl \o xc)
  <2> DEFINE x == a \o atts
             y == c \o cells
  <2>1. x \in Seq(U) /\ y \in Seq(U) BY <1>14, <1>15
  <2> HIDE DEF x, y
  <2>2. FlattenSeq(x \o y) = FlattenSeq(x) \o FlattenSeq(y) BY <2>1, FlattenConcat
  <2> QED BY <1>14, <1>15, <1>16, <2>2 DEF x, y
<1> HIDE DEF xa, xc
<1>18. xa \in U /\ xc \in U BY <1>12 DEF xa, xc
<1>20. head \o ((xa \o cuesEl) \o xc) = lead \o ((x3 \o xa) \o (cuesEl \o xc))
  <2>1. RegroupingAll(lead, seeks, infoEl, tracksEl, xa, cuesEl, xc) BY <1>11, <1>18, Regrouped DEF U
  <2> QED BY <2>1 DEF RegroupingAll
<1> HIDE DEF x3
<1>21. Content(AppendAll(hp, more), f) = lead \o FlattenSeq(ss) BY <1>9, <1>10, <1>17, <1>20 DEF xa, xc
<1> QED BY <1>21 DEF hp, more, ap, lp, bp, ss, Makes

LEMMA ShapedType ==
  ASSUME NEW f, NEW src, NEW clusters, NEW origin, NEW endT, NEW parts, NEW info, NEW tracks, NEW pos,
         f \in Seq(Cell), SourceOf(f, src), clusters \in Seq(CutCluster(f)), origin \in Int,
         Shaped(src, clusters, origin, endT, parts, info, tracks, pos)
  PROVE  parts \in Laid(f)
<1> DEFINE cuesEl == cuesElement(src, clusters, pos, origin, endT)
           n == Len(clusters)
           infoPos == Len(seekHead(SeekPlaces(src, 0, 0, 0, 0)))
           tracksPos == infoPos + Len(AppendElement("Info", info))
           attPos == tracksPos + Len(AppendElement("Tracks", tracks))
           cuesPos == attPos + AttachmentsLen(src)
           seeks == seekHead(SeekPlaces(src, infoPos, tracksPos, cuesPos, attPos))
           head == src.ebmlHeader \o AppendSizeWidth("Segment", pos[n + 1], Wide) \o seeks
                     \o AppendElement("Info", info) \o AppendElement("Tracks", tracks)
           F == FileParts(f)
           ap == AttachmentParts(src)
           lp == <<Literal(cuesEl)>>
           bp == Bodies(clusters, origin)
           hp == <<Literal(head)>>
<1>1. /\ head \in Seq(Cell) /\ cuesEl \in Seq(Cell)
      /\ parts = AppendAll(hp, (ap \o lp) \o bp)
  BY DEF Shaped
<1> HIDE DEF head, cuesEl
<1>2. Literal(head) \in Placed(Cell, f) BY <1>1, LiteralType
<1>3. hp \in Laid(f) BY <1>2 DEF Laid
<1>4. lp \in F BY <1>1, LiteralContent
<1>5. ap \in F BY AttachmentContent
<1>6. bp \in F BY BodiesType
<1> HIDE DEF ap, lp, bp, hp
<1>7. ap \o lp \in F /\ (ap \o lp) \o bp \in F BY <1>4, <1>5, <1>6, ConcatProperties DEF FileParts
<1> DEFINE more == (ap \o lp) \o bp
<1>8. more \in F BY <1>7
<1> HIDE DEF more
<1>9. AppendAll(hp, more) \in Laid(f) BY <1>3, <1>8, AllLaid
<1> QED BY <1>1, <1>9 DEF more

LEMMA AssembleType ==
  ASSUME NEW f, NEW src, NEW clusters, NEW origin, NEW endT, NEW title,
         f \in Seq(Cell), SourceOf(f, src), clusters \in Seq(CutCluster(f)), origin \in Int, endT \in Int,
         title \in Cell
  PROVE  /\ assemble(f, src, clusters, origin, endT, title) \in Laid(f)
         /\ Shape(src, clusters, origin, endT, assemble(f, src, clusters, origin, endT, title))
<1> DEFINE made == assemble(f, src, clusters, origin, endT, title)
           F == FileParts(f)
<1>1. Shape(src, clusters, origin, endT, made) BY AssembleShape
<1> HIDE DEF made
<1>2. PICK info, tracks, pos : Shaped(src, clusters, origin, endT, made, info, tracks, pos)
  BY <1>1 DEF Shape
<1>3. made \in Laid(f) BY <1>2, ShapedType
<1> QED BY <1>1, <1>3 DEF made

LEMMA RebasedType ==
  ASSUME NEW f, NEW c, NEW blocks, NEW base, f \in Seq(Cell), blocks \in Blocks(f), base \in Int
  PROVE  rebased(f, c, blocks, base).parts \in FileParts(f)
<1>1. rebasedParts(f, blocks, base).parts \in FileParts(f) BY RebasedPartsType, LaidAreParts
<1>2. blockParts(blocks) \in FileParts(f) BY BlockPartsType, LaidAreParts
<1> DEFINE p == blockParts(blocks)
           r == rebasedParts(f, blocks, base)
<1>3. rebased(f, c, blocks, base) = IF c.timestamp = base THEN [ok |-> TRUE, parts |-> p] ELSE r
  BY DEF rebased
<1> HIDE DEF p, r
<1>4. p \in FileParts(f) /\ r.parts \in FileParts(f) BY <1>1, <1>2 DEF p, r
<1> QED BY <1>3, <1>4

\* A row of clusters without an error, each but the last one before another cluster.
Intactly(f, clusters) ==
  \A i \in 1..Len(clusters) :
    /\ clusters[i] \in FileCluster(f) /\ clusters[i].ok
    /\ i < Len(clusters) => clusters[i].end <= Len(f)

LEMMA LinedIntactly ==
  ASSUME NEW f, NEW clusters, NEW p, f \in Seq(Cell), Lined(f, clusters, p),
         ~(\E i \in DOMAIN clusters : ~clusters[i].ok)
  PROVE  Intactly(f, clusters) /\ clusters \in Seq(FileCluster(f))
<1> DEFINE T == FileCluster(f)
<1>1. /\ clusters \in Seq(T)
      /\ \A i, j \in 1..Len(clusters) : i < j => clusters[i].end <= clusters[j].off
  BY DEF Lined
<1>2. \A c \in T : c.end \in Int /\ c.off \in Nat /\ (c.ok => c.off < Len(f)) BY DEF FileCluster
<1>3. \A c \in T : c.end \in Int /\ c.off \in Nat /\ (c.ok => c.off < Len(f)) BY <1>2
<1> HIDE DEF T
<1>4. \A i \in 1..Len(clusters) : clusters[i] \in T /\ clusters[i].ok BY <1>1
<1>5. Len(f) \in Nat /\ Len(clusters) \in Nat BY <1>1
<1>6. ASSUME NEW i \in 1..Len(clusters), i < Len(clusters) PROVE clusters[i].end <= Len(f)
  <2>1. i + 1 \in 1..Len(clusters) /\ i < i + 1 BY <1>5, <1>6
  <2>2. clusters[i].end <= clusters[i + 1].off BY <1>1, <2>1
  <2>3. clusters[i].end \in Int /\ clusters[i + 1].off \in Nat /\ clusters[i + 1].off < Len(f)
    BY <1>3, <1>4, <2>1
  <2> DEFINE e == clusters[i].end
             o == clusters[i + 1].off
  <2>4. e \in Int /\ o \in Nat /\ o < Len(f) /\ e <= o BY <2>2, <2>3
  <2> HIDE DEF e, o
  <2>5. e <= Len(f) BY <1>5, <2>4
  <2> QED BY <2>5 DEF e
<1> QED BY <1>1, <1>4, <1>6 DEF Intactly, T

LEMMA CutClustersType ==
  ASSUME NEW f, NEW clusters, NEW firstParts, NEW lastBlocks, NEW src, NEW base, NEW endT,
         f \in Seq(Cell), clusters \in Seq(FileCluster(f)), Intactly(f, clusters),
         firstParts \in FileParts(f), lastBlocks \in Blocks(f), base \in Int
  PROVE  cutClusters(clusters, firstParts, lastBlocks, src, base, endT) \in Seq(CutCluster(f))
<1> DEFINE n == Len(clusters)
           last == blockParts(keepUntil(lastBlocks, src.video, endT))
           whole(c) == <<RangeOf(c.blocks, c.end - c.blocks)>>
           cut(i) == [off |-> clusters[i].off, timestamp |-> IF i = 1 THEN base ELSE clusters[i].timestamp,
                      body |-> IF i = 1 THEN firstParts ELSE IF i = n THEN last ELSE whole(clusters[i])]
           g == [i \in 1..n |-> cut(i)]
           W == CutCluster(f)
           F == FileParts(f)
<1>1. n \in Nat
  <2> DEFINE T == FileCluster(f)
  <2>1. clusters \in Seq(T) OBVIOUS
  <2> HIDE DEF T
  <2> QED BY <2>1
<1>2. cutClusters(clusters, firstParts, lastBlocks, src, base, endT) = g BY DEF cutClusters
<1>3. last \in F
  <2>1. keepUntil(lastBlocks, src.video, endT) \in Blocks(f) BY KeptType
  <2> QED BY <2>1, BlockPartsType, LaidAreParts
<1> HIDE DEF last
<1>4. ASSUME NEW c \in FileCluster(f), c.ok, c.end <= Len(f) PROVE whole(c) \in F
  <2> DEFINE o == c.blocks
             m == c.end - c.blocks
  <2>1. c.blocks \in Int /\ c.end \in Int /\ 0 <= c.blocks /\ c.blocks <= c.end BY <1>4 DEF FileCluster
  <2>2. o \in Nat /\ m \in Nat /\ o + m <= Len(f)
    <3>1. Len(f) \in Nat OBVIOUS
    <3> QED BY <1>4, <2>1, <3>1
  <2> HIDE DEF o, m
  <2>3. RangeOf(o, m) \in FilePart(f) BY <2>2, RangeType
  <2>4. <<RangeOf(o, m)>> \in F BY <2>3 DEF FileParts
  <2> QED BY <2>4 DEF o, m
<1>5. \A c \in FileCluster(f) : c.off \in Nat /\ c.timestamp \in Int BY DEF FileCluster
<1> HIDE DEF whole
<1>6. ASSUME NEW i \in 1..n PROVE cut(i) \in W
  <2> DEFINE c == clusters[i]
             b == IF i = 1 THEN firstParts ELSE IF i = n THEN last ELSE whole(c)
  <2>1. c \in FileCluster(f) /\ c.ok /\ (i < n => c.end <= Len(f)) BY DEF Intactly
  <2>2. i # n => i < n BY <1>1
  <2> HIDE DEF c, n
  <2>3. i # n => whole(c) \in F BY <1>4, <2>1, <2>2
  <2>4. b \in F BY <1>3, <2>3
  <2>5. c.off \in Nat /\ (IF i = 1 THEN base ELSE c.timestamp) \in Int BY <1>5, <2>1
  <2> HIDE DEF b
  <2>6. [off |-> c.off, timestamp |-> IF i = 1 THEN base ELSE c.timestamp, body |-> b] \in W
    BY <2>4, <2>5 DEF CutCluster
  <2> QED BY <2>6 DEF b, c
<1>7. g \in [1..n -> W]
  <2> HIDE DEF cut, W
  <2> QED BY <1>6
<1> HIDE DEF g, W
<1>8. g \in Seq(W) BY <1>1, <1>7, FunctionIsSequence
<1> QED BY <1>2, <1>8 DEF W

\* Parts that are put together as the clip of some clusters of src.
ShapeOf(f, src, parts) ==
  \E clusters \in Seq(CutCluster(f)) : \E origin, endT \in Int :
    clusters # <<>> /\ Shape(src, clusters, origin, endT, parts)

\* A clip of src that is built has the parts of a layout of f, put together like this.
Fits(f, src, built) ==
  built.ok => SourceOf(f, src) /\ built.parts \in Laid(f) /\ ShapeOf(f, src, built.parts)

LEMMA FailedFits ==
  ASSUME NEW f, NEW src
  PROVE  Fits(f, src, Failed)
BY DEF Fits, Failed

LEMMA AssembledClipFits ==
  ASSUME NEW f, NEW src, NEW clusters, NEW first, NEW lastBlocks, NEW base, NEW endT, NEW title,
         f \in Seq(Cell), SourceOf(f, src), clusters \in Seq(FileCluster(f)), Intactly(f, clusters),
         clusters # <<>>, first.parts \in FileParts(f), lastBlocks \in Blocks(f), base \in Int, endT \in Int,
         title \in Cell
  PROVE  Fits(f, src, assembledClip(f, src, clusters, first, lastBlocks, base, endT, title))
<1> DEFINE cs == cutClusters(clusters, first.parts, lastBlocks, src, base, endT)
           parts == assemble(f, src, cs, base, endT, title)
           clip == assembledClip(f, src, clusters, first, lastBlocks, base, endT, title)
<1>1. cs \in Seq(CutCluster(f)) BY CutClustersType
<1>5. cs # <<>>
  <2>1. DOMAIN cs = 1..Len(clusters) BY DEF cutClusters
  <2>2. 1 \in 1..Len(clusters)
    <3> DEFINE T == FileCluster(f)
    <3>1. clusters \in Seq(T) /\ clusters # <<>> OBVIOUS
    <3> HIDE DEF T, cs
    <3> QED BY <3>1
  <2> HIDE DEF cs
  <2> QED BY <2>1, <2>2
<1>2. clip = Failed \/ clip = [ok |-> TRUE, start |-> base, end |-> endT, parts |-> parts] BY DEF assembledClip
<1> HIDE DEF cs, clip
<1>3. parts \in Laid(f) /\ Shape(src, cs, base, endT, parts) BY <1>1, AssembleType
<1> HIDE DEF parts
<1>6. ShapeOf(f, src, parts) BY <1>1, <1>3, <1>5 DEF ShapeOf
<1>4. Fits(f, src, clip) BY <1>2, <1>3, <1>6, FailedFits DEF Fits
<1> QED BY <1>4 DEF clip

LEMMA FilteredClipFits ==
  ASSUME NEW f, NEW src, NEW clusters, NEW firstBlocks, NEW lastBlocks, NEW base, NEW endT, NEW title,
         f \in Seq(Cell), SourceOf(f, src), clusters \in Seq(FileCluster(f)), Intactly(f, clusters), clusters # <<>>,
         firstBlocks \in Blocks(f), lastBlocks \in Blocks(f), base \in Int, endT \in Int, title \in Cell
  PROVE  Fits(f, src, filteredClip(f, src, clusters, firstBlocks, lastBlocks, base, endT, title))
<1> DEFINE kept == keepFrom(firstBlocks, src.video, base)
           keep == IF Len(clusters) = 1 THEN keepUntil(kept, src.video, endT) ELSE kept
           first == rebased(f, clusters[1], keep, base)
<1>1. kept \in Blocks(f) BY KeptType
<1> HIDE DEF kept
<1>2. keepUntil(kept, src.video, endT) \in Blocks(f) BY <1>1, KeptType
<1>3. keep \in Blocks(f) BY <1>1, <1>2
<1>4. filteredClip(f, src, clusters, firstBlocks, lastBlocks, base, endT, title)
        = assembledClip(f, src, clusters, first, lastBlocks, base, endT, title)
  BY DEF filteredClip, kept
<1> HIDE DEF keep
<1>5. first.parts \in FileParts(f) BY <1>3, RebasedType
<1> HIDE DEF first
<1>6. Fits(f, src, assembledClip(f, src, clusters, first, lastBlocks, base, endT, title))
  BY <1>5, AssembledClipFits
<1> QED BY <1>4, <1>6

LEMMA ClipFromFits ==
  ASSUME NEW f, NEW src, NEW clusters, NEW p, NEW base, NEW endT, NEW title,
         f \in Seq(Cell), SourceOf(f, src), Lined(f, clusters, p), base \in Int, endT \in Int, title \in Cell
  PROVE  Fits(f, src, clipFrom(f, src, clusters, base, endT, title))
<1> DEFINE first == readBlocks(f, clusters[1])
           last == readBlocks(f, Last(clusters))
           clip == clipFrom(f, src, clusters, base, endT, title)
<1>1. CASE clusters = <<>> \/ (\E i \in DOMAIN clusters : ~clusters[i].ok) \/ ~first.ok \/ ~last.ok
  <2>1. clip = Failed BY <1>1 DEF clipFrom
  <2> HIDE DEF clip
  <2>2. Fits(f, src, clip) BY <2>1, FailedFits
  <2> QED BY <2>2 DEF clip
<1>2. CASE ~(clusters = <<>> \/ (\E i \in DOMAIN clusters : ~clusters[i].ok) \/ ~first.ok \/ ~last.ok)
  <2>1. clip = filteredClip(f, src, clusters, first.blocks, last.blocks, base, endT, title)
    BY <1>2 DEF clipFrom
  <2>2. Intactly(f, clusters) /\ clusters \in Seq(FileCluster(f)) BY <1>2, LinedIntactly
  <2> DEFINE T == FileCluster(f)
             a == clusters[1]
             z == Last(clusters)
  <2>3. clusters \in Seq(T) /\ clusters # <<>> BY <1>2, <2>2
  <2> HIDE DEF T
  <2>4. 1 \in 1..Len(clusters) /\ Len(clusters) \in 1..Len(clusters) BY <2>3
  <2>5. z = clusters[Len(clusters)] BY DEF Last
  <2>6. a \in FileCluster(f) /\ a.ok /\ z \in FileCluster(f) /\ z.ok BY <2>2, <2>4, <2>5 DEF Intactly
  <2>7. first = readBlocks(f, a) /\ last = readBlocks(f, z) OBVIOUS
  <2>8. first.ok /\ last.ok BY <1>2
  <2> HIDE DEF a, z, first, last, clip
  <2>9. first.blocks \in Blocks(f) /\ last.blocks \in Blocks(f)
    BY <2>6, <2>7, <2>8, ReadBlocksType DEF Blocks
  <2> DEFINE fb == first.blocks
             lb == last.blocks
  <2>10. fb \in Blocks(f) /\ lb \in Blocks(f) BY <2>9
  <2> HIDE DEF fb, lb
  <2>11. Fits(f, src, filteredClip(f, src, clusters, fb, lb, base, endT, title)) BY <2>2, <2>3, <2>10, FilteredClipFits
  <2>12. Fits(f, src, clip) BY <2>1, <2>11 DEF fb, lb
  <2> QED BY <2>12 DEF clip
<1> QED BY <1>1, <1>2

LEMMA KeyCueType ==
  ASSUME NEW cues, NEW start, cues \in Seq(Cue), cues # <<>>
  PROVE  keyCue(cues, start) \in Cue
<1> DEFINE before == {i \in DOMAIN cues : cues[i].time <= start}
           n == Len(cues)
<1>1. n \in Nat /\ DOMAIN cues = 1..n /\ 1 \in 1..n /\ \A i \in 1..n : cues[i] \in Cue
  <2> DEFINE T == Cue
  <2>1. cues \in Seq(T) OBVIOUS
  <2> HIDE DEF T
  <2>2. n \in Nat /\ DOMAIN cues = 1..n /\ 1 \in 1..n /\ \A i \in 1..n : cues[i] \in T BY <2>1
  <2> QED BY <2>2 DEF T
<1>2. before \subseteq 0..n /\ before \subseteq 1..n BY <1>1
<1>3. keyCue(cues, start) = IF before = {} THEN cues[1] ELSE cues[Max(before)] BY DEF keyCue
<1> HIDE DEF before, n
<1>4. CASE before = {} BY <1>1, <1>3, <1>4
<1>5. CASE before # {}
  <2>1. Max(before) \in before BY <1>1, <1>2, <1>5, GreatestNumber
  <2> QED BY <1>1, <1>2, <1>3, <1>5, <2>1
<1> QED BY <1>4, <1>5

\* BuildClip, for any file of cells and any request: a clip that is built is a layout that
\* fits the file.  Wherever the file ends and whatever its sizes, positions and index say,
\* no part reaches past its end.
THEOREM ClipsFit ==
  ASSUME NEW f, NEW src, NEW start, NEW end, NEW title,
         f \in Seq(Cell), SourceOf(f, src), end \in Nat, title \in Cell
  PROVE  Fits(f, src, BuildClip(f, src, start, end, title))
<1> DEFINE endT == IF src.duration > 0 /\ src.duration < end THEN src.duration ELSE end
           key == keyCue(src.cues, start)
           clusters == collectClusters(f, src, key.off, endT)
           clip == BuildClip(f, src, start, end, title)
<1>1. /\ src.duration \in Nat /\ src.cues \in Seq(Cue) /\ src.cues # <<>> /\ src.segEnd \in Nat
  BY DEF SourceOf
<1>2. key \in Cue BY <1>1, KeyCueType
<1>3. clip = Failed \/ clip = clipFrom(f, src, clusters, key.time, endT, title) BY DEF BuildClip
<1>4. endT \in Int BY <1>1
<1> HIDE DEF key, endT, clip
<1>5. key.off \in Nat /\ key.time \in Int BY <1>2 DEF Cue
<1> DEFINE o == key.off
           t == key.time
<1>6. o \in Nat /\ t \in Int BY <1>5
<1>7. clusters = collectClusters(f, src, o, endT) OBVIOUS
<1> HIDE DEF o, clusters
<1>8. Lined(f, clusters, o) BY <1>1, <1>6, <1>7, CollectedLined
<1> HIDE DEF t
<1>9. Fits(f, src, clipFrom(f, src, clusters, t, endT, title)) BY <1>4, <1>6, <1>8, ClipFromFits
<1>10. Fits(f, src, clip) BY <1>3, <1>9, FailedFits DEF t
<1> QED BY <1>10 DEF clip
-----------------------------------------------------------------------------
(* The sizes and positions in a clip.                                        *)

LEMMA ClusterFramed ==
  ASSUME NEW b, NEW f, NEW c, NEW origin, b \in Seq(Cell), f \in Seq(Cell), c \in CutCluster(f), origin \in Int,
         Small(b)
  PROVE  /\ Framed(b, newHeader(c, origin) \o Content(c.body, f), "Cluster")
         /\ Len(newHeader(c, origin) \o Content(c.body, f)) = Len(newHeader(c, origin)) + PartsLen(c.body)
<1> DEFINE d == c.timestamp - origin
           ts == AppendUint("Timestamp", d)
           body == Content(c.body, f)
           m == Len(ts) + PartsLen(c.body)
           h == AppendSizeWidth("Cluster", m, Wide)
           data == ts \o body
           head == newHeader(c, origin)
<1>1. c.timestamp \in Int /\ c.body \in FileParts(f) BY DEF CutCluster
<1>2. d \in Int BY <1>1
<1>3. {"Timestamp", "Cluster"} \subseteq Ids /\ "Cluster" # "bad" BY DEF Ids
<1>0. head = h \o ts BY DEF newHeader
<1> HIDE DEF d
<1>4. ts \in Seq(Cell) BY <1>2, <1>3, UintType
<1> HIDE DEF ts
<1>5. body \in Seq(Cell) BY <1>1, ContentType DEF FileParts, FilePart
<1>6. PartsLen(c.body) = Len(body) BY <1>1, PartsLenContent DEF FileParts, FilePart
<1>16. head \in Seq(Cell) BY NewHeaderType
<1> HIDE DEF body, head
<1>7. data \in Seq(Cell) /\ Len(data) = Len(ts) + Len(body) /\ Len(data) \in Nat /\ Len(head \o body) = Len(head) + Len(body)
  <2>1. data \in Seq(Cell) /\ Len(data) = Len(ts) + Len(body) BY <1>4, <1>5, ConcatProperties
  <2>2. Len(head \o body) = Len(head) + Len(body) BY <1>5, <1>16, ConcatProperties
  <2> HIDE DEF data
  <2>3. Len(data) \in Nat BY <2>1
  <2> QED BY <2>1, <2>2, <2>3
<1>8. m = Len(data) BY <1>6, <1>7
<1> HIDE DEF m
<1>9. h \in Seq(Cell)
  <2>1. m \in Int /\ Wide \in Nat /\ Wide > 0 BY <1>7, <1>8, EbmlAssumption
  <2> QED BY <1>3, <2>1, SizeHeaderType
<1>10. h = AppendSizeWidth("Cluster", Len(data), Wide) BY <1>8
<1> HIDE DEF h
<1>11. Regrouping(h, ts, body) BY <1>4, <1>5, <1>9, Associated
<1>12. (h \o ts) \o body = h \o data BY <1>11 DEF Regrouping
<1> HIDE DEF data
<1>13. Framed(b, AppendSizeWidth("Cluster", Len(data), Wide) \o data, "Cluster") BY <1>3, <1>7, FramedWide
<1>14. head \o body = AppendSizeWidth("Cluster", Len(data), Wide) \o data BY <1>0, <1>10, <1>12
<1> QED BY <1>6, <1>7, <1>13, <1>14 DEF head, body

AllFramed(b, ss, ids) == \A i \in 1..Len(ss) : Framed(b, ss[i], ids[i]) /\ ids[i] # "bad"

\* Where each element of a clip starts.
StartsAt(src, ss, a, b, c, d, z) ==
  /\ Start(ss, 1) = 0 /\ Start(ss, 2) = a /\ Start(ss, 3) = b /\ Start(ss, 4) = c
  /\ Start(ss, Tops(src)) = d /\ Start(ss, Tops(src) + 1) = z

LEMMA StartInside ==
  ASSUME NEW ss, NEW i, ss \in Seq(Seq(Cell)), i \in 1..Len(ss)
  PROVE  Start(ss, i) \in Nat /\ Start(ss, i) <= Len(FlattenSeq(ss))
<1> DEFINE n == Len(ss)
           z == Len(FlattenSeq(ss))
           S == {j \in 1..(n + 1) : Start(ss, j) \in Nat /\ Start(ss, j) <= z}
<1>1. n \in Nat /\ i \in 1..n OBVIOUS
<1>2. Start(ss, n + 1) = z BY StartEnds
<1>3. \A j \in 1..n : Start(ss, j) \in Nat /\ Start(ss, j + 1) \in Nat /\ Start(ss, j) <= Start(ss, j + 1)
  <2> SUFFICES ASSUME NEW j \in 1..n
               PROVE  Start(ss, j) \in Nat /\ Start(ss, j + 1) \in Nat /\ Start(ss, j) <= Start(ss, j + 1)
    OBVIOUS
  <2>1. Starts(ss, j) BY StartStep
  <2> DEFINE m == Len(ss[j])
  <2>2. m \in Nat BY <2>1 DEF Starts
  <2>3. Start(ss, j) \in Nat /\ Start(ss, j + 1) \in Nat /\ Start(ss, j + 1) = Start(ss, j) + m BY <2>1 DEF Starts
  <2> HIDE DEF m
  <2> QED BY <2>2, <2>3
<1>4. z \in Nat
  <2>1. FlattenSeq(ss) \in Seq(Cell) BY FlattenType
  <2> QED BY <2>1
<1> HIDE DEF n, z
<1>5. \A j \in 1..(n + 1) : j < n + 1 /\ j + 1 \in S => j \in S
  <2> SUFFICES ASSUME NEW j \in 1..(n + 1), j < n + 1, j + 1 \in S PROVE j \in S
    OBVIOUS
  <2>1. j \in 1..n BY <1>1
  <2>2. Start(ss, j + 1) <= z BY DEF S
  <2>3. Start(ss, j) \in Nat /\ Start(ss, j + 1) \in Nat /\ Start(ss, j) <= Start(ss, j + 1) BY <1>3, <2>1
  <2> QED BY <1>4, <2>2, <2>3
<1>6. n + 1 \in S BY <1>1, <1>2, <1>4
<1> DEFINE k == n + 1
<1>7. \A j \in 1..k : (j + 1)..k \subseteq S => j \in S
  <2> SUFFICES ASSUME NEW j \in 1..k, (j + 1)..k \subseteq S PROVE j \in S
    OBVIOUS
  <2>1. j = k \/ (j < k /\ j + 1 \in (j + 1)..k) BY <1>1
  <2> HIDE DEF S
  <2> QED BY <1>5, <1>6, <2>1
<1>8. 1 \in Int /\ k \in Int /\ i \in 1..k BY <1>1
<1> HIDE DEF S, k
<1>9. 1..k \subseteq S BY <1>7, <1>8, DownwardInduction
<1> QED BY <1>8, <1>9 DEF S, z

\* The clusters are at their positions.
EndsAt(pos, n, ss) ==
  /\ pos[n + 1] = Len(FlattenSeq(ss))
  /\ \A i \in 1..n : pos[i] \in Nat /\ pos[i] <= Len(FlattenSeq(ss))

LEMMA ClusterStarts ==
  ASSUME NEW ss, NEW cells, NEW k, NEW pos, ss \in Seq(Seq(Cell)), k \in Nat, Len(cells) \in Nat,
         Len(ss) = k + Len(cells), \A i \in 1..Len(cells) : ss[k + i] = cells[i],
         pos[1] = Start(ss, k + 1),
         \A i \in 1..Len(cells) : pos[i + 1] = pos[i] + Len(cells[i])
  PROVE  EndsAt(pos, Len(cells), ss)
<1> DEFINE n == Len(cells)
           S == {i \in 1..(n + 1) : pos[i] = Start(ss, k + i)}
<1>1. n \in Nat /\ Len(ss) = k + n /\ k \in Nat OBVIOUS
<1>2. \A i \in 1..n : ss[k + i] = cells[i] /\ pos[i + 1] = pos[i] + Len(cells[i]) OBVIOUS
<1> HIDE DEF n
<1>3. ASSUME NEW i \in 1..n, i \in S PROVE i + 1 \in S
  <2> DEFINE j == k + i
  <2>1. j \in 1..Len(ss) /\ j + 1 = k + (i + 1) /\ i + 1 \in 1..(n + 1) BY <1>1
  <2>2. pos[i] = Start(ss, j) /\ ss[j] = cells[i] /\ pos[i + 1] = pos[i] + Len(cells[i]) BY <1>2, <1>3
  <2> HIDE DEF j
  <2>3. Starts(ss, j) BY <2>1, StartStep
  <2>4. Start(ss, j + 1) = Start(ss, j) + Len(cells[i]) BY <2>2, <2>3 DEF Starts
  <2>5. pos[i + 1] = Start(ss, k + (i + 1)) BY <2>1, <2>2, <2>4
  <2> QED BY <2>1, <2>5
<1>4. 1 \in S BY <1>1
<1>5. \A i \in 1..(n + 1) : i > 1 /\ i - 1 \in S => i \in S
  <2> SUFFICES ASSUME NEW i \in 1..(n + 1), i > 1, i - 1 \in S PROVE i \in S OBVIOUS
  <2> HIDE DEF S
  <2> DEFINE j == i - 1
  <2>1. j \in 1..n /\ j + 1 = i /\ j \in S BY <1>1
  <2> HIDE DEF j
  <2>2. j + 1 \in S BY <1>3, <2>1
  <2> QED BY <2>1, <2>2
<1> DEFINE m == n + 1
<1>6. 1 \in Int /\ m \in Int /\ (1 <= m => 1 \in S) /\ \A i \in 1..m : i > 1 /\ i - 1 \in S => i \in S
  BY <1>1, <1>4, <1>5
<1> HIDE DEF S, m
<1>7. Within(1, m, S) BY <1>6, RangeInduction
<1>8. m \in 1..m /\ m = n + 1 BY <1>1 DEF m
<1>9. m \in S BY <1>7, <1>8 DEF Within
<1>10. pos[m] = Start(ss, k + m) BY <1>9 DEF S
<1> DEFINE z == Len(ss)
<1>11. k + m = z + 1
  <2>1. z = k + n BY <1>1
  <2> HIDE DEF z
  <2> QED BY <1>1, <2>1 DEF m
<1>12. Start(ss, Len(ss) + 1) = Len(FlattenSeq(ss)) BY StartEnds
<1>13. ASSUME NEW i \in 1..n PROVE pos[i] \in Nat /\ pos[i] <= Len(FlattenSeq(ss))
  <2>1. i \in 1..m /\ k + i \in 1..z /\ z = Len(ss)
    <3>1. z = k + n BY <1>1
    <3> HIDE DEF z
    <3> QED BY <1>1, <1>8, <3>1 DEF z
  <2>2. i \in S BY <1>7, <2>1 DEF Within
  <2>3. pos[i] = Start(ss, k + i) BY <2>2 DEF S
  <2>4. Start(ss, k + i) \in Nat /\ Start(ss, k + i) <= Len(FlattenSeq(ss)) BY <2>1, StartInside
  <2> QED BY <2>3, <2>4
<1> QED BY <1>10, <1>11, <1>12, <1>13 DEF m, n, z, EndsAt

\* The header of src and one segment with these elements.
OneSegment(b, src, ss) ==
  b = (src.ebmlHeader \o AppendSizeWidth("Segment", Len(FlattenSeq(ss)), Wide)) \o FlattenSeq(ss)

\* The header of a segment that is at q in b.
HeadOfSegment(b, q, size) ==
  /\ ReadHeaderAt(b, q) = [id |-> "Segment", w |-> Wide, size |-> size]
  /\ Len(AppendSizeWidth("Segment", size, Wide)) = Wide

LEMMA SegmentHead ==
  ASSUME NEW b, NEW q, NEW size, b \in Seq(Cell), size \in Nat, size < Pow(SizeBase, Wide) - 1,
         At(b, q, AppendSizeWidth("Segment", size, Wide))
  PROVE  HeadOfSegment(b, q, size)
<1> DEFINE id == "Segment"
           w == Wide
<1>1. id \in Ids /\ w \in Nat /\ w > 0 /\ size < Pow(SizeBase, w) - 1
      /\ At(b, q, AppendSizeWidth(id, size, w))
  BY EbmlAssumption DEF Ids
<1> HIDE DEF id, w
<1>2. ReadHeaderAt(b, q) = [id |-> id, w |-> w, size |-> size] /\ Len(AppendSizeWidth(id, size, w)) = w
  BY <1>1, HeadAt
<1> QED BY <1>2 DEF id, w, HeadOfSegment

\* Where a seek head leads to.
PlacesAre(ps, src, info, tracks, cues, atts) ==
  /\ ps[1] = <<"Info", info>> /\ ps[2] = <<"Tracks", tracks>> /\ ps[Len(ps)] = <<"Cues", cues>>
  /\ src.attachments # <<>> => ps[3] = <<"Attachments", atts>>

LEMMA SeekPlacesAre ==
  ASSUME NEW src, NEW a, NEW b, NEW c, NEW d, a \in Int, b \in Int, c \in Int, d \in Int
  PROVE  PlacesAre(SeekPlaces(src, a, b, c, d), src, a, b, c, d)
<1> DEFINE T == Ids \X Int
           i == <<"Info", a>>
           t == <<"Tracks", b>>
           e == <<"Attachments", d>>
           l == <<"Cues", c>>
           x == <<i, t>>
           y == IF src.attachments = <<>> THEN <<>> ELSE <<e>>
           z == <<l>>
           ps == SeekPlaces(src, a, b, c, d)
<1>1. {"Info", "Tracks", "Attachments", "Cues"} \subseteq Ids BY DEF Ids
<1>2. i \in T /\ t \in T /\ e \in T /\ l \in T BY <1>1
<1>3. ps = (x \o y) \o z BY DEF SeekPlaces
<1> HIDE DEF T, i, t, e, l
<1>4. x \in Seq(T) /\ Len(x) = 2 /\ x[1] = i /\ x[2] = t /\ z \in Seq(T) /\ Len(z) = 1 /\ z[1] = l BY <1>2
<1>5. /\ src.attachments = <<>> => y = <<>>
      /\ src.attachments # <<>> => y \in Seq(T) /\ Len(y) = 1 /\ y[1] = e
      /\ y \in Seq(T)
  BY <1>2
<1> HIDE DEF x, y, z, ps
<1>6. 1 \in 1..1 /\ 1 \in 1..2 /\ 2 \in 1..2 /\ 1 \in 1..3 /\ 2 \in 1..3 /\ 3 \in 1..3 /\ 2 + 1 = 3 /\ 3 + 1 = 4 OBVIOUS
<1>7. CASE src.attachments = <<>>
  <2>1. x \o y = x
    <3>1. y = <<>> BY <1>5, <1>7
    <3>2. x \o <<>> = x BY <1>4
    <3> QED BY <3>1, <3>2
  <2>2. ps = x \o z BY <1>3, <2>1
  <2>3. Joined(T, x, z) BY <1>4, ConcatJoins
  <2>4. Len(ps) = 3 /\ ps[1] = i /\ ps[2] = t /\ ps[3] = l BY <1>4, <1>6, <2>2, <2>3 DEF Joined
  <2> QED BY <1>7, <2>4 DEF PlacesAre, ps, i, t, l
<1>8. CASE src.attachments # <<>>
  <2> DEFINE w == x \o y
  <2>1. Joined(T, x, y) BY <1>4, <1>5, ConcatJoins
  <2>2. w \in Seq(T) /\ Len(w) = 3 /\ w[1] = i /\ w[2] = t /\ w[3] = e BY <1>4, <1>5, <1>6, <1>8, <2>1 DEF Joined
  <2> HIDE DEF w
  <2>3. ps = w \o z BY <1>3 DEF w
  <2>4. Joined(T, w, z) BY <1>4, <2>2, ConcatJoins
  <2>5. Len(ps) = 4 /\ ps[1] = i /\ ps[2] = t /\ ps[3] = e /\ ps[4] = l
    BY <1>4, <1>6, <2>2, <2>3, <2>4 DEF Joined
  <2> QED BY <1>8, <2>5 DEF PlacesAre, ps, i, t, e, l
<1> QED BY <1>7, <1>8

LEMMA WideHeader ==
  ASSUME NEW id, NEW n, id \in Ids, n \in Int
  PROVE  AppendSizeWidth(id, n, Wide) \in Seq(Cell) /\ Len(AppendSizeWidth(id, n, Wide)) = Wide
<1>1. Wide \in Nat /\ Wide > 0 BY EbmlAssumption
<1>2. AppendSizeWidth(id, n, Wide) \in Seq(Cell) BY <1>1, SizeHeaderType
<1>3. DOMAIN AppendSizeWidth(id, n, Wide) = 1..Wide BY DEF AppendSizeWidth, Cells
<1> HIDE DEF AppendSizeWidth
<1> QED BY <1>1, <1>2, <1>3

-----------------------------------------------------------------------------
(* What is built of a file is served with the cells of its parts.            *)

LEMMA LaidFinalized ==
  ASSUME NEW f, NEW parts, f \in Seq(Cell), parts \in Laid(f)
  PROVE  Finalized(parts, f)
<1> DEFINE T == Placed(Cell, f)
<1>1. parts \in Seq(T) BY DEF Laid
<1>2. \A p \in T : IF p.literal THEN Len(p.data) = p.len ELSE p.len > 0 /\ p.off >= 0 /\ p.off + p.len <= Len(f)
  BY DEF Placed, Part
<1> HIDE DEF T
<1>3. \A i \in DOMAIN parts : parts[i] \in T BY <1>1
<1> QED BY <1>2, <1>3 DEF Finalized

\* What is built of a file f fits it; it is served when it is built, with the cells of
\* its parts.
ClipOf(c) ==
  /\ c.file \in Seq(Cell) /\ Fits(c.file, Open(c.file), c.built)
  /\ c.built.ok => c.ok
  /\ c.ok => c.built.ok /\ c.bytes = Content(c.built.parts, c.file)

LEMMA LesserNumber ==
  ASSUME NEW a, NEW b, a \in Int, b \in Int
  PROVE  Min({a, b}) = IF a < b THEN a ELSE b
<1> DEFINE m == IF a < b THEN a ELSE b
<1>1. m \in {a, b} /\ \A y \in {a, b} : m <= y OBVIOUS
<1>2. \A x \in {a, b} : (\A y \in {a, b} : x <= y) => x = m OBVIOUS
<1> QED BY <1>1, <1>2 DEF Min

-----------------------------------------------------------------------------
(* What elements cells carry: every header with one of some ids in them      *)
(* starts a unit with a number, and the numbers increase.                    *)

\* Where a header with one of these ids is.
Marks(x, ids) == {p \in 0..(Len(x) - 1) : x[p + 1].is = "head" /\ x[p + 1].id \in ids}

\* g is the number of the unit at each of them.
Numbered(x, ids, U, D, g) ==
  \A p \in Marks(x, ids) :
    /\ g[p] \in D /\ U[g[p]] \in Seq(Cell) /\ At(x, p, U[g[p]])
    /\ \A q \in Marks(x, ids) : p < q => g[p] < g[q]

Carries(x, ids, U, D) == \E g : Numbered(x, ids, U, D, g)

Clear(x, ids) == Marks(x, ids) = {}

LEMMA AtLeft ==
  ASSUME NEW x, NEW y, NEW u, NEW p, x \in Seq(Cell), y \in Seq(Cell), u \in Seq(Cell), At(x, p, u)
  PROVE  At(x \o y, p, u)
<1> DEFINE z == x \o y
<1>1. Joined(Cell, x, y) BY ConcatJoins
<1>2. Len(z) = Len(x) + Len(y) /\ Len(x) \in Nat /\ Len(y) \in Nat /\ \A i \in 1..Len(x) : z[i] = x[i]
  BY <1>1 DEF Joined
<1> HIDE DEF z
<1>3. Len(u) \in Nat /\ p \in Nat /\ p + Len(u) <= Len(x) BY DEF At
<1>4. \A i \in 1..Len(u) : p + i \in 1..Len(x) BY <1>2, <1>3
<1>5. \A i \in 1..Len(u) : z[p + i] = u[i] BY <1>2, <1>4 DEF At
<1>6. At(z, p, u) BY <1>2, <1>3, <1>5 DEF At
<1> QED BY <1>6 DEF z

LEMMA AtRight ==
  ASSUME NEW x, NEW y, NEW u, NEW p, x \in Seq(Cell), y \in Seq(Cell), u \in Seq(Cell), At(y, p, u)
  PROVE  At(x \o y, Len(x) + p, u)
<1> DEFINE z == x \o y
           n == Len(x)
<1>1. Joined(Cell, x, y) BY ConcatJoins
<1>2. Len(z) = n + Len(y) /\ n \in Nat /\ Len(y) \in Nat /\ \A i \in 1..Len(y) : z[n + i] = y[i]
  BY <1>1 DEF Joined
<1> HIDE DEF z, n
<1>3. Len(u) \in Nat /\ p \in Nat /\ p + Len(u) <= Len(y) BY DEF At
<1>4. \A i \in 1..Len(u) : p + i \in 1..Len(y) /\ n + (p + i) = (n + p) + i BY <1>2, <1>3
<1>5. \A i \in 1..Len(u) : z[(n + p) + i] = u[i] BY <1>2, <1>4 DEF At
<1>6. n + p \in Nat /\ (n + p) + Len(u) <= Len(z) BY <1>2, <1>3
<1>7. At(z, n + p, u) BY <1>5, <1>6 DEF At
<1> QED BY <1>7 DEF z, n

\* A header in two sequences is one of the first or of the second one.
Sides(x, y, ids) ==
  /\ Len(x) \in Nat
  /\ \A p \in Marks(x \o y, ids) : IF p < Len(x) THEN p \in Marks(x, ids) ELSE p - Len(x) \in Marks(y, ids)

LEMMA MarkSides ==
  ASSUME NEW x, NEW y, NEW ids, x \in Seq(Cell), y \in Seq(Cell)
  PROVE  Sides(x, y, ids)
<1> DEFINE z == x \o y
           n == Len(x)
<1>1. Joined(Cell, x, y) BY ConcatJoins
<1>2. /\ Len(z) = n + Len(y) /\ n \in Nat /\ Len(y) \in Nat
      /\ (\A i \in 1..n : z[i] = x[i]) /\ (\A i \in 1..Len(y) : z[n + i] = y[i])
  BY <1>1 DEF Joined
<1> HIDE DEF z
<1>3. ASSUME NEW p \in Marks(z, ids)
      PROVE  IF p < n THEN p \in Marks(x, ids) ELSE p - n \in Marks(y, ids)
  <2>1. p \in 0..(Len(z) - 1) /\ z[p + 1].is = "head" /\ z[p + 1].id \in ids BY DEF Marks
  <2>2. CASE p < n
    <3>1. p + 1 \in 1..n /\ p \in 0..(n - 1) BY <1>2, <2>1, <2>2
    <3> QED BY <1>2, <2>1, <2>2, <3>1 DEF Marks
  <2>3. CASE ~(p < n)
    <3> DEFINE q == p - n
    <3> HIDE DEF n
    <3>1. q \in 0..(Len(y) - 1) /\ q + 1 \in 1..Len(y) /\ n + (q + 1) = p + 1 BY <1>2, <2>1, <2>3
    <3> HIDE DEF q
    <3>2. z[p + 1] = y[q + 1] BY <1>2, <3>1
    <3>3. q \in Marks(y, ids) BY <2>1, <3>1, <3>2 DEF Marks
    <3> QED BY <2>3, <3>3 DEF q
  <2> QED BY <2>2, <2>3
<1> QED BY <1>2, <1>3 DEF Sides, z

\* All of D is before all of E.
Before(D, E) == \A m \in D, n \in E : m < n

LEMMA CarriesConcat ==
  ASSUME NEW x, NEW y, NEW ids, NEW U, NEW D, NEW E, x \in Seq(Cell), y \in Seq(Cell),
         Carries(x, ids, U, D), Carries(y, ids, U, E), Before(D, E)
  PROVE  Carries(x \o y, ids, U, D \cup E)
<1> DEFINE z == x \o y
           n == Len(x)
           M == Marks(z, ids)
<1>1. PICK gx : Numbered(x, ids, U, D, gx) BY DEF Carries
<1>2. PICK gy : Numbered(y, ids, U, E, gy) BY DEF Carries
<1> DEFINE g == [p \in M |-> IF p < n THEN gx[p] ELSE gy[p - n]]
<1>3. /\ n \in Nat
      /\ \A p \in M : p \in Nat /\ IF p < n THEN p \in Marks(x, ids) ELSE p - n \in Marks(y, ids)
  <2>1. Sides(x, y, ids) BY MarkSides
  <2>2. z \in Seq(Cell) OBVIOUS
  <2> HIDE DEF z
  <2>3. \A p \in M : p \in Nat BY <2>2 DEF Marks
  <2> QED BY <2>1, <2>3 DEF Sides, z
<1>4. \A p \in M : g[p] = IF p < n THEN gx[p] ELSE gy[p - n]
  <2> HIDE DEF M, n
  <2> QED OBVIOUS
<1>5. ASSUME NEW p \in M PROVE g[p] \in D \cup E /\ U[g[p]] \in Seq(Cell) /\ At(z, p, U[g[p]])
  <2>1. CASE p < n
    <3>1. p \in Marks(x, ids) /\ g[p] = gx[p] BY <1>3, <1>4, <2>1
    <3> HIDE DEF g, M, n
    <3>2. g[p] \in D /\ U[g[p]] \in Seq(Cell) /\ At(x, p, U[g[p]]) BY <1>1, <3>1 DEF Numbered
    <3>3. At(z, p, U[g[p]]) BY <3>2, AtLeft
    <3> QED BY <3>2, <3>3
  <2>2. CASE ~(p < n)
    <3> DEFINE q == p - n
    <3>1. q \in Marks(y, ids) /\ g[p] = gy[q] BY <1>3, <1>4, <2>2
    <3>0. n + q = p
      <4> HIDE DEF n, M
      <4> QED BY <1>3
    <3> HIDE DEF g, M, q
    <3>2. g[p] \in E /\ U[g[p]] \in Seq(Cell) /\ At(y, q, U[g[p]]) BY <1>2, <3>1 DEF Numbered
    <3>3. At(z, n + q, U[g[p]]) BY <3>2, AtRight
    <3> QED BY <3>0, <3>2, <3>3
  <2> QED BY <2>1, <2>2
<1>6. ASSUME NEW p \in M, NEW q \in M, p < q PROVE g[p] < g[q]
  <2> HIDE DEF M, n
  <2>1. CASE q < n
    <3>1. p < n BY <1>3, <1>6, <2>1
    <3> QED BY <1>1, <1>3, <1>4, <1>6, <2>1, <3>1 DEF Numbered
  <2>2. CASE ~(p < n)
    <3>1. ~(q < n) /\ p - n < q - n BY <1>3, <1>6, <2>2
    <3>2. gy[p - n] < gy[q - n] BY <1>2, <1>3, <2>2, <3>1 DEF Numbered
    <3> QED BY <1>4, <2>2, <3>1, <3>2
  <2>3. CASE p < n /\ ~(q < n)
    <3>1. gx[p] \in D /\ gy[q - n] \in E BY <1>1, <1>2, <1>3, <2>3 DEF Numbered
    <3>2. gx[p] < gy[q - n] BY <3>1 DEF Before
    <3> QED BY <1>4, <2>3, <3>2
  <2> QED BY <2>1, <2>2, <2>3
<1> HIDE DEF g
<1>7. Numbered(z, ids, U, D \cup E, g) BY <1>5, <1>6 DEF Numbered
<1> HIDE DEF z
<1>8. Carries(z, ids, U, D \cup E) BY <1>7 DEF Carries
<1> QED BY <1>8 DEF z

LEMMA CarriesClear ==
  ASSUME NEW x, NEW ids, NEW U, NEW D, Clear(x, ids)
  PROVE  Carries(x, ids, U, D)
<1>1. Numbered(x, ids, U, D, <<>>) BY DEF Clear, Numbered
<1> QED BY <1>1 DEF Carries

LEMMA CarriesNone ==
  ASSUME NEW x, NEW ids, NEW U, Carries(x, ids, U, {})
  PROVE  Clear(x, ids)
<1>1. PICK g : Numbered(x, ids, U, {}, g) BY DEF Carries
<1>2. \A p \in Marks(x, ids) : FALSE BY <1>1 DEF Numbered
<1> QED BY <1>2 DEF Clear

LEMMA CarriesMore ==
  ASSUME NEW x, NEW ids, NEW U, NEW D, NEW E, Carries(x, ids, U, D), D \subseteq E
  PROVE  Carries(x, ids, U, E)
<1>1. PICK g : Numbered(x, ids, U, D, g) BY DEF Carries
<1>2. Numbered(x, ids, U, E, g) BY <1>1 DEF Numbered
<1> QED BY <1>2 DEF Carries

\* A unit by itself.
LEMMA CarriesUnit ==
  ASSUME NEW x, NEW ids, NEW U, NEW n, x \in Seq(Cell), Marks(x, ids) \subseteq {0}, U[n] = x
  PROVE  Carries(x, ids, U, {n})
<1> DEFINE g == [p \in {0} |-> n]
<1>1. g[0] = n OBVIOUS
<1>2. At(x, 0, x) BY AtWhole
<1>3. \A p, q \in Marks(x, ids) : ~(p < q)
  <2>1. ~(0 < 0) OBVIOUS
  <2> QED BY <2>1
<1> HIDE DEF g
<1>4. Numbered(x, ids, U, {n}, g) BY <1>1, <1>2, <1>3 DEF Numbered
<1> QED BY <1>4 DEF Carries

LEMMA ClearConcat ==
  ASSUME NEW x, NEW y, NEW ids, x \in Seq(Cell), y \in Seq(Cell), Clear(x, ids), Clear(y, ids)
  PROVE  Clear(x \o y, ids)
<1>1. Carries(x, ids, <<>>, {}) /\ Carries(y, ids, <<>>, {}) BY CarriesClear
<1>2. Before({}, {}) BY DEF Before
<1>3. Carries(x \o y, ids, <<>>, {} \cup {}) BY <1>1, <1>2, CarriesConcat
<1>4. {} \cup {} = {} OBVIOUS
<1>5. Carries(x \o y, ids, <<>>, {}) BY <1>3, <1>4
<1> QED BY <1>5, CarriesNone

\* Something clear before or after changes nothing.
LEMMA CarriesAround ==
  ASSUME NEW x, NEW y, NEW ids, NEW U, NEW D, x \in Seq(Cell), y \in Seq(Cell)
  PROVE  /\ Clear(x, ids) /\ Carries(y, ids, U, D) => Carries(x \o y, ids, U, D)
         /\ Carries(x, ids, U, D) /\ Clear(y, ids) => Carries(x \o y, ids, U, D)
<1>1. Before({}, D) /\ Before(D, {}) BY DEF Before
<1>2. {} \cup D = D /\ D \cup {} = D OBVIOUS
<1>3. ASSUME Clear(x, ids), Carries(y, ids, U, D) PROVE Carries(x \o y, ids, U, D)
  <2>1. Carries(x, ids, U, {}) BY <1>3, CarriesClear
  <2>2. Carries(x \o y, ids, U, {} \cup D) BY <1>1, <1>3, <2>1, CarriesConcat
  <2> QED BY <1>2, <2>2
<1>4. ASSUME Clear(y, ids), Carries(x, ids, U, D) PROVE Carries(x \o y, ids, U, D)
  <2>1. Carries(y, ids, U, {}) BY <1>4, CarriesClear
  <2>2. Carries(x \o y, ids, U, D \cup {}) BY <1>1, <1>4, <2>1, CarriesConcat
  <2> QED BY <1>2, <2>2
<1> QED BY <1>3, <1>4

LEMMA MarksOfNone ==
  ASSUME NEW ids
  PROVE  Clear(<<>>, ids)
<1>1. \A p \in 0..(0 - 1) : FALSE OBVIOUS
<1>2. Len(<<>>) = 0 OBVIOUS
<1> QED BY <1>1, <1>2 DEF Clear, Marks

\* Sequences that carry units one after the other.
InOrder(ss, ids, U, E, D) ==
  \A i \in 1..Len(ss) :
    /\ Carries(ss[i], ids, U, E[i]) /\ E[i] \subseteq D
    /\ \A j \in 1..Len(ss) : i < j => Before(E[i], E[j])

LEMMA CarriesFlatten ==
  ASSUME NEW ss, NEW ids, NEW U, NEW E, NEW D, ss \in Seq(Seq(Cell)), InOrder(ss, ids, U, E, D)
  PROVE  Carries(FlattenSeq(ss), ids, U, D)
<1> DEFINE n == Len(ss)
           flat(i) == FlattenSeq(SubSeq(ss, 1, i))
           all(i) == UNION {E[j] : j \in 1..i}
           S == {i \in 0..n : Carries(flat(i), ids, U, all(i))}
<1>0. n \in Nat OBVIOUS
<1>1. 0 \in S
  <2>1. SubSeq(ss, 1, 0) = <<>> OBVIOUS
  <2>2. flat(0) = <<>> BY <2>1, FlattenEmpty
  <2>3. Carries(flat(0), ids, U, all(0)) BY <2>2, MarksOfNone, CarriesClear
  <2> HIDE DEF flat, all, n
  <2> QED BY <1>0, <2>3
<1>2. ASSUME NEW i \in 0..n, i > 0, i - 1 \in S PROVE i \in S
  <2>1. i \in 1..n /\ i - 1 \in 0..n /\ Carries(flat(i - 1), ids, U, all(i - 1))
    <3> HIDE DEF flat, all, n
    <3> QED BY <1>0, <1>2
  <2>2. Starts(ss, i) BY <2>1, StartStep
  <2>3. flat(i) = flat(i - 1) \o ss[i] /\ flat(i - 1) \in Seq(Cell) /\ ss[i] \in Seq(Cell) BY <2>2 DEF Starts
  <2>4. Carries(ss[i], ids, U, E[i]) BY <2>1 DEF InOrder
  <2>5. Before(all(i - 1), E[i])
    <3>1. \A j \in 1..(i - 1) : j \in 1..n /\ j < i BY <1>0, <2>1
    <3>2. \A j \in 1..(i - 1) : Before(E[j], E[i]) BY <2>1, <3>1 DEF InOrder
    <3> QED BY <3>2 DEF Before
  <2>6. all(i - 1) \cup E[i] = all(i)
    <3>1. \A j : j \in 1..i <=> (j \in 1..(i - 1) \/ j = i) BY <2>1
    <3> QED BY <3>1
  <2> HIDE DEF flat, all, n
  <2>7. Carries(flat(i - 1) \o ss[i], ids, U, all(i - 1) \cup E[i]) BY <2>1, <2>3, <2>4, <2>5, CarriesConcat
  <2> QED BY <2>1, <2>3, <2>6, <2>7
<1>3. Within(0, n, S)
  <2> HIDE DEF S, n
  <2> QED BY <1>0, <1>1, <1>2, RangeInduction
<1>4. Carries(flat(n), ids, U, all(n))
  <2>1. n \in S
    <3> HIDE DEF S, n
    <3> QED BY <1>0, <1>3 DEF Within
  <2> QED BY <2>1
<1>5. flat(n) = FlattenSeq(ss)
  <2> DEFINE T == Seq(Cell)
  <2> HIDE DEF T
  <2>1. SubSeq(ss, 1, Len(ss)) = ss BY WholeSubSeq DEF T
  <2> QED BY <2>1
<1>6. all(n) \subseteq D BY DEF InOrder
<1> HIDE DEF flat, all, n
<1> QED BY <1>4, <1>5, <1>6, CarriesMore

LEMMA ClearFlatten ==
  ASSUME NEW ss, NEW ids, ss \in Seq(Seq(Cell)), \A i \in 1..Len(ss) : Clear(ss[i], ids)
  PROVE  Clear(FlattenSeq(ss), ids)
<1> DEFINE E == [i \in 1..Len(ss) |-> {}]
<1>1. \A i \in 1..Len(ss) : E[i] = {} OBVIOUS
<1> HIDE DEF E
<1>2. \A i \in 1..Len(ss) : Carries(ss[i], ids, <<>>, E[i]) BY <1>1, CarriesClear
<1>3. \A i, j \in 1..Len(ss) : Before(E[i], E[j]) BY <1>1 DEF Before
<1>4. InOrder(ss, ids, <<>>, E, {}) BY <1>1, <1>2, <1>3 DEF InOrder
<1>5. Carries(FlattenSeq(ss), ids, <<>>, {}) BY <1>4, CarriesFlatten
<1> QED BY <1>5, CarriesNone

\* A slice: the headers in it, and the units when it reaches to the end.
Slice(x, a, b) == SubSeq(x, a + 1, b)

Sliced(x, a, b, ids) ==
  /\ Slice(x, a, b) \in Seq(Cell) /\ Len(Slice(x, a, b)) = b - a
  /\ \A i \in 1..(b - a) : Slice(x, a, b)[i] = x[a + i]
  /\ \A p \in Marks(Slice(x, a, b), ids) : p \in Nat /\ p < b - a /\ a + p \in Marks(x, ids)

LEMMA SliceMarks ==
  ASSUME NEW x, NEW a, NEW b, NEW ids, x \in Seq(Cell), a \in Nat, b \in Nat, a <= b, b <= Len(x)
  PROVE  Sliced(x, a, b, ids)
<1> DEFINE s == SubSeq(x, a + 1, b)
           n == b - a
           T == Cell
<1>1. x \in Seq(T) /\ n \in Nat /\ a + n = b /\ a + n <= Len(x) OBVIOUS
<1> HIDE DEF T
<1>2. s \in Seq(T) /\ Len(s) = n BY <1>1, SliceType
<1>3. \A i \in 1..n : s[i] = x[a + i]
  <2>1. \A i \in 1..n : s[i] = x[(a + 1) + i - 1] BY <1>1
  <2>2. \A i \in 1..n : (a + 1) + i - 1 = a + i BY <1>1
  <2> QED BY <2>1, <2>2
<1> HIDE DEF s
<1>4. Len(x) \in Nat BY <1>1
<1>5. ASSUME NEW p \in Marks(s, ids) PROVE p \in Nat /\ p < n /\ a + p \in Marks(x, ids)
  <2>1. p \in 0..(n - 1) /\ s[p + 1].is = "head" /\ s[p + 1].id \in ids BY <1>2, <1>5 DEF Marks
  <2>2. p + 1 \in 1..n /\ a + (p + 1) = (a + p) + 1 /\ a + p \in 0..(Len(x) - 1) BY <1>1, <1>4, <2>1
  <2>3. s[p + 1] = x[(a + p) + 1] BY <1>3, <2>2
  <2>4. a + p \in Marks(x, ids) BY <2>1, <2>2, <2>3 DEF Marks
  <2> QED BY <2>1, <2>4
<1> QED BY <1>2, <1>3, <1>5 DEF s, n, T, Slice, Sliced

LEMMA CarriesSuffix ==
  ASSUME NEW x, NEW a, NEW ids, NEW U, NEW D, x \in Seq(Cell), a \in Nat, a <= Len(x),
         Carries(x, ids, U, D)
  PROVE  Carries(Slice(x, a, Len(x)), ids, U, D)
<1> DEFINE s == Slice(x, a, Len(x))
           n == Len(x)
           M == Marks(s, ids)
<1>1. PICK gx : Numbered(x, ids, U, D, gx) BY DEF Carries
<1> DEFINE g == [p \in M |-> gx[a + p]]
<1>0. n \in Nat OBVIOUS
<1>2. /\ Len(s) = n - a /\ (\A i \in 1..(n - a) : s[i] = x[a + i])
      /\ \A p \in M : p \in Nat /\ p < n - a /\ a + p \in Marks(x, ids)
  <2>1. n <= n /\ a <= n BY <1>0
  <2>2. Sliced(x, a, n, ids)
    <3> HIDE DEF n
    <3> QED BY <1>0, <2>1, SliceMarks DEF n
  <2> HIDE DEF n
  <2> QED BY <2>2 DEF Sliced, n
<1>3. \A p \in M : g[p] = gx[a + p]
  <2> HIDE DEF M
  <2> QED OBVIOUS
<1> HIDE DEF g, M
<1>4. ASSUME NEW p \in M PROVE g[p] \in D /\ U[g[p]] \in Seq(Cell) /\ At(s, p, U[g[p]])
  <2> DEFINE u == U[g[p]]
  <2>1. g[p] \in D /\ u \in Seq(Cell) /\ At(x, a + p, u) BY <1>1, <1>2, <1>3 DEF Numbered
  <2> HIDE DEF u, s, n
  <2>2. Len(u) \in Nat /\ p \in Nat /\ (a + p) + Len(u) <= n BY <1>2, <2>1 DEF At, n
  <2>3. \A i \in 1..Len(u) : p + i \in 1..(n - a) /\ a + (p + i) = (a + p) + i BY <1>0, <2>2
  <2>4. \A i \in 1..Len(u) : s[p + i] = u[i] BY <1>2, <2>1, <2>3 DEF At
  <2>5. p + Len(u) <= Len(s) BY <1>0, <1>2, <2>2
  <2>6. At(s, p, u) BY <2>2, <2>4, <2>5 DEF At
  <2> QED BY <2>1, <2>6 DEF u
<1>5. ASSUME NEW p \in M, NEW q \in M, p < q PROVE g[p] < g[q]
  <2>1. a + p < a + q BY <1>2, <1>5
  <2>2. gx[a + p] < gx[a + q] BY <1>1, <1>2, <2>1 DEF Numbered
  <2> QED BY <1>3, <2>2
<1>6. Numbered(s, ids, U, D, g) BY <1>4, <1>5 DEF Numbered, M
<1> HIDE DEF s
<1>7. Carries(s, ids, U, D) BY <1>6 DEF Carries
<1> QED BY <1>7 DEF s

\* A header, and an element, whose payload has none of the headers.
LEMMA HeaderMarks ==
  ASSUME NEW id, NEW n, NEW w, NEW ids, id \in Ids, n \in Int, w \in Nat, w > 0
  PROVE  /\ Marks(AppendSizeWidth(id, n, w), ids) \subseteq {0}
         /\ id \notin ids => Clear(AppendSizeWidth(id, n, w), ids)
         /\ AppendSizeWidth(id, n, w) \in Seq(Cell) /\ Len(AppendSizeWidth(id, n, w)) = w
<1> DEFINE c == [is |-> "head", id |-> id, size |-> n % Pow(SizeBase, w), w |-> w]
           x == Cells(c, w)
<1>1. AppendSizeWidth(id, n, w) = x BY DEF AppendSizeWidth
<1>2. x \in Seq(Cell) BY <1>1, SizeHeaderType
<1>3. x = [i \in 1..w |-> IF i = 1 THEN c ELSE Pad] BY DEF Cells
<1>4. Len(x) = w
  <2>1. DOMAIN x = 1..w BY <1>3
  <2> HIDE DEF x
  <2> QED BY <1>2, <2>1
<1>5. c.id = id OBVIOUS
<1>6. Pad.is # "head" BY DEF Pad
<1> HIDE DEF x, c
<1>7. ASSUME NEW p \in Marks(x, ids) PROVE p = 0 /\ id \in ids
  <2>1. p \in 0..(w - 1) /\ x[p + 1].is = "head" /\ x[p + 1].id \in ids BY <1>4 DEF Marks
  <2>2. p + 1 \in 1..w BY <2>1
  <2>3. p + 1 = 1 BY <1>3, <1>6, <2>1, <2>2
  <2>4. p = 0 BY <2>1, <2>3
  <2> QED BY <1>3, <1>5, <2>1, <2>2, <2>3, <2>4
<1> QED BY <1>1, <1>2, <1>4, <1>7 DEF Clear

LEMMA FramedMarks ==
  ASSUME NEW h, NEW x, NEW ids, h \in Seq(Cell), x \in Seq(Cell), Marks(h, ids) \subseteq {0}, Len(h) > 0,
         Clear(x, ids)
  PROVE  Marks(h \o x, ids) \subseteq {0}
<1>1. Sides(h, x, ids) BY MarkSides
<1>2. \A p \in Marks(x, ids) : FALSE BY DEF Clear
<1> QED BY <1>1, <1>2 DEF Sides

LEMMA ElementMarks ==
  ASSUME NEW id, NEW x, NEW ids, id \in Ids, x \in Seq(Cell), Clear(x, ids)
  PROVE  /\ Marks(AppendElement(id, x), ids) \subseteq {0}
         /\ id \notin ids => Clear(AppendElement(id, x), ids)
         /\ AppendElement(id, x) \in Seq(Cell)
<1> DEFINE w == SizeWidth(Len(x))
           n == Len(x)
           h == AppendSizeWidth(id, n, w)
<1>1. n \in Int OBVIOUS
<1>2. w \in 1..Wide BY <1>1, SizeWidthType
<1>3. w \in Nat /\ w > 0 BY <1>2, EbmlAssumption
<1>4. AppendElement(id, x) = h \o x BY DEF AppendElement
<1> HIDE DEF w, n
<1>5. /\ Marks(h, ids) \subseteq {0} /\ (id \notin ids => Clear(h, ids)) /\ h \in Seq(Cell) /\ Len(h) = w
  BY <1>1, <1>3, HeaderMarks
<1> HIDE DEF h
<1>6. Marks(h \o x, ids) \subseteq {0} BY <1>3, <1>5, FramedMarks
<1>7. id \notin ids => Clear(h \o x, ids) BY <1>5, ClearConcat
<1> QED BY <1>4, <1>6, <1>7, ElementType

LEMMA CellMarks ==
  ASSUME NEW c, NEW w, NEW ids, c \in Cell, c.is # "head", w \in Nat
  PROVE  Clear(Cells(c, w), ids) /\ Cells(c, w) \in Seq(Cell)
<1> DEFINE x == Cells(c, w)
<1>1. x \in Seq(Cell) /\ Len(x) = w BY CellsType
<1>2. x = [i \in 1..w |-> IF i = 1 THEN c ELSE Pad] BY DEF Cells
<1>3. Pad.is # "head" BY DEF Pad
<1> HIDE DEF x
<1>4. \A p \in 0..(w - 1) : p + 1 \in 1..w OBVIOUS
<1>5. \A p \in 0..(w - 1) : x[p + 1].is # "head" BY <1>2, <1>3, <1>4
<1>6. Clear(x, ids) BY <1>1, <1>5 DEF Clear, Marks
<1> QED BY <1>1, <1>6 DEF x

LEMMA OneMark ==
  ASSUME NEW c, NEW ids, c \in Cell, c.is # "head"
  PROVE  Clear(<<c>>, ids)
<1>1. \A p \in 0..(1 - 1) : p + 1 = 1 OBVIOUS
<1>2. Len(<<c>>) = 1 /\ <<c>>[1] = c OBVIOUS
<1> QED BY <1>1, <1>2 DEF Clear, Marks

\* A number is an element of some width, that says it unless it is too large.
Says(x, id, v) ==
  \E u \in Nat, w \in 1..Wide : /\ x = AppendElement(id, Cells(Num(u), w))
                                /\ v \in Nat /\ v < Pow(UintBase, Wide) => u = v

LEMMA UintSays ==
  ASSUME NEW id, NEW v, id \in Ids, v \in Int
  PROVE  Says(AppendUint(id, v), id, v)
<1> DEFINE S == {n \in 1..Wide : v < Pow(UintBase, n)}
           width == CHOOSE n \in 1..Wide : /\ n = Wide \/ v < Pow(UintBase, n)
                                           /\ \A x \in 1..(n - 1) : v >= Pow(UintBase, x)
           p == Pow(UintBase, width)
<1>0. \A n \in 1..Wide : Pow(UintBase, n) \in Nat /\ Pow(UintBase, n) > 0
  <2>1. UintBase \in Nat /\ UintBase > 0 /\ \A n \in 1..Wide : n \in Nat BY EbmlAssumption
  <2> QED BY <2>1, PowNat
<1>1. PICK n \in 1..Wide : (n = Wide \/ n \in S) /\ \A x \in 1..(n - 1) : x \notin S
  <2> HIDE DEF S
  <2> QED BY LeastWidth
<1>2. \A x \in 1..(n - 1) : v >= Pow(UintBase, x)
  <2> SUFFICES ASSUME NEW x \in 1..(n - 1) PROVE v >= Pow(UintBase, x) OBVIOUS
  <2>1. x \in 1..Wide BY EbmlAssumption
  <2>2. ~(v < Pow(UintBase, x)) BY <1>1, <2>1
  <2> QED BY <1>0, <2>1, <2>2
<1>3. width \in 1..Wide /\ (width = Wide \/ v < p) BY <1>1, <1>2
<1>4. p \in Nat /\ p > 0 BY <1>0, <1>3
<1>5. AppendUint(id, v) = AppendElement(id, Cells(Num(v % p), width)) BY DEF AppendUint, AppendUintWidth
<1>6. width = Wide => p = Pow(UintBase, Wide) OBVIOUS
<1> HIDE DEF width, p
<1>7. v % p \in Nat BY <1>4, Remainder
<1>8. v \in Nat /\ v < p => v % p = v BY <1>4
<1>9. v \in Nat /\ v < Pow(UintBase, Wide) => v % p = v BY <1>3, <1>6, <1>8
<1> QED BY <1>3, <1>5, <1>7, <1>9 DEF Says

LEMMA UintMarks ==
  ASSUME NEW id, NEW v, NEW ids, id \in Ids, v \in Int
  PROVE  /\ Marks(AppendUint(id, v), ids) \subseteq {0}
         /\ id \notin ids => Clear(AppendUint(id, v), ids)
         /\ AppendUint(id, v) \in Seq(Cell)
<1>1. Says(AppendUint(id, v), id, v) BY UintSays
<1>2. PICK u \in Nat, w \in 1..Wide : AppendUint(id, v) = AppendElement(id, Cells(Num(u), w)) BY <1>1 DEF Says
<1>3. w \in Nat BY EbmlAssumption
<1>4. Num(u) \in Cell /\ Num(u).is # "head" BY NewCells DEF Num
<1>5. Clear(Cells(Num(u), w), ids) /\ Cells(Num(u), w) \in Seq(Cell) BY <1>3, <1>4, CellMarks
<1> QED BY <1>2, <1>5, ElementMarks

LEMMA UintWidthMarks ==
  ASSUME NEW id, NEW v, NEW w, NEW ids, id \in Ids, v \in Int, w \in Nat, id \notin ids
  PROVE  Clear(AppendUintWidth(id, v, w), ids) /\ AppendUintWidth(id, v, w) \in Seq(Cell)
<1> DEFINE p == Pow(UintBase, w)
           u == v % p
<1>1. UintBase \in Nat /\ UintBase > 0 BY EbmlAssumption
<1>2. p \in Nat /\ p > 0 BY <1>1, PowNat
<1> HIDE DEF p
<1>3. u \in Nat BY <1>2, Remainder
<1> HIDE DEF u
<1>4. Num(u) \in Cell /\ Num(u).is # "head" BY <1>3, NewCells DEF Num
<1>5. Clear(Cells(Num(u), w), ids) /\ Cells(Num(u), w) \in Seq(Cell) BY <1>4, CellMarks
<1>6. AppendUintWidth(id, v, w) = AppendElement(id, Cells(Num(u), w)) BY DEF AppendUintWidth, u, p
<1> QED BY <1>5, <1>6, ElementMarks

-----------------------------------------------------------------------------
(* What is picked from a sequence.                                            *)

\* u is what s has at some of the numbers in I, in their order.
PickedBy(u, s, I, m) ==
  \A i \in 1..Len(u) : /\ m[i] \in I /\ m[i] \in 1..Len(s) /\ u[i] = s[m[i]]
                       /\ \A j \in 1..Len(u) : i < j => m[i] < m[j]

Picked(u, s, I) == \E m : PickedBy(u, s, I, m)

LEMMA PickedMore ==
  ASSUME NEW T, NEW s, NEW I, NEW u, NEW k, s \in Seq(T), u \in Seq(T), k \in 1..Len(s), k \in I,
         Picked(u, s, I \cap (1..(k - 1)))
  PROVE  Picked(u \o <<s[k]>>, s, I \cap (1..k))
<1> DEFINE J == I \cap (1..(k - 1))
           n == Len(u)
           v == u \o <<s[k]>>
<1>1. PICK m : PickedBy(u, s, J, m) BY DEF Picked
<1> DEFINE g == [i \in 1..(n + 1) |-> IF i \in 1..n THEN m[i] ELSE k]
<1>2. n \in Nat /\ Len(v) = n + 1 /\ v[n + 1] = s[k] /\ \A i \in 1..n : v[i] = u[i]
  <2>1. s[k] \in T OBVIOUS
  <2>2. <<s[k]>> \in Seq(T) BY <2>1
  <2>3. Len(<<s[k]>>) = 1 /\ <<s[k]>>[1] = s[k] OBVIOUS
  <2>4. Joined(T, u, <<s[k]>>) BY <2>2, ConcatJoins
  <2>5. 1 \in 1..1 OBVIOUS
  <2> QED BY <2>3, <2>4, <2>5 DEF Joined
<1> HIDE DEF v, n
<1>3. (\A i \in 1..n : g[i] = m[i]) /\ g[n + 1] = k
  <2>1. \A i \in 1..n : i \in 1..(n + 1) BY <1>2
  <2>2. n + 1 \in 1..(n + 1) /\ n + 1 \notin 1..n BY <1>2
  <2> QED BY <2>1, <2>2
<1> HIDE DEF g
<1>4. \A i \in 1..(n + 1) : i \in 1..n \/ i = n + 1 BY <1>2
<1>5. \A i \in 1..n : /\ m[i] \in J /\ u[i] = s[m[i]] /\ m[i] \in 1..Len(s)
                      /\ \A j \in 1..n : i < j => m[i] < m[j]
  BY <1>1 DEF PickedBy, n
<1>6. J \subseteq I \cap (1..k) /\ k \in I \cap (1..k) OBVIOUS
<1>7. ASSUME NEW i \in 1..(n + 1)
      PROVE  g[i] \in I \cap (1..k) /\ g[i] \in 1..Len(s) /\ v[i] = s[g[i]]
  <2> HIDE DEF J
  <2>1. CASE i \in 1..n BY <1>2, <1>3, <1>5, <1>6, <2>1
  <2>2. CASE i = n + 1 BY <1>2, <1>3, <1>6, <2>2
  <2> QED BY <1>4, <2>1, <2>2
<1>8. ASSUME NEW i \in 1..(n + 1), NEW j \in 1..(n + 1), i < j PROVE g[i] < g[j]
  <2>1. i \in 1..n BY <1>2, <1>8
  <2>2. CASE j \in 1..n BY <1>3, <1>5, <1>8, <2>1, <2>2
  <2>3. CASE j = n + 1
    <3>1. m[i] \in 1..(k - 1) BY <1>5, <2>1
    <3>2. m[i] < k BY <3>1
    <3> QED BY <1>3, <2>1, <2>3, <3>2
  <2> QED BY <1>4, <2>2, <2>3
<1>9. PickedBy(v, s, I \cap (1..k), g) BY <1>2, <1>7, <1>8 DEF PickedBy
<1> QED BY <1>9 DEF Picked, v

LEMMA WherePicks ==
  ASSUME NEW T, NEW s, NEW I, s \in Seq(T)
  PROVE  Picked(Where(s, I), s, I)
<1> DEFINE n == Len(s)
           U == Seq(T)
           one(i) == IF i \in I THEN <<s[i]>> ELSE <<>>
           ss == [i \in DOMAIN s |-> one(i)]
           flat(i) == FlattenSeq(SubSeq(ss, 1, i))
           S == {i \in 0..n : flat(i) \in Seq(T) /\ Picked(flat(i), s, I \cap (1..i))}
<1>0. n \in Nat /\ DOMAIN s = 1..n OBVIOUS
<1>1. \A i \in 1..n : one(i) \in U
  <2>1. \A i \in 1..n : <<s[i]>> \in U OBVIOUS
  <2>2. <<>> \in U OBVIOUS
  <2> HIDE DEF U
  <2> QED BY <2>1, <2>2
<1>2. ss \in Seq(U) /\ Len(ss) = n /\ \A i \in 1..n : ss[i] = one(i)
  <2> HIDE DEF U, one, n
  <2>1. ss \in [1..n -> U] BY <1>0, <1>1
  <2> QED BY <1>0, <2>1, FunctionIsSequence
<1> HIDE DEF ss
<1>3. 0 \in S
  <2>1. SubSeq(ss, 1, 0) = <<>> BY <1>2
  <2>2. flat(0) = <<>> BY <2>1, FlattenEmpty
  <2>3. <<>> \in Seq(T) /\ Len(<<>>) = 0 OBVIOUS
  <2>4. \A i \in 1..0 : FALSE OBVIOUS
  <2>5. PickedBy(<<>>, s, I \cap (1..0), <<>>) BY <2>3, <2>4 DEF PickedBy
  <2>6. Picked(<<>>, s, I \cap (1..0)) BY <2>5 DEF Picked
  <2>7. flat(0) \in Seq(T) /\ Picked(flat(0), s, I \cap (1..0)) BY <2>2, <2>3, <2>6
  <2> HIDE DEF flat, n
  <2>8. 0 \in 0..n BY <1>0
  <2> QED BY <2>7, <2>8
<1>4. ASSUME NEW i \in 0..n, i > 0, i - 1 \in S PROVE i \in S
  <2>1. i \in 1..n BY <1>0, <1>4
  <2>2. flat(i - 1) \in U /\ Picked(flat(i - 1), s, I \cap (1..(i - 1)))
    <3> HIDE DEF flat, n
    <3> QED BY <1>4
  <2>3. flat(i) = flat(i - 1) \o one(i)
    <3> HIDE DEF U, one, n
    <3>1. SubSeq(ss, 1, i) = Append(SubSeq(ss, 1, i - 1), ss[i]) /\ SubSeq(ss, 1, i - 1) \in Seq(U)
      BY <1>2, <2>1, PrefixAppend
    <3>2. one(i) \in Seq(T) BY <1>1, <2>1 DEF U
    <3> HIDE DEF flat
    <3>3. FlattenSeq(Append(SubSeq(ss, 1, i - 1), one(i))) = FlattenSeq(SubSeq(ss, 1, i - 1)) \o one(i)
      BY <3>1, <3>2, FlattenAppend DEF U
    <3> QED BY <1>2, <2>1, <3>1, <3>3 DEF flat
  <2>4. CASE i \in I
    <3>1. one(i) = <<s[i]>> BY <2>4
    <3>2. Picked(flat(i - 1) \o <<s[i]>>, s, I \cap (1..i))
      <4> HIDE DEF flat, one
      <4> QED BY <2>1, <2>2, <2>4, PickedMore DEF U
    <3>3. flat(i - 1) \o <<s[i]>> \in Seq(T)
      <4>1. <<s[i]>> \in Seq(T) BY <2>1
      <4> HIDE DEF flat
      <4> QED BY <2>2, <4>1
    <3> HIDE DEF flat, one, n
    <3> QED BY <2>3, <3>1, <3>2, <3>3
  <2>5. CASE i \notin I
    <3>1. one(i) = <<>> BY <2>5
    <3>2. flat(i - 1) \o <<>> = flat(i - 1)
      <4> HIDE DEF flat
      <4> QED BY <2>2
    <3>3. I \cap (1..(i - 1)) = I \cap (1..i)
      <4>1. \A j : j \in 1..i <=> (j \in 1..(i - 1) \/ j = i) BY <2>1
      <4> QED BY <2>5, <4>1
    <3> HIDE DEF flat, one, n
    <3> QED BY <2>2, <2>3, <3>1, <3>2, <3>3
  <2> QED BY <2>4, <2>5
<1>5. Within(0, n, S)
  <2> HIDE DEF S, n
  <2> QED BY <1>0, <1>3, <1>4, RangeInduction
<1>6. Picked(flat(n), s, I \cap (1..n))
  <2>1. n \in S
    <3> HIDE DEF S, n
    <3> QED BY <1>0, <1>5 DEF Within
  <2> HIDE DEF flat
  <2> QED BY <2>1
<1>7. flat(n) = Where(s, I)
  <2> HIDE DEF U
  <2>1. SubSeq(ss, 1, n) = ss BY <1>2, WholeSubSeq
  <2> QED BY <2>1 DEF Where, ss
<1> HIDE DEF flat, n
<1>8. PICK m : PickedBy(flat(n), s, I \cap (1..n), m) BY <1>6 DEF Picked
<1>9. PickedBy(flat(n), s, I, m) BY <1>8 DEF PickedBy
<1> QED BY <1>7, <1>9 DEF Picked

-----------------------------------------------------------------------------
(* Reading what there is of a file.                                           *)

\* b is the first cells of F.
Prefix(b, F) ==
  b \in Seq(Cell) /\ F \in Seq(Cell) /\ Len(b) <= Len(F) /\ \A i \in 1..Len(b) : b[i] = F[i]

LEMMA PrefixWhole ==
  ASSUME NEW b, b \in Seq(Cell)
  PROVE  Prefix(b, b)
BY DEF Prefix

\* A header that is not bad is one of a cell, which is in the whole file too.
HeaderHere(b, F, p, h) ==
  /\ ReadHeaderAt(F, p) = h
  /\ p \in Marks(b, {h.id}) /\ p \in Marks(F, {h.id}) /\ \A ids : h.id \in ids => p \in Marks(b, ids)

LEMMA HeadIsMark ==
  ASSUME NEW b, NEW F, NEW p, Prefix(b, F), p \in Nat, ReadHeaderAt(b, p).id # "bad"
  PROVE  HeaderHere(b, F, p, ReadHeaderAt(b, p))
<1> DEFINE c == b[p + 1]
           n == Len(b)
           h == [id |-> c.id, w |-> c.w, size |-> IF c.size = Pow(SizeBase, c.w) - 1 THEN UnknownSize ELSE c.size]
           bad == p >= n \/ c.is # "head" \/ p + c.w > n
<1>1. ReadHeaderAt(b, p) = IF bad THEN [id |-> "bad", size |-> 0, w |-> 0] ELSE h BY DEF ReadHeaderAt
<1>2. ~bad /\ ReadHeaderAt(b, p) = h BY <1>1
<1>3. b \in Seq(Cell) /\ F \in Seq(Cell) /\ n <= Len(F) /\ \A i \in 1..n : b[i] = F[i] BY DEF Prefix
<1>4. n \in Nat /\ Len(F) \in Nat BY <1>3
<1>5. p < n /\ p + 1 \in 1..n /\ p \in 0..(n - 1) /\ p \in 0..(Len(F) - 1)
  <2> HIDE DEF n, c
  <2> QED BY <1>2, <1>3, <1>4
<1>6. c = F[p + 1] /\ c \in Cell BY <1>3, <1>5
<1>7. c.is = "head" BY <1>2
<1>8. c.w \in Nat BY <1>6, <1>7, HeadCell
<1>9. ReadHeaderAt(F, p) = h
  <2>1. ~(p + c.w > Len(F)) /\ ~(p >= Len(F))
    <3> HIDE DEF n, c
    <3> QED BY <1>2, <1>3, <1>4, <1>5, <1>8
  <2> HIDE DEF n, c
  <2> QED BY <1>6, <1>7, <2>1 DEF ReadHeaderAt
<1>10. h.id = c.id OBVIOUS
<1> HIDE DEF h
<1>11. \A ids : c.id \in ids => p \in Marks(b, ids) /\ p \in Marks(F, ids)
  BY <1>5, <1>6, <1>7 DEF Marks
<1> QED BY <1>2, <1>9, <1>10, <1>11 DEF HeaderHere

LEMMA PrefixAt ==
  ASSUME NEW b, NEW F, NEW p, NEW x, Prefix(b, F), x \in Seq(Cell), At(F, p, x), p + Len(x) <= Len(b)
  PROVE  At(b, p, x)
<1>1. Len(x) \in Nat /\ p \in Nat /\ Len(b) \in Nat BY DEF At, Prefix
<1>2. \A i \in 1..Len(x) : p + i \in 1..Len(b) BY <1>1
<1> QED BY <1>1, <1>2 DEF At, Prefix

\* A mark in what is at p is one of the unit there.
LEMMA MarkAt ==
  ASSUME NEW F, NEW p, NEW x, NEW q, NEW ids, F \in Seq(Cell), x \in Seq(Cell), At(F, p, x),
         q \in Marks(F, ids), p <= q, q < p + Len(x)
  PROVE  q - p \in Marks(x, ids)
<1> DEFINE r == q - p
           n == Len(x)
<1>1. q \in 0..(Len(F) - 1) /\ F[q + 1].is = "head" /\ F[q + 1].id \in ids BY DEF Marks
<1>2. p \in Nat /\ n \in Nat /\ q \in Int BY <1>1 DEF At
<1>3. r \in 0..(n - 1) /\ r + 1 \in 1..n /\ p + (r + 1) = q + 1
  <2> HIDE DEF n
  <2>1. p <= q /\ q < p + n BY DEF n
  <2> QED BY <1>2, <2>1
<1> HIDE DEF r
<1>4. x[r + 1] = F[q + 1] BY <1>3 DEF At
<1>5. r \in Marks(x, ids) BY <1>1, <1>3, <1>4 DEF Marks
<1> QED BY <1>5 DEF r

\* A cluster that starts with its timestamp.
TimedBody(t, rest) == AppendUint("Timestamp", t) \o rest

TimedElement(t, rest) == AppendSizeWidth("Cluster", Len(TimedBody(t, rest)), Wide) \o TimedBody(t, rest)

TimedMade(t, rest) ==
  /\ TimedBody(t, rest) \in Seq(Cell) /\ TimedElement(t, rest) \in Seq(Cell)
  /\ Len(TimedElement(t, rest)) = Wide + Len(TimedBody(t, rest))
  /\ \A q \in Marks(TimedElement(t, rest), {"Timestamp"}) : q = Wide

LEMMA TimedMarks ==
  ASSUME NEW t, NEW rest, t \in Int, rest \in Seq(Cell), Clear(rest, {"Timestamp"})
  PROVE  TimedMade(t, rest)
<1> DEFINE ids == {"Timestamp"}
           ts == AppendUint("Timestamp", t)
           body == TimedBody(t, rest)
           n == Len(body)
           h == AppendSizeWidth("Cluster", n, Wide)
<1>1. {"Timestamp", "Cluster"} \subseteq Ids /\ "Cluster" \notin ids /\ Wide \in Nat /\ Wide > 0
  BY EbmlAssumption DEF Ids
<1>2. Marks(ts, ids) \subseteq {0} /\ ts \in Seq(Cell) BY <1>1, UintMarks
<1>3. body = ts \o rest BY DEF TimedBody
<1> HIDE DEF ts, body
<1>4. body \in Seq(Cell) BY <1>2, <1>3
<1>5. n \in Int BY <1>4
<1> HIDE DEF n
<1>6. Clear(h, ids) /\ h \in Seq(Cell) /\ Len(h) = Wide BY <1>1, <1>5, HeaderMarks
<1>7. TimedElement(t, rest) = h \o body BY DEF TimedElement, body, n
<1> HIDE DEF h, ids
<1>8. Joined(Cell, h, body) BY <1>4, <1>6, ConcatJoins
<1>9. ASSUME NEW q \in Marks(h \o body, ids) PROVE q = Wide
  <2>1. Sides(h, body, ids) BY <1>4, <1>6, MarkSides
  <2>2. q - Wide \in Marks(body, ids) /\ q \in Int
    <3>1. q \in 0..(Len(h \o body) - 1) BY DEF Marks
    <3>2. q \in Int BY <3>1
    <3> QED BY <1>6, <1>9, <2>1, <3>2 DEF Sides, Clear
  <2>3. Sides(ts, rest, ids) BY <1>2, MarkSides
  <2> DEFINE r == q - Wide
  <2>4. r = 0
    <3> HIDE DEF r
    <3>1. r \in Marks(ts \o rest, ids) BY <1>3, <2>2 DEF r
    <3>2. \A x \in Marks(rest, ids) : FALSE BY DEF Clear, ids
    <3>3. r \in Marks(ts, ids) BY <2>3, <3>1, <3>2 DEF Sides
    <3> QED BY <1>2, <3>3
  <2> QED BY <1>1, <2>2, <2>4
<1>10. Len(h \o body) = Wide + n /\ h \o body \in Seq(Cell) BY <1>6, <1>8 DEF Joined, n
<1> QED BY <1>4, <1>7, <1>9, <1>10 DEF TimedMade, body, n, ids

\* A number that is read in what there is of a file.
LEMMA CellsRead ==
  ASSUME NEW b, NEW F, NEW e, NEW id, NEW v, NEW w, Prefix(b, F), Small(F), e \in Elem, e.id = id, id \in Ids,
         id # "bad", HeadedBy(b, e), e.to <= Len(b), v \in Nat, w \in Nat, w > 0,
         At(F, e.from, AppendElement(id, Cells(Num(v), w)))
  PROVE  Uint(b, e) = v
<1>0. v \in Int /\ F \in Seq(Cell) /\ b \in Seq(Cell) BY DEF Prefix
<1> DEFINE data == Cells(Num(v), w)
           q == e.from
<1>3. w \in Nat /\ w > 0 OBVIOUS
<1>4. Num(v) \in Cell BY NewCells
<1>5. data \in Seq(Cell) /\ Len(data) = w BY <1>3, <1>4, CellsType
<1>6. data[1] = Num(v)
  <2>1. 1 \in 1..w BY <1>3
  <2> QED BY <2>1 DEF Cells
<1> HIDE DEF data
<1>7. Reads(F, q, id, data, q + Len(AppendElement(id, data))) BY <1>0, <1>5, ElementAt DEF data
<1>8. PICK x \in Nat : /\ ReadHeaderAt(F, q) = [id |-> id, w |-> x, size |-> w] /\ At(F, q + x, data)
  BY <1>5, <1>7 DEF Reads
<1>9. ReadHeaderAt(b, q) = [id |-> id, w |-> x, size |-> w]
  <2>1. ReadHeaderAt(b, q).id # "bad" BY DEF HeadedBy
  <2>2. q \in Nat BY DEF Elem
  <2>3. HeaderHere(b, F, q, ReadHeaderAt(b, q)) BY <2>1, <2>2, HeadIsMark
  <2> QED BY <1>8, <2>3 DEF HeaderHere
<1>10. x = e.data - q /\ w = e.to - e.data BY <1>9 DEF HeadedBy
<1>11. e.data \in Nat /\ e.to \in Nat /\ q \in Nat BY DEF Elem
<1>12. q + x = e.data /\ e.data + w = e.to BY <1>10, <1>11
<1>13. At(b, e.data, data) BY <1>5, <1>8, <1>12, PrefixAt
<1>14. b[e.data + 1] = Num(v)
  <2>1. 1 \in 1..Len(data) BY <1>3, <1>5
  <2> QED BY <1>6, <1>13, <2>1 DEF At
<1>15. e.data < e.to /\ e.data < Len(b)
  <2>1. Len(b) \in Nat BY <1>0
  <2> QED BY <1>3, <1>11, <1>12, <2>1
<1>16. Num(v).is = "num" /\ Num(v).v = v BY DEF Num
<1> HIDE DEF q
<1> QED BY <1>14, <1>15, <1>16 DEF Uint, CellValue

LEMMA NumberReads ==
  ASSUME NEW b, NEW F, NEW e, NEW id, NEW v, Prefix(b, F), Small(F), e \in Elem, e.id = id, id \in Ids, id # "bad",
         HeadedBy(b, e), e.to <= Len(b), At(F, e.from, AppendUint(id, v)),
         v \in Nat, v < Pow(UintBase, Wide)
  PROVE  Uint(b, e) = v
<1>0. v \in Int /\ F \in Seq(Cell) /\ b \in Seq(Cell) BY DEF Prefix
<1>1. Says(AppendUint(id, v), id, v) BY <1>0, UintSays
<1>2. PICK w \in 1..Wide : AppendUint(id, v) = AppendElement(id, Cells(Num(v), w)) BY <1>1 DEF Says
<1>3. w \in Nat /\ w > 0 BY EbmlAssumption
<1>4. At(F, e.from, AppendElement(id, Cells(Num(v), w))) BY <1>2
<1> QED BY <1>3, <1>4, CellsRead

LEMMA WidthReads ==
  ASSUME NEW b, NEW F, NEW e, NEW id, NEW v, Prefix(b, F), Small(F), e \in Elem, e.id = id, id \in Ids, id # "bad",
         HeadedBy(b, e), e.to <= Len(b), At(F, e.from, AppendUintWidth(id, v, Wide)),
         v \in Nat, v < Pow(UintBase, Wide)
  PROVE  Uint(b, e) = v
<1>1. Wide \in Nat /\ Wide > 0 /\ Pow(UintBase, Wide) \in Nat /\ Pow(UintBase, Wide) > 0
  <2>1. Wide \in Nat /\ Wide > 0 /\ UintBase \in Nat /\ UintBase > 0 BY EbmlAssumption
  <2> QED BY <2>1, PowNat
<1>2. v % Pow(UintBase, Wide) = v BY <1>1
<1>3. At(F, e.from, AppendElement(id, Cells(Num(v), Wide))) BY <1>2 DEF AppendUintWidth
<1> QED BY <1>1, <1>3, CellsRead

\* A cluster's timestamp is t, unless t is more than a number can say.
Timely(c, t) == t < Pow(UintBase, Wide) => c.timestamp = t

\* A cluster that can be cut is read as it is up to its first block.
ClusterRead(b, c, p, t, rest) ==
  /\ c.end = p + Len(TimedElement(t, rest)) /\ c.end \in Nat
  /\ c.blocks \in Nat /\ p + Wide <= c.blocks /\ c.blocks <= c.end
  /\ c.blocks # c.end => c.blocks \in Marks(b, BlockIds) /\ Timely(c, t)

LEMMA ClusterReads ==
  ASSUME NEW b, NEW F, NEW p, NEW t, NEW rest, Prefix(b, F), Small(F), p \in Nat, t \in Nat,
         rest \in Seq(Cell), Clear(rest, {"Timestamp"}), At(F, p, TimedElement(t, rest)), readCluster(b, p).ok
  PROVE  ClusterRead(b, readCluster(b, p), p, t, rest)
<1> DEFINE h == ReadHeaderAt(b, p)
           body == TimedBody(t, rest)
           n == Len(body)
           head == AppendSizeWidth("Cluster", n, Wide)
           end == p + h.w + h.size
           kids == Walk(b, p + h.w, end, BlockIds)
           at == {i \in DOMAIN kids : kids[i].id \in BlockIds}
           c == readCluster(b, p)
           ts == AppendUint("Timestamp", t)
<1>0. F \in Seq(Cell) /\ b \in Seq(Cell) /\ Len(F) \in Nat /\ Len(b) \in Nat /\ Len(b) <= Len(F) BY DEF Prefix
<1>1. c = clusterOf(b, p, h, kids) BY DEF readCluster
<1>2. /\ h.id = "Cluster" /\ h.size # UnknownSize
      /\ \A i \in DOMAIN kids : kids[i].id = "Timestamp" => kids[i].to <= Len(b)
      /\ \A i \in at : Has(kids, "Timestamp")
      /\ c.end = end /\ c.timestamp = Value(b, kids, "Timestamp")
      /\ c.blocks = IF at = {} THEN end ELSE kids[Min(at)].from
  <2> HIDE DEF kids, h
  <2> QED BY <1>1 DEF clusterOf
<1>3. TimedMade(t, rest) BY TimedMarks
<1>4. Wide \in Nat /\ Wide > 0 /\ {"Cluster", "Timestamp"} \subseteq Ids BY EbmlAssumption DEF Ids
<1>5. n \in Nat /\ body \in Seq(Cell) /\ Len(TimedElement(t, rest)) = Wide + n /\ ts \in Seq(Cell)
      /\ TimedElement(t, rest) \in Seq(Cell)
  <2>1. body \in Seq(Cell) BY <1>3 DEF TimedMade
  <2>2. ts \in Seq(Cell) BY <1>4, UintType
  <2> QED BY <1>3, <2>1, <2>2 DEF TimedMade
<1>6. head \in Seq(Cell) /\ Len(head) = Wide
  <2>1. n \in Int /\ "Cluster" \in Ids BY <1>4, <1>5
  <2> HIDE DEF n
  <2>2. Marks(head, {}) \subseteq {0} /\ head \in Seq(Cell) /\ Len(head) = Wide BY <1>4, <2>1, HeaderMarks
  <2> QED BY <2>2
<1>7. At(F, p, head) /\ At(F, p + Wide, body)
  <2>1. TimedElement(t, rest) = head \o body BY DEF TimedElement
  <2> HIDE DEF head, body
  <2> QED BY <1>0, <1>5, <1>6, <2>1, AtParts
<1>8. p + Wide + n <= Len(F)
  <2> HIDE DEF n
  <2> QED BY <1>4, <1>5 DEF At
<1>9. h = [id |-> "Cluster", w |-> Wide, size |-> n]
  <2>1. ReadHeaderAt(F, p) = h
    <3>1. h.id # "bad" BY <1>2
    <3>2. HeaderHere(b, F, p, h) BY <3>1, HeadIsMark
    <3> QED BY <3>2 DEF HeaderHere
  <2>2. n < Pow(SizeBase, Wide) - 1
    <3> DEFINE x == Pow(SizeBase, Wide) - 1
    <3>1. Len(F) < x BY DEF Small
    <3>2. x \in Int
      <4>1. SizeBase \in Nat /\ SizeBase > 0 BY EbmlAssumption
      <4>2. Pow(SizeBase, Wide) \in Nat BY <1>4, <4>1, PowNat
      <4> QED BY <4>2
    <3> HIDE DEF x, n
    <3>3. n < x BY <1>0, <1>4, <1>5, <1>8, <3>1, <3>2
    <3> QED BY <3>3 DEF x
  <2>3. "Cluster" \in Ids BY <1>4
  <2>5. At(F, p, AppendSizeWidth("Cluster", n, Wide)) BY <1>7
  <2>6. n \in Nat BY <1>5
  <2> HIDE DEF n, body, head
  <2>4. ReadHeaderAt(F, p) = [id |-> "Cluster", w |-> Wide, size |-> n]
    BY <1>0, <1>4, <2>2, <2>3, <2>5, <2>6, HeadAt
  <2> QED BY <2>1, <2>4
<1>10. end = p + Wide + n /\ h.w = Wide
  <2> HIDE DEF n
  <2> QED BY <1>9
<1>11. end = p + Len(TimedElement(t, rest)) /\ end \in Nat /\ p + Wide \in Nat /\ p + Wide <= end
  <2> HIDE DEF n, end, h
  <2> QED BY <1>4, <1>5, <1>10
<1>12. Walked(b, kids, p + Wide, end, BlockIds)
  <2>1. kids = Walk(b, p + Wide, end, BlockIds) BY <1>10
  <2> HIDE DEF end, kids, h
  <2> QED BY <1>0, <1>11, <2>1, WalkElements
<1> HIDE DEF kids, end, h, n, head
<1>13. CASE at = {}
  <2>1. c.blocks = end BY <1>2, <1>13
  <2> HIDE DEF c, at
  <2> QED BY <1>2, <1>11, <2>1 DEF ClusterRead, c
<1>14. CASE at # {}
  <2> DEFINE m == Min(at)
  <2>0. kids \in Seq(Elem) BY <1>12 DEF Walked
  <2>1. m \in at /\ m \in 1..Len(kids)
    <3>1. at \subseteq Nat /\ at \subseteq 1..Len(kids) BY <2>0
    <3> HIDE DEF at
    <3> QED BY <1>14, <3>1, SmallestNumber
  <2>2. kids[m].id \in BlockIds /\ kids[m] \in Elem /\ ElemOf(b, kids[m], p + Wide, end, BlockIds)
    <3> HIDE DEF m
    <3> QED BY <1>12, <2>0, <2>1 DEF Walked
  <2>3. c.blocks = kids[m].from /\ Has(kids, "Timestamp") BY <1>2, <1>14, <2>1
  <2> HIDE DEF m, at, c
  <2>4. c.blocks \in Nat /\ p + Wide <= c.blocks /\ c.blocks < end BY <2>2, <2>3 DEF Elem, ElemOf
  <2>5. c.blocks \in Marks(b, BlockIds)
    <3>1. kids[m].id # "bad" BY <2>2 DEF BlockIds
    <3>2. ReadHeaderAt(b, c.blocks).id = kids[m].id BY <2>2, <2>3, <3>1 DEF ElemOf
    <3>3. HeaderHere(b, F, c.blocks, ReadHeaderAt(b, c.blocks)) BY <2>4, <3>1, <3>2, HeadIsMark
    <3> QED BY <2>2, <3>2, <3>3 DEF HeaderHere
  <2>6. LastFound(kids, "Timestamp") BY <2>0, <2>3, LastIsOne
  <2>7. PICK k \in 1..Len(kids) : LastOf(kids, "Timestamp") = kids[k] /\ kids[k].id = "Timestamp"
    BY <2>6 DEF LastFound
  <2> DEFINE e == kids[k]
  <2>8. e \in Elem /\ ElemOf(b, e, p + Wide, end, BlockIds) /\ e.id = "Timestamp" /\ e.to <= Len(b)
    <3>1. k \in DOMAIN kids BY <2>0
    <3> QED BY <1>2, <1>12, <2>0, <2>7, <3>1 DEF Walked
  <2> HIDE DEF e
  <2>9. HeadedBy(b, e) /\ e.from \in Nat /\ p + Wide <= e.from /\ e.from < end /\ ReadHeaderAt(b, e.from).id = "Timestamp"
    <3>1. "Timestamp" \notin BlockIds \cup {"bad"} BY DEF BlockIds
    <3> QED BY <2>8, <3>1 DEF ElemOf, Elem
  <2>10. e.from = p + Wide
    <3> DEFINE q == e.from
    <3>1. HeaderHere(b, F, q, ReadHeaderAt(b, q)) BY <2>9, HeadIsMark
    <3>2. q \in Marks(F, {"Timestamp"}) BY <2>9, <3>1 DEF HeaderHere
    <3>3. p <= q /\ q < p + Len(TimedElement(t, rest)) BY <1>4, <1>11, <2>9
    <3>4. q - p \in Marks(TimedElement(t, rest), {"Timestamp"}) BY <1>0, <1>5, <3>2, <3>3, MarkAt
    <3>5. q - p = Wide BY <1>3, <3>4 DEF TimedMade
    <3> QED BY <1>4, <2>9, <3>5
  <2>11. At(F, e.from, ts)
    <3>1. body = ts \o rest BY DEF TimedBody
    <3> HIDE DEF body, ts
    <3>2. At(F, p + Wide, ts) BY <1>0, <1>5, <1>7, <3>1, AtParts
    <3> QED BY <2>10, <3>2
  <2>12. t < Pow(UintBase, Wide) => Uint(b, e) = t
    <3> SUFFICES ASSUME t < Pow(UintBase, Wide) PROVE Uint(b, e) = t OBVIOUS
    <3> QED BY <1>4, <2>8, <2>9, <2>11, NumberReads
  <2>13. Timely(c, t) BY <1>2, <2>3, <2>7, <2>12 DEF Value, e, Timely
  <2>14. c.blocks <= end BY <1>11, <2>4
  <2> QED BY <1>2, <1>11, <2>4, <2>5, <2>13, <2>14 DEF ClusterRead, c
<1> QED BY <1>13, <1>14

-----------------------------------------------------------------------------
(* Blocks.                                                                    *)

\* An element of a cluster's walk that a block is read from.
BlockIn(b, c, blk, e) ==
  /\ e \in Elem /\ e.id \in BlockIds /\ HeadedBy(b, e) /\ e.from \in Marks(b, BlockIds)
  /\ c.blocks <= e.from /\ e.from < c.end /\ e.to <= c.end
  /\ blk = blockOf(b, c, e, payload(b, e).data)

BlocksIn(b, c, blocks) ==
  \E es : \A i \in 1..Len(blocks) :
    /\ BlockIn(b, c, blocks[i], es[i])
    /\ \A j \in 1..Len(blocks) : i < j => es[i].from < es[j].from

LEMMA ReadBlocksIn ==
  ASSUME NEW b, NEW c, b \in Seq(Cell), c \in FileCluster(b), c.ok, readBlocks(b, c).ok
  PROVE  BlocksIn(b, c, readBlocks(b, c).blocks)
<1> DEFINE kids == Walk(b, c.blocks, c.end, {})
           I == {i \in DOMAIN kids : kids[i].id \in BlockIds}
           found == Where(kids, I)
           blocks == readBlocks(b, c).blocks
           block(e) == blockOf(b, c, e, payload(b, e).data)
<1>1. readBlocks(b, c) = blocksOf(b, c, kids, found) BY DEF readBlocks
<1>2. /\ ~Malformed(kids, c.end)
      /\ blocks = [i \in DOMAIN found |-> block(found[i])]
  <2> HIDE DEF kids, found
  <2>1. CASE \/ ~AllThere(b, c) \/ Malformed(kids, c.end) \/ Has(kids, "EncryptedBlock")
             \/ \E i \in DOMAIN found : ~ReadableBlock(b, found[i])
    <3>1. readBlocks(b, c) = Failed BY <1>1, <2>1 DEF blocksOf
    <3> QED BY <3>1 DEF Failed
  <2>2. CASE ~(\/ ~AllThere(b, c) \/ Malformed(kids, c.end) \/ Has(kids, "EncryptedBlock")
               \/ \E i \in DOMAIN found : ~ReadableBlock(b, found[i]))
    <3>1. readBlocks(b, c) = [ok |-> TRUE, blocks |-> [i \in DOMAIN found |-> block(found[i])]]
      BY <1>1, <2>2 DEF blocksOf
    <3> QED BY <2>2, <3>1 DEF AllThere
  <2> QED BY <2>1, <2>2
<1>3. c.blocks \in Nat /\ c.end \in Int BY DEF FileCluster
<1>4. Walked(b, kids, c.blocks, c.end, {}) BY <1>3, WalkElements
<1>5. \A i \in DOMAIN kids : ~(kids[i].id = "bad" \/ kids[i].to > c.end) BY <1>2 DEF Malformed
<1> HIDE DEF kids
<1>6. kids \in Seq(Elem) /\ DOMAIN kids = 1..Len(kids) BY <1>4 DEF Walked
<1>7. found \in Seq(Elem)
  <2> DEFINE T == Elem
  <2>1. \A i \in 1..Len(kids) : i \in I => kids[i] \in T BY <1>6
  <2> HIDE DEF I, T
  <2>2. kids \in Seq(T) BY <1>6 DEF T
  <2>3. found \in Seq(T) BY <2>1, <2>2, WhereType
  <2> QED BY <2>3 DEF T
<1>8. Picked(found, kids, I)
  <2> HIDE DEF I
  <2> QED BY <1>6, WherePicks
<1> HIDE DEF found
<1>9. PICK m : PickedBy(found, kids, I, m) BY <1>8 DEF Picked
<1>10. Len(blocks) = Len(found) /\ Len(found) \in Nat /\ \A i \in 1..Len(found) : blocks[i] = block(found[i])
  <2> DEFINE T == Elem
  <2> HIDE DEF block, T, blocks
  <2>1. DOMAIN found = 1..Len(found) /\ Len(found) \in Nat BY <1>7 DEF T
  <2>2. blocks = [i \in 1..Len(found) |-> block(found[i])] BY <1>2, <2>1
  <2> QED BY <2>1, <2>2
<1> HIDE DEF blocks
<1>11. ASSUME NEW i \in 1..Len(found)
       PROVE  /\ BlockIn(b, c, blocks[i], found[i]) /\ found[i].to \in Nat /\ found[i].from < found[i].to
              /\ found[i].from \in Nat
  <2> DEFINE e == found[i]
  <2>1. m[i] \in I /\ m[i] \in 1..Len(kids) /\ e = kids[m[i]] BY <1>9 DEF PickedBy
  <2>2. e \in Elem /\ ElemOf(b, e, c.blocks, c.end, {}) /\ e.id \in BlockIds /\ ~(e.to > c.end)
    BY <1>4, <1>5, <1>6, <2>1 DEF Walked
  <2>3. blocks[i] = block(e) BY <1>10
  <2> HIDE DEF e
  <2>4. e.from \in Nat /\ e.to \in Nat /\ e.data \in Nat /\ e.to <= c.end BY <1>3, <2>2 DEF Elem
  <2>5. e.id # "bad" BY <2>2 DEF BlockIds
  <2>6. HeadedBy(b, e) /\ c.blocks <= e.from /\ e.from < c.end /\ e.from < e.to /\ ReadHeaderAt(b, e.from).id = e.id
    BY <2>2, <2>4, <2>5 DEF ElemOf
  <2>7. e.from \in Marks(b, BlockIds)
    <3>1. Prefix(b, b) BY PrefixWhole
    <3>2. HeaderHere(b, b, e.from, ReadHeaderAt(b, e.from)) BY <2>4, <2>5, <2>6, <3>1, HeadIsMark
    <3> QED BY <2>2, <2>6, <3>2 DEF HeaderHere
  <2>8. BlockIn(b, c, blocks[i], e) BY <2>2, <2>3, <2>4, <2>6, <2>7 DEF BlockIn
  <2> QED BY <2>4, <2>6, <2>8 DEF e
<1>12. ASSUME NEW i \in 1..Len(found), NEW j \in 1..Len(found), i < j
       PROVE  found[i].from < found[j].from
  <2>1. m[i] \in 1..Len(kids) /\ m[j] \in 1..Len(kids) /\ m[i] < m[j] /\ found[i] = kids[m[i]] /\ found[j] = kids[m[j]]
    BY <1>9, <1>12 DEF PickedBy
  <2>2. found[i].to <= found[j].from BY <1>4, <2>1 DEF Walked
  <2>3. found[i].to \in Nat /\ found[i].from < found[i].to /\ found[i].from \in Nat /\ found[j].from \in Nat BY <1>11
  <2> QED BY <2>2, <2>3
<1> HIDE DEF blocks
<1>13. BlocksIn(b, c, blocks) BY <1>10, <1>11, <1>12 DEF BlocksIn
<1> QED BY <1>13 DEF blocks

\* The payload of an element, and where it is.
PayloadIs(b, e, data) ==
  /\ At(b, e.data, data) /\ e.to = e.data + Len(data) /\ e.to <= Len(b)
  /\ e.data = e.from + SizeWidth(Len(data))
  /\ e.data \in Nat /\ e.to \in Nat /\ e.from \in Nat /\ SizeWidth(Len(data)) \in Nat

LEMMA PayloadPlaced ==
  ASSUME NEW b, NEW e, NEW id, NEW data, b \in Seq(Cell), e \in Elem, HeadedBy(b, e), id \in Ids,
         data \in Seq(Cell), Small(b), At(b, e.from, AppendElement(id, data))
  PROVE  PayloadIs(b, e, data)
<1> DEFINE n == Len(data)
           s == SizeWidth(n)
           p == e.from
           x == AppendElement(id, data)
<1>1. At(b, e.data, data) /\ e.to = e.data + n /\ e.to <= Len(b) BY PayloadAt
<1>2. e.data \in Nat /\ e.to \in Nat /\ p \in Nat BY DEF Elem
<1>3. Reads(b, p, id, data, p + Len(x)) BY ElementAt
<1>4. Len(x) = s + n BY LenOfElement DEF ElementLen
<1>5. n \in Nat OBVIOUS
<1>6. s \in 1..Wide
  <2>1. n \in Int BY <1>5
  <2> HIDE DEF n
  <2> QED BY <2>1, SizeWidthType
<1>7. s \in Nat BY <1>6, EbmlAssumption
<1> HIDE DEF x
<1>8. PICK w \in Nat : ReadHeaderAt(b, p) = [id |-> id, w |-> w, size |-> n] /\ p + Len(x) = p + w + n
  BY <1>3 DEF Reads
<1>9. w = e.data - p BY <1>8 DEF HeadedBy
<1> HIDE DEF n, s, p
<1>10. w = s BY <1>2, <1>4, <1>5, <1>7, <1>8
<1>11. e.data = p + s BY <1>2, <1>9, <1>10
<1> QED BY <1>1, <1>2, <1>7, <1>11 DEF PayloadIs, n, s, p

FrameCell(at) == [is |-> "frame", at |-> at]

Payload(at, track, v) == <<Num(track), Rel(v), FrameCell(at)>>

Lasts == AppendUint("BlockDuration", 1)

LEMMA TwoAndThree ==
  ASSUME NEW T, NEW a, NEW r, NEW z, a \in T, r \in T, z \in T
  PROVE  <<r>> \o <<z>> = <<r, z>> /\ <<a>> \o <<r, z>> = <<a, r, z>>
<1> DEFINE x == <<a>>
           y == <<r>>
           w == <<z>>
           s == <<r, z>>
           t == <<a, r, z>>
           c == y \o w
           d == x \o s
<1>1. /\ x \in Seq(T) /\ y \in Seq(T) /\ w \in Seq(T) /\ s \in Seq(T) /\ t \in Seq(T)
      /\ Len(x) = 1 /\ Len(y) = 1 /\ Len(w) = 1 /\ Len(s) = 2 /\ Len(t) = 3
      /\ x[1] = a /\ y[1] = r /\ w[1] = z /\ s[1] = r /\ s[2] = z /\ t[1] = a /\ t[2] = r /\ t[3] = z
  OBVIOUS
<1> HIDE DEF x, y, w, s, t
<1>2. Joined(T, y, w) /\ Joined(T, x, s) BY <1>1, ConcatJoins
<1>3. c \in Seq(T) /\ Len(c) = 2 /\ c[1] = r /\ c[2] = z BY <1>1, <1>2 DEF Joined
<1>4. d \in Seq(T) /\ Len(d) = 3 /\ d[1] = a /\ d[2] = r /\ d[3] = z BY <1>1, <1>2 DEF Joined
<1> HIDE DEF c, d
<1>5. (\A i \in 1..2 : c[i] = s[i]) /\ (\A i \in 1..3 : d[i] = t[i]) BY <1>1, <1>3, <1>4
<1>6. c = s BY <1>1, <1>3, <1>5
<1>7. d = t BY <1>1, <1>4, <1>5
<1> QED BY <1>6, <1>7 DEF c, d, s, t, x, y, w

\* How wide the header of a block group is.
GroupLen == ElementLen(3) + Len(Lasts)

\* What the payload of a block at d says.
PayloadSays(b, d, at, track, v) ==
  /\ CellValue(b, d) = track /\ RelValue(b, d + 1) = v /\ b[d + 3] = FrameCell(at) /\ d + 3 <= Len(b)

LEMMA PayloadReads ==
  ASSUME NEW b, NEW d, NEW at, NEW track, NEW v, b \in Seq(Cell), d \in Nat, v \in Int, FitsRel(v),
         At(b, d, Payload(at, track, v))
  PROVE  PayloadSays(b, d, at, track, v)
<1> DEFINE n == Len(b)
           y == Payload(at, track, v)
           r == Rel(v)
<1>1. n \in Nat OBVIOUS
<1>2. Len(y) = 3 /\ y[1] = Num(track) /\ y[2] = r /\ y[3] = FrameCell(at) BY DEF Payload
<1> HIDE DEF y
<1>3. d + 3 <= n /\ b[d + 1] = Num(track) /\ b[d + 2] = r /\ b[d + 3] = FrameCell(at)
  <2>1. 1 \in 1..Len(y) /\ 2 \in 1..Len(y) /\ 3 \in 1..Len(y) BY <1>2
  <2> QED BY <1>2, <2>1 DEF At, y
<1>4. r.is = "rel" /\ r.v = v
  <2>1. RelRange \in Nat /\ RelRange > 0 BY MkvAssumption
  <2>2. v + RelRange >= 0 /\ v + RelRange < 2 * RelRange BY <2>1 DEF FitsRel
  <2> DEFINE w == v + RelRange
             k == 2 * RelRange
  <2>3. w % k = w
    <3>1. w \in Nat /\ k \in Nat /\ k > 0 /\ w < k BY <2>1, <2>2
    <3> HIDE DEF w, k
    <3> QED BY <3>1
  <2> QED BY <2>1, <2>3 DEF Rel
<1>5. CellValue(b, d) = track
  <2>1. Num(track).is = "num" /\ Num(track).v = track BY DEF Num
  <2>2. d < n BY <1>1, <1>3
  <2> QED BY <1>3, <2>1, <2>2 DEF CellValue
<1>6. RelValue(b, d + 1) = v
  <2>1. (d + 1) + 1 = d + 2 OBVIOUS
  <2> QED BY <1>3, <1>4, <2>1 DEF RelValue
<1> QED BY <1>3, <1>5, <1>6 DEF PayloadSays

-----------------------------------------------------------------------------
(* Where the elements of sequences that are put together are.                 *)

\* The n-th of all is that at a place of one of them, in the order of the places.
FlatBy(ss, F, row, col) ==
  /\ \A n \in 1..Len(F) : /\ row[n] \in 1..Len(ss) /\ col[n] \in 1..Len(ss[row[n]])
                          /\ F[n] = ss[row[n]][col[n]]
                          /\ \A m \in 1..Len(F) : m < n => row[m] < row[n] \/ (row[m] = row[n] /\ col[m] < col[n])
  /\ \A k \in 1..Len(ss) : \A i \in 1..Len(ss[k]) : \E n \in 1..Len(F) : row[n] = k /\ col[n] = i

Flat(ss, F) == \E row, col : FlatBy(ss, F, row, col)

LEMMA FlatNone == Flat(<<>>, <<>>)
<1> DEFINE none == <<>>
<1>1. Len(none) = 0 OBVIOUS
<1>2. FlatBy(none, none, none, none)
  <2>1. \A n \in 1..Len(none) : FALSE BY <1>1
  <2> HIDE DEF none
  <2> QED BY <2>1 DEF FlatBy
<1> QED BY <1>2 DEF Flat

LEMMA FlatMore ==
  ASSUME NEW T, NEW ss, NEW s, NEW F, NEW L, NEW N, ss \in Seq(Seq(T)), s \in Seq(T), F \in Seq(T), L = Len(F), N = Len(ss),
         Flat(ss, F)
  PROVE  Flat(Append(ss, s), F \o s)
<1>1. PICK row, col : FlatBy(ss, F, row, col) BY DEF Flat
<1> DEFINE U == Seq(T)
           tt == Append(ss, s)
           G == F \o s
           M == Len(s)
           rows == [n \in 1..(L + M) |-> IF n <= L THEN row[n] ELSE N + 1]
           cols == [n \in 1..(L + M) |-> IF n <= L THEN col[n] ELSE n - L]
<1>2. L \in Nat /\ M \in Nat OBVIOUS
<1>3. N \in Nat /\ Len(tt) = N + 1 /\ tt[N + 1] = s /\ \A k \in 1..N : tt[k] = ss[k]
  <2>1. ss \in Seq(U) /\ s \in U OBVIOUS
  <2> HIDE DEF U
  <2> QED BY <2>1
<1>4. Joined(T, F, s) BY ConcatJoins
<1>5. Len(G) = L + M /\ (\A i \in 1..L : G[i] = F[i]) /\ (\A i \in 1..M : G[L + i] = s[i]) BY <1>4 DEF Joined
<1>6. \A n \in 1..L : rows[n] = row[n] /\ cols[n] = col[n] BY <1>2
<1>7. \A i \in 1..M : rows[L + i] = N + 1 /\ cols[L + i] = i BY <1>2
<1>8. \A n \in 1..L : /\ row[n] \in 1..N /\ col[n] \in 1..Len(ss[row[n]]) /\ F[n] = ss[row[n]][col[n]]
                      /\ \A m \in 1..L : m < n => row[m] < row[n] \/ (row[m] = row[n] /\ col[m] < col[n])
  BY <1>1 DEF FlatBy
<1>9. \A k \in 1..N : \A i \in 1..Len(ss[k]) : \E n \in 1..L : row[n] = k /\ col[n] = i
  <2>1. \A k \in 1..Len(ss) : \A i \in 1..Len(ss[k]) : \E n \in 1..Len(F) : row[n] = k /\ col[n] = i
    BY <1>1, Zenon DEF FlatBy
  <2>2. ASSUME NEW k \in 1..N, NEW i \in 1..Len(ss[k])
        PROVE  \E n \in 1..L : row[n] = k /\ col[n] = i
    <3>1. k \in 1..Len(ss) OBVIOUS
    <3>2. PICK n \in 1..Len(F) : row[n] = k /\ col[n] = i BY <2>1, <3>1, Zenon
    <3>3. n \in 1..L BY <3>2
    <3> QED BY <3>2, <3>3
  <2> QED BY <2>2
<1> HIDE DEF tt, G, rows, cols, M, U
<1>10. ASSUME NEW n \in 1..(L + M)
       PROVE  \/ n \in 1..L
              \/ \E i \in 1..M : n = L + i
  <2>1. CASE n <= L BY <1>2, <2>1
  <2>2. CASE n > L
    <3>1. n - L \in 1..M /\ n = L + (n - L) BY <1>2, <2>2
    <3> QED BY <3>1
  <2> QED BY <1>2, <2>1, <2>2
<1>11. ASSUME NEW n \in 1..(L + M)
       PROVE  rows[n] \in 1..Len(tt) /\ cols[n] \in 1..Len(tt[rows[n]]) /\ G[n] = tt[rows[n]][cols[n]]
  <2>1. CASE n \in 1..L
    <3>1. rows[n] = row[n] /\ cols[n] = col[n] /\ G[n] = F[n] BY <1>5, <1>6, <2>1
    <3>2. row[n] \in 1..N /\ col[n] \in 1..Len(ss[row[n]]) /\ F[n] = ss[row[n]][col[n]] BY <1>8, <2>1
    <3>3. tt[row[n]] = ss[row[n]] /\ row[n] \in 1..Len(tt) BY <1>3, <3>2
    <3> QED BY <3>1, <3>2, <3>3
  <2>2. CASE \E i \in 1..M : n = L + i
    <3>1. PICK i \in 1..M : n = L + i BY <2>2
    <3>2. rows[n] = N + 1 /\ cols[n] = i /\ G[n] = s[i] BY <1>5, <1>7, <3>1
    <3>3. N + 1 \in 1..Len(tt) /\ tt[N + 1] = s BY <1>3
    <3> QED BY <3>2, <3>3 DEF M
  <2> QED BY <1>10, <2>1, <2>2
<1>12. ASSUME NEW n \in 1..(L + M), NEW m \in 1..(L + M), m < n
       PROVE  rows[m] < rows[n] \/ (rows[m] = rows[n] /\ cols[m] < cols[n])
  <2>1. CASE n \in 1..L
    <3>1. m \in 1..L BY <1>2, <1>12, <2>1
    <3>2. rows[n] = row[n] /\ cols[n] = col[n] /\ rows[m] = row[m] /\ cols[m] = col[m] BY <1>6, <2>1, <3>1
    <3>3. row[m] < row[n] \/ (row[m] = row[n] /\ col[m] < col[n]) BY <1>8, <1>12, <2>1, <3>1
    <3> QED BY <3>2, <3>3
  <2>2. CASE \E i \in 1..M : n = L + i
    <3>1. PICK i \in 1..M : n = L + i BY <2>2
    <3>2. rows[n] = N + 1 /\ cols[n] = i BY <1>7, <3>1
    <3>3. CASE m \in 1..L
      <4>1. rows[m] \in 1..N BY <1>6, <1>8, <3>3
      <4> QED BY <1>3, <3>2, <4>1
    <3>4. CASE \E j \in 1..M : m = L + j
      <4>1. PICK j \in 1..M : m = L + j BY <3>4
      <4>2. rows[m] = N + 1 /\ cols[m] = j BY <1>7, <4>1
      <4>3. j < i BY <1>2, <1>12, <3>1, <4>1
      <4> QED BY <3>2, <4>2, <4>3
    <3> QED BY <1>10, <3>3, <3>4
  <2> QED BY <1>10, <2>1, <2>2
<1>13. ASSUME NEW k \in 1..Len(tt), NEW i \in 1..Len(tt[k])
       PROVE  \E n \in 1..(L + M) : rows[n] = k /\ cols[n] = i
  <2>1. CASE k \in 1..N
    <3>1. i \in 1..Len(ss[k]) BY <1>3, <2>1
    <3>2. PICK n \in 1..L : row[n] = k /\ col[n] = i BY <1>9, <2>1, <3>1
    <3>3. n \in 1..(L + M) BY <1>2
    <3> QED BY <1>6, <3>2, <3>3
  <2>2. CASE k = N + 1
    <3>1. i \in 1..M BY <1>3, <2>2 DEF M
    <3>2. L + i \in 1..(L + M) BY <1>2, <3>1
    <3> QED BY <1>7, <2>2, <3>1, <3>2
  <2>3. k \in 1..(N + 1) /\ N \in Nat BY <1>3
  <2>4. k \in 1..N \/ k = N + 1 BY <2>3
  <2> QED BY <2>1, <2>2, <2>4
<1>14. FlatBy(tt, G, rows, cols) BY <1>5, <1>11, <1>12, <1>13 DEF FlatBy
<1>15. Flat(tt, G) BY <1>14 DEF Flat
<1> QED BY <1>15 DEF tt, G

LEMMA FlatPlaces ==
  ASSUME NEW T, NEW ss, ss \in Seq(Seq(T))
  PROVE  Flat(ss, FlattenSeq(ss))
<1> DEFINE U == Seq(T)
           P == {s \in Seq(U) : Flat(s, FlattenSeq(s))}
           none == <<>>
<1>1. none \in P
  <2>1. none \in Seq(U) /\ FlattenSeq(none) = none BY FlattenEmpty
  <2>2. Flat(none, none) BY FlatNone
  <2> HIDE DEF U, none
  <2> QED BY <2>1, <2>2
<1>2. ASSUME NEW s \in Seq(U), NEW e \in U, s \in P PROVE Append(s, e) \in P
  <2>1. FlattenSeq(s) \in Seq(T) /\ FlattenSeq(Append(s, e)) = FlattenSeq(s) \o e BY FlattenType, FlattenAppend
  <2>2. Flat(s, FlattenSeq(s)) BY <1>2
  <2> DEFINE F == FlattenSeq(s)
             L == Len(F)
             N == Len(s)
             t == Append(s, e)
             G == F \o e
  <2>3. s \in Seq(Seq(T)) /\ e \in Seq(T) OBVIOUS
  <2> HIDE DEF F
  <2>4. Flat(t, G)
    <3>1. F \in Seq(T) /\ Flat(s, F) BY <2>1, <2>2 DEF F
    <3>2. L = Len(F) /\ N = Len(s) OBVIOUS
    <3> HIDE DEF L, N
    <3> QED BY <2>3, <3>1, <3>2, FlatMore
  <2>5. t \in Seq(U)
    <3> HIDE DEF U
    <3> QED OBVIOUS
  <2>6. FlattenSeq(t) = G BY <2>1 DEF F
  <2> HIDE DEF t, G, U
  <2>7. Flat(t, FlattenSeq(t)) BY <2>4, <2>6
  <2> QED BY <2>5, <2>7 DEF t
<1> HIDE DEF P, U, none
<1>3. Seq(U) \subseteq P BY <1>1, <1>2, AppendInduction DEF none
<1>4. ss \in P BY <1>3 DEF U
<1> QED BY <1>4 DEF P

-----------------------------------------------------------------------------
(* What a block carries.                                                      *)

LEMMA PayloadClear ==
  ASSUME NEW at, NEW track, NEW v, NEW ids
  PROVE  Clear(Payload(at, track, v), ids)
<1> DEFINE y == Payload(at, track, v)
<1>1. Len(y) = 3 /\ y[1].is = "num" /\ y[2].is = "rel" /\ y[3].is = "frame"
  BY DEF Payload, Num, Rel, FrameCell
<1> HIDE DEF y
<1>2. ASSUME NEW p \in Marks(y, ids) PROVE FALSE
  <2>1. p \in 0..2 /\ y[p + 1].is = "head" BY <1>1 DEF Marks
  <2>2. p + 1 = 1 \/ p + 1 = 2 \/ p + 1 = 3 BY <2>1
  <2> QED BY <1>1, <2>1, <2>2
<1> QED BY <1>2 DEF Clear, y

\* The ids of a block's elements.
InBlock == {"SimpleBlock", "BlockGroup", "Block", "BlockDuration"}

\* The ids of what is looked for at the top of a file.
HeadIds == {"Info", "Tracks", "Attachments", "Cluster"}

\* What a cluster carries that starts with its timestamp.
LEMMA TimedCarries ==
  ASSUME NEW t, NEW rest, NEW U, NEW D, t \in Int, rest \in Seq(Cell), Carries(rest, BlockIds, U, D)
  PROVE  Carries(TimedElement(t, rest), BlockIds, U, D)
<1> DEFINE ts == AppendUint("Timestamp", t)
           body == ts \o rest
           n == Len(body)
           h == AppendSizeWidth("Cluster", n, Wide)
<1>1. {"Cluster", "Timestamp"} \subseteq Ids /\ "Cluster" \notin BlockIds /\ "Timestamp" \notin BlockIds
  BY DEF Ids, BlockIds
<1>2. ts \in Seq(Cell) /\ Clear(ts, BlockIds) BY <1>1, UintMarks
<1>3. TimedElement(t, rest) = h \o body BY DEF TimedElement, TimedBody
<1> HIDE DEF ts
<1>4. Carries(body, BlockIds, U, D) /\ body \in Seq(Cell) BY <1>2, CarriesAround
<1>5. n \in Int BY <1>4
<1>6. Wide \in Nat /\ Wide > 0 BY EbmlAssumption
<1> HIDE DEF n, body
<1>7. h \in Seq(Cell) /\ Clear(h, BlockIds) BY <1>1, <1>5, <1>6, HeaderMarks
<1> HIDE DEF h
<1>8. Carries(h \o body, BlockIds, U, D) BY <1>4, <1>7, CarriesAround
<1> QED BY <1>3, <1>8

\* The header of a cluster of no known size, and the rest of any cluster, have no other header
\* of the top of a file.
LEMMA ClusterHeadMarks ==
  ASSUME NEW t, NEW rest, NEW n, NEW ids, t \in Int, rest \in Seq(Cell), n \in Int, Clear(rest, ids), "Timestamp" \notin ids
  PROVE  /\ Marks(AppendSizeWidth("Cluster", n, Wide) \o TimedBody(t, rest), ids) \subseteq {0}
         /\ AppendSizeWidth("Cluster", n, Wide) \o TimedBody(t, rest) \in Seq(Cell)
         /\ AppendSizeWidth("Cluster", n, Wide) \in Seq(Cell) /\ TimedBody(t, rest) \in Seq(Cell)
<1> DEFINE ts == AppendUint("Timestamp", t)
           body == TimedBody(t, rest)
           h == AppendSizeWidth("Cluster", n, Wide)
<1>1. {"Cluster", "Timestamp"} \subseteq Ids BY DEF Ids
<1>2. ts \in Seq(Cell) /\ Clear(ts, ids) BY <1>1, UintMarks
<1>3. body = ts \o rest BY DEF TimedBody
<1> HIDE DEF ts, body
<1>4. Clear(body, ids) /\ body \in Seq(Cell) BY <1>2, <1>3, ClearConcat
<1>6. Wide \in Nat /\ Wide > 0 BY EbmlAssumption
<1>7. h \in Seq(Cell) /\ Marks(h, ids) \subseteq {0} /\ Len(h) = Wide BY <1>1, <1>6, HeaderMarks
<1> HIDE DEF h
<1>8. Marks(h \o body, ids) \subseteq {0} BY <1>4, <1>6, <1>7, FramedMarks
<1>9. h \o body \in Seq(Cell) BY <1>4, <1>7
<1> QED BY <1>4, <1>7, <1>8, <1>9 DEF h, body

\* Cells without one of these headers.
Plain(ids) == {x \in Seq(Cell) : Clear(x, ids)}

PlainMade(ids) ==
  /\ <<>> \in Plain(ids)
  /\ \A x, y \in Plain(ids) : x \o y \in Plain(ids)
  /\ \A c \in Cell : c.is # "head" => <<c>> \in Plain(ids)
  /\ \A id \in Ids : id \notin ids =>
       /\ \A x \in Plain(ids) : AppendElement(id, x) \in Plain(ids)
       /\ \A v \in Int : AppendUint(id, v) \in Plain(ids)
       /\ \A v \in Int : \A w \in Nat : AppendUintWidth(id, v, w) \in Plain(ids)
       /\ \A n \in Int : \A w \in Nat : w > 0 => AppendSizeWidth(id, n, w) \in Plain(ids)
  /\ \A ss \in Seq(Plain(ids)) : FlattenSeq(ss) \in Plain(ids)

LEMMA PlainCells ==
  ASSUME NEW ids
  PROVE  PlainMade(ids)
<1> DEFINE P == Plain(ids)
<1>1. \A x : x \in P <=> x \in Seq(Cell) /\ Clear(x, ids) BY DEF Plain
<1> HIDE DEF P
<1>2. <<>> \in P
  <2>1. <<>> \in Seq(Cell) OBVIOUS
  <2> QED BY <1>1, <2>1, MarksOfNone
<1>3. ASSUME NEW x \in P, NEW y \in P PROVE x \o y \in P
  <2>1. x \in Seq(Cell) /\ y \in Seq(Cell) /\ Clear(x, ids) /\ Clear(y, ids) BY <1>1
  <2>2. x \o y \in Seq(Cell) BY <2>1
  <2>3. Clear(x \o y, ids) BY <2>1, ClearConcat
  <2> QED BY <1>1, <2>2, <2>3
<1>4. ASSUME NEW c \in Cell, c.is # "head" PROVE <<c>> \in P
  <2>1. Clear(<<c>>, ids) BY <1>4, OneMark
  <2>2. <<c>> \in Seq(Cell) OBVIOUS
  <2> QED BY <1>1, <2>1, <2>2
<1>5. ASSUME NEW id \in Ids, id \notin ids, NEW x \in P PROVE AppendElement(id, x) \in P
  <2>1. x \in Seq(Cell) /\ Clear(x, ids) BY <1>1
  <2>2. Clear(AppendElement(id, x), ids) /\ AppendElement(id, x) \in Seq(Cell) BY <1>5, <2>1, ElementMarks
  <2> QED BY <1>1, <2>2
<1>6. ASSUME NEW id \in Ids, id \notin ids, NEW v \in Int PROVE AppendUint(id, v) \in P
  <2>1. Clear(AppendUint(id, v), ids) /\ AppendUint(id, v) \in Seq(Cell) BY <1>6, UintMarks
  <2> QED BY <1>1, <2>1
<1>7. ASSUME NEW id \in Ids, id \notin ids, NEW v \in Int, NEW w \in Nat PROVE AppendUintWidth(id, v, w) \in P
  <2>1. Clear(AppendUintWidth(id, v, w), ids) /\ AppendUintWidth(id, v, w) \in Seq(Cell) BY <1>7, UintWidthMarks
  <2> QED BY <1>1, <2>1
<1>8. ASSUME NEW id \in Ids, id \notin ids, NEW n \in Int, NEW w \in Nat, w > 0 PROVE AppendSizeWidth(id, n, w) \in P
  <2>1. Clear(AppendSizeWidth(id, n, w), ids) /\ AppendSizeWidth(id, n, w) \in Seq(Cell) BY <1>8, HeaderMarks
  <2> QED BY <1>1, <2>1
<1>9. ASSUME NEW ss \in Seq(P) PROVE FlattenSeq(ss) \in P
  <2> DEFINE T == Seq(Cell)
  <2>1. P \subseteq T BY <1>1
  <2>2. ss \in Seq(T) BY <2>1
  <2>3. \A i \in 1..Len(ss) : ss[i] \in P OBVIOUS
  <2>4. \A i \in 1..Len(ss) : Clear(ss[i], ids) BY <1>1, <2>3
  <2>5. ss \in Seq(Seq(Cell)) BY <2>2
  <2>6. Clear(FlattenSeq(ss), ids) BY <2>4, <2>5, ClearFlatten
  <2>7. FlattenSeq(ss) \in Seq(Cell) BY <2>5, FlattenType
  <2> QED BY <1>1, <2>6, <2>7
<1>10. \A x, y \in P : x \o y \in P BY <1>3
<1>11. \A ss \in Seq(P) : FlattenSeq(ss) \in P BY <1>9
<1> QED BY <1>2, <1>4, <1>5, <1>6, <1>7, <1>8, <1>10, <1>11 DEF PlainMade, P

\* Everything else that is in a file or a clip has none of the headers looked for at its top.
OtherIds == {"EBML", "Segment", "SeekHead", "Seek", "SeekID", "SeekPosition", "TrackEntry", "TrackNumber", "TrackType",
             "TimestampScale", "Title", "Duration", "Tags", "Void", "Cues", "CuePoint", "CueTime",
             "CueTrackPositions", "CueTrack", "CueClusterPosition"}

LEMMA OtherIdsAre == OtherIds \subseteq Ids /\ OtherIds \cap HeadIds = {}
<1> QED BY DEF OtherIds, Ids, HeadIds

SeekIds == {"SeekHead", "Seek", "SeekID", "SeekPosition"}

LEMMA SeekHeadPlain ==
  ASSUME NEW ps, NEW ids, ps \in SeekPositions, ids \cap SeekIds = {}
  PROVE  seekHead(ps) \in Plain(ids)
<1> DEFINE P == Plain(ids)
           T == Ids \X Int
           ss == Seeks(ps)
<1>1. PlainMade(ids) BY PlainCells
<1>2. \A id \in SeekIds : id \in Ids /\ id \notin ids BY DEF SeekIds, Ids
<1>3. {"SeekHead", "Seek", "SeekID", "SeekPosition"} \subseteq SeekIds BY DEF SeekIds
<1>4. /\ \A x, y \in P : x \o y \in P
      /\ \A c \in Cell : c.is # "head" => <<c>> \in P
      /\ \A id \in SeekIds : \A x \in P : AppendElement(id, x) \in P
      /\ \A id \in SeekIds : \A v \in Int : \A w \in Nat : AppendUintWidth(id, v, w) \in P
      /\ \A s \in Seq(P) : FlattenSeq(s) \in P
  BY <1>1, <1>2 DEF PlainMade
<1> HIDE DEF P
<1>5. ASSUME NEW id \in Ids, NEW v \in Int PROVE AppendElement("Seek", SeekEntry(id, v)) \in P
  <2>1. Id(id) \in Cell /\ Id(id).is # "head" BY NewCells DEF Id
  <2>2. AppendElement("SeekID", <<Id(id)>>) \in P BY <1>3, <1>4, <2>1
  <2>3. Wide \in Nat BY EbmlAssumption
  <2>4. AppendUintWidth("SeekPosition", v, Wide) \in P BY <1>3, <1>4, <2>3
  <2>5. SeekEntry(id, v) \in P BY <1>4, <2>2, <2>4 DEF SeekEntry
  <2> QED BY <1>3, <1>4, <2>5
<1>6. ps \in Seq(T) BY DEF SeekPositions
<1>7. \A i \in 1..Len(ps) : ps[i] \in T BY <1>6
<1>8. \A i \in 1..Len(ps) : AppendElement("Seek", SeekEntry(ps[i][1], ps[i][2])) \in P BY <1>5, <1>7
<1> HIDE DEF T
<1>9. Len(ps) \in Nat /\ DOMAIN ps = 1..Len(ps) BY <1>6
<1>10. ss \in [1..Len(ps) -> P] BY <1>8, <1>9 DEF Seeks
<1> HIDE DEF ss
<1>11. ss \in Seq(P) BY <1>9, <1>10, FunctionIsSequence
<1>12. seekHead(ps) = AppendElement("SeekHead", FlattenSeq(ss)) BY SeekHeadIs DEF ss
<1>13. AppendElement("SeekHead", FlattenSeq(ss)) \in P BY <1>3, <1>4, <1>11
<1> QED BY <1>12, <1>13 DEF P

-----------------------------------------------------------------------------
(* A cluster of no known size.                                                *)

InCluster == {"Cluster"}

\* A header of no known size is read as one.
LEMMA LiveHeadRead ==
  ASSUME NEW F, NEW p, NEW x, F \in Seq(Cell), x \in Seq(Cell), p \in Nat,
         At(F, p, AppendSizeWidth("Cluster", Pow(SizeBase, Wide) - 1, Wide) \o x)
  PROVE  ReadHeaderAt(F, p).id = "bad" \/ ReadHeaderAt(F, p).size = UnknownSize
<1> DEFINE m == Pow(SizeBase, Wide)
           n == (m - 1) % m
           c == [is |-> "head", id |-> "Cluster", size |-> n, w |-> Wide]
           y == AppendSizeWidth("Cluster", m - 1, Wide)
<1>1. Wide \in Nat /\ Wide > 0 /\ "Cluster" \in Ids BY EbmlAssumption DEF Ids
<1>2. m \in Nat /\ m > 0
  <2>1. SizeBase \in Nat /\ SizeBase > 0 BY EbmlAssumption
  <2> QED BY <1>1, <2>1, PowNat
<1>3. y = Cells(c, Wide) BY DEF AppendSizeWidth
<1> HIDE DEF m
<1>4. n = m - 1 BY <1>2
<1> HIDE DEF n
<1>5. c.is = "head" /\ c.size = m - 1 /\ c.w = Wide BY <1>4
<1>6. y \in Seq(Cell) /\ m - 1 \in Int
  <2>1. m - 1 \in Int BY <1>2
  <2> QED BY <1>1, <2>1, SizeHeaderType
<1>7. y[1] = c /\ Len(y) = Wide
  <2>1. 1 \in 1..Wide BY <1>1
  <2>2. Len(Cells(c, Wide)) = Wide BY <1>1 DEF Cells
  <2> QED BY <1>3, <2>1, <2>2 DEF Cells
<1> HIDE DEF c, y
<1>8. At(F, p, y) BY <1>6, AtParts DEF y, m
<1>9. F[p + 1] = c
  <2>1. 1 \in 1..Len(y) BY <1>1, <1>7
  <2> QED BY <1>7, <1>8, <2>1 DEF At
<1> QED BY <1>5, <1>9 DEF ReadHeaderAt, m

LEMMA AtWithin ==
  ASSUME NEW F, NEW p, NEW x, NEW q, NEW u, F \in Seq(Cell), x \in Seq(Cell), u \in Seq(Cell),
         At(F, p, x), At(x, q, u)
  PROVE  At(F, p + q, u)
<1>1. Len(x) \in Nat /\ Len(u) \in Nat /\ Len(F) \in Nat OBVIOUS
<1>2. /\ p \in Nat /\ p + Len(x) <= Len(F) /\ \A i \in 1..Len(x) : F[p + i] = x[i]
      /\ q \in Nat /\ q + Len(u) <= Len(x) /\ \A i \in 1..Len(u) : x[q + i] = u[i]
  BY DEF At
<1>3. p + q \in Nat /\ p + q + Len(u) <= Len(F) BY <1>1, <1>2
<1>4. ASSUME NEW i \in 1..Len(u) PROVE F[p + q + i] = u[i]
  <2>1. q + i \in 1..Len(x) /\ p + (q + i) = p + q + i BY <1>1, <1>2
  <2> QED BY <1>2, <2>1
<1> QED BY <1>3, <1>4 DEF At

AtParted(b, p, x, y) == At(b, p, x) /\ At(b, p + Len(x), y) /\ Len(x \o y) = Len(x) + Len(y)

LEMMA AtTwo ==
  ASSUME NEW b, NEW p, NEW x, NEW y, x \in Seq(Cell), y \in Seq(Cell), b \in Seq(Cell), At(b, p, x \o y)
  PROVE  AtParted(b, p, x, y)
BY AtParts DEF AtParted

\* The last sequences of some that are put together.
LEMMA LastParts ==
  ASSUME NEW ss, NEW cells, NEW k, ss \in Seq(Seq(Cell)), k \in Nat, Len(cells) \in Nat, Len(ss) = k + Len(cells),
         cells \in Seq(Seq(Cell)), \A i \in 1..Len(cells) : ss[k + i] = cells[i]
  PROVE  FlattenSeq(ss) = FlattenSeq(SubSeq(ss, 1, k)) \o FlattenSeq(cells)
<1> DEFINE U == Seq(Cell)
           tt == SubSeq(ss, 1, k)
           n == Len(cells)
           whole == tt \o cells
<1>1. ss \in Seq(U) /\ cells \in Seq(U) /\ n \in Nat /\ Len(ss) = k + n OBVIOUS
<1> HIDE DEF U, n
<1>2. tt \in Seq(U) /\ Len(tt) = k /\ \A i \in 1..k : tt[i] = ss[i]
  <2>1. 0 \in Nat /\ 0 + k <= Len(ss) /\ 0 + 1 = 1 /\ 0 + k = k BY <1>1
  <2>2. SubSeq(ss, 0 + 1, 0 + k) \in Seq(U) /\ Len(SubSeq(ss, 0 + 1, 0 + k)) = k BY <1>1, <2>1, SliceType
  <2>3. tt \in Seq(U) /\ Len(tt) = k BY <2>1, <2>2
  <2>4. \A i \in 1..k : tt[i] = ss[i] BY <1>1, <2>1
  <2> QED BY <2>3, <2>4
<1> HIDE DEF tt
<1>3. Joined(U, tt, cells) BY <1>1, <1>2, ConcatJoins
<1>4. /\ whole \in Seq(U) /\ Len(whole) = k + n
      /\ \A i \in 1..k : whole[i] = ss[i]
      /\ \A i \in 1..n : whole[k + i] = cells[i]
  BY <1>2, <1>3 DEF Joined, n
<1> HIDE DEF whole
<1>5. \A i \in 1..n : ss[k + i] = cells[i] BY DEF n
<1>6. ASSUME NEW i \in 1..(k + n) PROVE ss[i] = whole[i]
  <2>1. CASE i <= k BY <1>4, <2>1
  <2>2. CASE ~(i <= k)
    <3> DEFINE j == i - k
    <3>1. j \in 1..n /\ k + j = i BY <1>1, <2>2
    <3> HIDE DEF j
    <3>2. ss[k + j] = cells[j] /\ whole[k + j] = cells[j] BY <1>4, <1>5, <3>1
    <3> QED BY <3>1, <3>2
  <2> QED BY <2>1, <2>2
<1>7. ss = whole
  <2> DEFINE w == k + n
  <2>1. ss \in Seq(U) /\ whole \in Seq(U) /\ Len(ss) = w /\ Len(whole) = w /\ \A i \in 1..w : ss[i] = whole[i]
    BY <1>1, <1>4, <1>6
  <2> HIDE DEF w
  <2> QED BY <2>1
<1>8. tt \in Seq(Seq(Cell)) BY <1>2 DEF U
<1>9. FlattenSeq(tt \o cells) = FlattenSeq(tt) \o FlattenSeq(cells) BY <1>8, FlattenConcat
<1> QED BY <1>7, <1>9 DEF whole, tt

-----------------------------------------------------------------------------
(* Elements that follow each other in b.                                      *)

\* The sequences ss are in b, one after the other from d to end.
RowAt(b, d, ss, end) ==
  /\ d \in Nat /\ end \in Nat /\ end <= Len(b) /\ Len(ss) \in Nat
  /\ d + Start(ss, 1) = d /\ d + Start(ss, Len(ss) + 1) = end
  /\ \A i \in 1..Len(ss) :
       /\ d + Start(ss, i) \in Nat /\ Len(ss[i]) \in Nat /\ At(b, d + Start(ss, i), ss[i])
       /\ d + Start(ss, i + 1) = (d + Start(ss, i)) + Len(ss[i])
       /\ (d + Start(ss, i)) + Len(ss[i]) <= end

LEMMA RowPlaces ==
  ASSUME NEW b, NEW d, NEW ss, b \in Seq(Cell), ss \in Seq(Seq(Cell)), At(b, d, FlattenSeq(ss))
  PROVE  RowAt(b, d, ss, d + Len(FlattenSeq(ss)))
<1> DEFINE n == Len(ss)
           total == Len(FlattenSeq(ss))
           end == d + total
           p(i) == d + Start(ss, i)
<1>1. n \in Nat /\ \A i \in 1..n : ss[i] \in Seq(Cell)
  <2> DEFINE U == Seq(Cell)
  <2>1. ss \in Seq(U) OBVIOUS
  <2> HIDE DEF U
  <2>2. n \in Nat /\ \A i \in 1..n : ss[i] \in U BY <2>1
  <2> QED BY <2>2 DEF U
<1>2. d \in Nat /\ p(1) = d /\ p(n + 1) = end /\ end \in Nat /\ total \in Nat
  <2>1. d \in Nat BY DEF At
  <2>2. Start(ss, 1) = 0 /\ Start(ss, n + 1) = total BY StartEnds
  <2>3. d + 0 = d BY <2>1
  <2>4. p(n + 1) = end BY <2>2
  <2>5. FlattenSeq(ss) \in Seq(Cell) BY FlattenType
  <2>6. total \in Nat BY <2>5
  <2>7. end \in Nat BY <2>1, <2>6
  <2> HIDE DEF end, n, total
  <2> QED BY <2>1, <2>2, <2>3, <2>4, <2>6, <2>7
<1>3. end <= Len(b) BY DEF At
<1>4. ASSUME NEW i \in 1..n
      PROVE  /\ p(i) \in Nat /\ p(i + 1) = p(i) + Len(ss[i]) /\ Len(ss[i]) \in Nat
             /\ p(i) + Len(ss[i]) <= end
  <2> DEFINE x == ss[i]
  <2>1. x \in Seq(Cell) BY <1>1
  <2>2. Start(ss, i + 1) <= total
    <3>1. CASE i = n
      <4>1. Start(ss, n + 1) = total BY StartEnds
      <4> HIDE DEF total, n
      <4> QED BY <1>2, <3>1, <4>1
    <3>2. CASE i # n
      <4>1. i + 1 \in 1..n BY <1>1, <3>2
      <4> QED BY <4>1, StartInside
    <3> QED BY <3>1, <3>2
  <2>3. Starts(ss, i) BY StartStep
  <2> HIDE DEF x, total
  <2>4. Len(x) \in Nat BY <2>1
  <2>5. Start(ss, i) \in Nat /\ Start(ss, i + 1) = Start(ss, i) + Len(x) BY <2>3 DEF Starts, x
  <2>6. p(i) \in Nat /\ p(i + 1) = p(i) + Len(x) /\ p(i) + Len(x) <= end BY <1>2, <2>2, <2>4, <2>5
  <2> QED BY <2>4, <2>6 DEF x
<1>5. \A i \in 1..n : At(b, p(i), ss[i]) BY FlattenAt DEF EachAt
<1> HIDE DEF end
<1>6. /\ d \in Nat /\ end \in Nat /\ end <= Len(b) /\ n \in Nat /\ p(1) = d /\ p(n + 1) = end
      /\ \A i \in 1..n : /\ p(i) \in Nat /\ Len(ss[i]) \in Nat /\ At(b, p(i), ss[i])
                         /\ p(i + 1) = p(i) + Len(ss[i]) /\ p(i) + Len(ss[i]) <= end
  BY <1>1, <1>2, <1>3, <1>4, <1>5
<1> QED BY <1>6 DEF RowAt, end

\* The first n of these elements, as a walk gives them.
Firsts(b, s, d, ss, ids, n) ==
  /\ s \in Seq(Elem) /\ Len(s) = n
  /\ \A i \in 1..n : /\ s[i] \in Elem /\ s[i].id = ids[i] /\ HeadedBy(b, s[i])
                     /\ s[i].from = d + Start(ss, i) /\ s[i].to = d + Start(ss, i + 1)

GoesOn(b, d, end, ss, ids, n, stop) ==
  \E v : /\ Firsts(b, v, d, ss, ids, n)
         /\ Walk(b, d, end, stop) = v \o Walk(b, d + Start(ss, n + 1), end, stop)

\* The next element of a walk.
LEMMA GoesOnMore ==
  ASSUME NEW b, NEW d, NEW end, NEW ss, NEW ids, NEW stop, NEW i, b \in Seq(Cell), RowAt(b, d, ss, end),
         i \in 1..Len(ss), Framed(b, ss[i], ids[i]), ids[i] \notin stop, GoesOn(b, d, end, ss, ids, i - 1, stop)
  PROVE  GoesOn(b, d, end, ss, ids, i, stop)
<1> DEFINE p(j) == d + Start(ss, j)
           x == ss[i]
           l == Len(x)
           id == ids[i]
           r == p(i)
           to == p(i + 1)
<1>1. r \in Nat /\ l \in Nat /\ At(b, r, x) /\ to = r + l /\ r + l <= end /\ end \in Nat BY DEF RowAt
<1>2. PICK w \in Nat : w <= l /\ HeadIs(b, r, id, w, l - w) BY <1>1 DEF Framed
<1>3. PICK v : Firsts(b, v, d, ss, ids, i - 1) /\ Walk(b, d, end, stop) = v \o Walk(b, p((i - 1) + 1), end, stop)
  BY DEF GoesOn
<1>4. i \in Int /\ (i - 1) + 1 = i /\ i - 1 \in Nat BY DEF RowAt
<1> DEFINE m == l - w
           e == Element(id, r, r + w, to)
           after == Walk(b, to, end, stop)
<1> HIDE DEF l
<1>5. w > 0 BY <1>2 DEF HeadIs
<1>6. r < end /\ r + w + m = to /\ r + w \in Nat /\ to \in Nat
  <2> HIDE DEF r, to
  <2> QED BY <1>1, <1>2, <1>5
<1>7. HeadIs(b, r, id, w, m) /\ id \notin stop BY <1>2
<1>8. id \in Ids
  <2>1. HeaderOf(b, r, ReadHeaderAt(b, r)) BY <1>1, HeaderRead
  <2> QED BY <1>7, <2>1 DEF HeadIs, HeaderOf
<1>9. Walk(b, p(i), end, stop) = <<e>> \o after
  <2> HIDE DEF m, r, id, to
  <2>1. WalkStarts(b, r, end, stop, id, w, m) BY <1>1, <1>6, <1>7, WalkStep
  <2> QED BY <1>6, <2>1 DEF WalkStarts, r
<1>10. e \in Elem /\ e.id = id /\ e.from = r /\ e.to = to /\ e.data = r + w
  <2> HIDE DEF r, id, to
  <2> QED BY <1>1, <1>6, <1>8 DEF Elem, Element
<1>11. HeadedBy(b, e)
  <2>1. (r + w) - r = w /\ to - (r + w) = m
    <3> HIDE DEF r, to
    <3> QED BY <1>1, <1>6, <1>2
  <2> HIDE DEF e, m, r, id, to
  <2> QED BY <1>7, <1>10, <2>1 DEF HeadedBy, HeadIs
<1>12. v \in Seq(Elem) /\ after \in Seq(Elem)
  <2>1. v \in Seq(Elem) BY <1>3 DEF Firsts
  <2> HIDE DEF to
  <2>2. end \in Int BY <1>1
  <2>3. Walked(b, after, to, end, stop) BY <1>6, <2>2, WalkElements
  <2> QED BY <2>1, <2>3 DEF Walked
<1> DEFINE s == v \o <<e>>
<1>13. Walk(b, d, end, stop) = s \o after
  <2>1. Walk(b, d, end, stop) = v \o (<<e>> \o after)
    <3> HIDE DEF e, after, p
    <3> QED BY <1>3, <1>4, <1>9
  <2>2. <<e>> \in Seq(Elem) BY <1>10
  <2> DEFINE u == <<e>>
             T == Elem
  <2> HIDE DEF u, after, e, T
  <2>3. Regrouping(v, u, after)
    <3>1. v \in Seq(T) /\ u \in Seq(T) /\ after \in Seq(T) BY <1>12, <2>2 DEF u, T
    <3> QED BY <3>1, Associated
  <2>4. (v \o u) \o after = v \o (u \o after) BY <2>3 DEF Regrouping
  <2> QED BY <2>1, <2>4 DEF u
<1>14. Firsts(b, s, d, ss, ids, i)
  <2> DEFINE k == i - 1
             T == Elem
  <2>1. Len(v) = k /\ k \in Nat /\ i = k + 1 BY <1>3, <1>4 DEF Firsts
  <2>2. e \in T /\ v \in Seq(T) BY <1>10, <1>12
  <2> HIDE DEF k, T, e
  <2>3. s \in Seq(T) /\ Len(s) = k + 1 /\ s[k + 1] = e /\ \A j \in 1..k : s[j] = v[j]
    <3> DEFINE u == <<e>>
    <3>1. u \in Seq(T) /\ Len(u) = 1 /\ u[1] = e BY <2>2
    <3> HIDE DEF u
    <3>2. Joined(T, v, u) BY <2>2, <3>1, ConcatJoins
    <3>3. s = v \o u BY DEF u
    <3> HIDE DEF s
    <3>4. 1 \in 1..1 OBVIOUS
    <3> QED BY <2>1, <3>1, <3>2, <3>3, <3>4 DEF Joined
  <2>4. \A j \in 1..k : /\ v[j] \in Elem /\ v[j].id = ids[j] /\ HeadedBy(b, v[j])
                        /\ v[j].from = p(j) /\ v[j].to = p(j + 1)
    BY <1>3 DEF Firsts, k
  <2>5. e \in Elem /\ e.id = ids[i] /\ HeadedBy(b, e) /\ e.from = p(i) /\ e.to = p(i + 1)
    BY <1>10, <1>11
  <2> HIDE DEF s, p
  <2>6. \A j \in 1..i : j \in 1..k \/ j = i BY <2>1
  <2>7. \A j \in 1..i : /\ s[j] \in Elem /\ s[j].id = ids[j] /\ HeadedBy(b, s[j])
                        /\ s[j].from = p(j) /\ s[j].to = p(j + 1)
    BY <2>1, <2>3, <2>4, <2>5, <2>6
  <2> QED BY <2>1, <2>3, <2>7 DEF Firsts, p, T
<1> HIDE DEF s
<1> QED BY <1>13, <1>14 DEF GoesOn

\* A walk starts with these elements while none of them is one it stops at.
LEMMA WalkTops ==
  ASSUME NEW b, NEW d, NEW end, NEW ss, NEW ids, NEW k, NEW stop, b \in Seq(Cell), RowAt(b, d, ss, end), k \in 0..Len(ss),
         \A i \in 1..k : Framed(b, ss[i], ids[i]) /\ ids[i] \notin stop
  PROVE  GoesOn(b, d, end, ss, ids, k, stop)
<1> DEFINE S == {i \in 0..k : GoesOn(b, d, end, ss, ids, i, stop)}
<1>1. 0 \in S
  <2> DEFINE v == Walk(b, d, end, stop)
  <2>1. d + Start(ss, 0 + 1) = d /\ d \in Nat /\ end \in Int BY DEF RowAt
  <2>2. Walked(b, v, d, end, stop) BY <2>1, WalkElements
  <2>3. v \in Seq(Elem) BY <2>2 DEF Walked
  <2> HIDE DEF v
  <2>4. <<>> \o v = v BY <2>3
  <2>5. Firsts(b, <<>>, d, ss, ids, 0) BY DEF Firsts
  <2>6. GoesOn(b, d, end, ss, ids, 0, stop) BY <2>1, <2>4, <2>5 DEF GoesOn, v
  <2> QED BY <2>6
<1>2. ASSUME NEW i \in 0..k, i > 0, i - 1 \in S PROVE i \in S
  <2>1. i \in 1..k /\ i \in 1..Len(ss) BY <1>2 DEF RowAt
  <2>2. Framed(b, ss[i], ids[i]) /\ ids[i] \notin stop BY <2>1
  <2>3. GoesOn(b, d, end, ss, ids, i - 1, stop) BY <1>2
  <2> HIDE DEF S
  <2>4. GoesOn(b, d, end, ss, ids, i, stop) BY <2>1, <2>2, <2>3, GoesOnMore
  <2> QED BY <2>4 DEF S
<1>3. k \in Nat BY DEF RowAt
<1>4. Within(0, k, S)
  <2> HIDE DEF S
  <2> QED BY <1>1, <1>2, <1>3, RangeInduction
<1>5. k \in S
  <2> HIDE DEF S
  <2> QED BY <1>3, <1>4 DEF Within
<1> QED BY <1>5

\* A walk ends with an element it stops at.
LEMMA WalkStops ==
  ASSUME NEW b, NEW p, NEW end, NEW stop, NEW id, NEW w, NEW n, b \in Seq(Cell), p \in Nat, end \in Nat, p < end,
         HeadIs(b, p, id, w, n), id \in stop
  PROVE  Walk(b, p, end, stop) = <<Element(id, p, p + w, p)>>
<1>1. end \in Int OBVIOUS
<1>2. WalkGoes(b, p, end, stop) BY <1>1, WalkRecursion
<1>3. PICK g : WalkedBy(b, p, end, stop, g) BY <1>2 DEF WalkGoes
<1>4. p \in p..end OBVIOUS
<1> DEFINE v == IF WalkTo(b, p) < end THEN g[WalkTo(b, p)] ELSE <<>>
<1>5. Walk(b, p, end, stop) = WalkRest(b, p, stop, v) BY <1>3, <1>4 DEF WalkedBy
<1>6. ReadHeaderAt(b, p).id = id /\ ReadHeaderAt(b, p).w = w BY DEF HeadIs
<1> HIDE DEF v
<1> QED BY <1>5, <1>6 DEF WalkRest

\* A walk over these elements: the first k of them, and the one it stops at.
StopsAt(b, s, d, ss, ids, k, stop) ==
  IF k = Len(ss) THEN Len(s) = k
  ELSE LET e == s[k + 1]
       IN  /\ Len(s) = k + 1 /\ ids[k + 1] \in stop /\ e \in Elem /\ e.id = ids[k + 1]
           /\ e.from = d + Start(ss, k + 1) /\ e.to = e.from

RowWalk(b, s, d, ss, ids, k, stop) ==
  /\ s \in Seq(Elem) /\ StopsAt(b, s, d, ss, ids, k, stop) /\ Firsts(b, SubSeq(s, 1, k), d, ss, ids, k)
  /\ \A i \in 1..k : s[i] = SubSeq(s, 1, k)[i] /\ ids[i] \notin stop

LEMMA WalkRow ==
  ASSUME NEW b, NEW d, NEW end, NEW ss, NEW ids, NEW k, NEW stop, b \in Seq(Cell), RowAt(b, d, ss, end), k \in 0..Len(ss),
         \A i \in 1..Len(ss) : Framed(b, ss[i], ids[i]),
         \A i \in 1..k : ids[i] \notin stop,
         k < Len(ss) => ids[k + 1] \in stop
  PROVE  RowWalk(b, Walk(b, d, end, stop), d, ss, ids, k, stop)
<1> DEFINE s == Walk(b, d, end, stop)
           q == d + Start(ss, k + 1)
           z == Walk(b, q, end, stop)
           n == Len(ss)
<1>1. n \in Nat /\ k \in Nat /\ k <= n /\ end \in Nat /\ d \in Nat BY DEF RowAt
<1>2. \A i \in 1..k : Framed(b, ss[i], ids[i]) /\ ids[i] \notin stop BY <1>1
<1>3. GoesOn(b, d, end, ss, ids, k, stop) BY <1>2, WalkTops
<1>4. PICK v : Firsts(b, v, d, ss, ids, k) /\ s = v \o z BY <1>3 DEF GoesOn
<1>5. v \in Seq(Elem) /\ Len(v) = k BY <1>4 DEF Firsts
<1>6. s \in Seq(Elem)
  <2>1. end \in Int BY <1>1
  <2>2. Walked(b, s, d, end, stop) BY <1>1, <2>1, WalkElements
  <2> HIDE DEF s
  <2> QED BY <2>2 DEF Walked
<1>7. CASE k = n
  <2>1. q = end BY <1>7 DEF RowAt
  <2>2. z = <<>> BY <1>1, <2>1 DEF Walk
  <2>3. s = v
    <3> HIDE DEF s, z
    <3> QED BY <1>4, <1>5, <2>2
  <2>4. SubSeq(v, 1, k) = v
    <3> DEFINE T == Elem
    <3>1. v \in Seq(T) BY <1>5
    <3> HIDE DEF T
    <3>2. SubSeq(v, 1, Len(v)) = v BY <3>1, WholeSubSeq
    <3> QED BY <1>5, <3>2
  <2> HIDE DEF s
  <2>5. StopsAt(b, s, d, ss, ids, k, stop) BY <1>5, <1>7, <2>3 DEF StopsAt
  <2>6. SubSeq(s, 1, k) = s BY <2>3, <2>4
  <2>7. Firsts(b, SubSeq(s, 1, k), d, ss, ids, k) BY <1>4, <2>3, <2>6
  <2>8. \A i \in 1..k : s[i] = SubSeq(s, 1, k)[i] /\ ids[i] \notin stop BY <1>2, <2>6
  <2>9. s \in Seq(Elem) BY <1>6
  <2>10. RowWalk(b, s, d, ss, ids, k, stop) BY <2>5, <2>7, <2>8, <2>9 DEF RowWalk
  <2> QED BY <2>10 DEF s
<1>8. CASE k # n
  <2> DEFINE id == ids[k + 1]
             x == ss[k + 1]
             l == Len(x)
  <2>1. k + 1 \in 1..n BY <1>1, <1>8
  <2>2. q \in Nat /\ At(b, q, x) /\ l \in Nat /\ q + l <= end BY <2>1 DEF RowAt
  <2>3. Framed(b, x, id) BY <2>1
  <2>4. PICK w \in Nat : w <= l /\ HeadIs(b, q, id, w, l - w) BY <2>2, <2>3 DEF Framed
  <2>5. w > 0 BY <2>4 DEF HeadIs
  <2>6. id \in stop BY <1>1, <1>8
  <2>7. q < end /\ q + w \in Nat
    <3> HIDE DEF q, l
    <3> QED BY <1>1, <2>2, <2>4, <2>5
  <2>8. id \in Ids
    <3>1. HeaderOf(b, q, ReadHeaderAt(b, q)) BY <2>2, HeaderRead
    <3> QED BY <2>4, <3>1 DEF HeadIs, HeaderOf
  <2> DEFINE e == Element(id, q, q + w, q)
             u == <<e>>
  <2>9. z = u
    <3> HIDE DEF q, id, l
    <3> QED BY <1>1, <2>2, <2>4, <2>6, <2>7, WalkStops
  <2>10. e \in Elem /\ e.id = id /\ e.from = q /\ e.to = q
    <3> HIDE DEF q, id
    <3> QED BY <2>2, <2>7, <2>8 DEF Elem, Element
  <2> DEFINE T == Elem
  <2>11. e \in T /\ v \in Seq(T) BY <1>5, <2>10
  <2> HIDE DEF T, e, s, z
  <2>12. u \in Seq(T) /\ Len(u) = 1 /\ u[1] = e BY <2>11
  <2>13. s = v \o u BY <1>4, <2>9
  <2> HIDE DEF u
  <2>14. Joined(T, v, u) BY <2>11, <2>12, ConcatJoins
  <2>15. 1 \in 1..1 OBVIOUS
  <2>16. s \in Seq(T) /\ Len(s) = k + 1 /\ s[k + 1] = e /\ \A j \in 1..k : s[j] = v[j]
    BY <1>5, <2>12, <2>13, <2>14, <2>15 DEF Joined
  <2>17. SubSeq(s, 1, k) = v
    <3>1. 0 + k <= Len(s) /\ 0 \in Nat BY <1>1, <2>16
    <3>2. SubSeq(s, 0 + 1, 0 + k) \in Seq(T) /\ Len(SubSeq(s, 0 + 1, 0 + k)) = k
      BY <1>1, <2>16, <3>1, SliceType
    <3>3. \A j \in 1..k : SubSeq(s, 1, k)[j] = s[j] BY <1>1, <2>16
    <3>4. SubSeq(s, 1, k) \in Seq(T) /\ Len(SubSeq(s, 1, k)) = k
      <4>1. 0 + 1 = 1 /\ 0 + k = k BY <1>1
      <4> QED BY <3>2, <4>1
    <3> DEFINE r == SubSeq(s, 1, k)
    <3>5. r \in Seq(T) /\ Len(r) = Len(v) /\ \A j \in 1..Len(v) : r[j] = v[j]
      BY <1>5, <2>16, <3>3, <3>4
    <3> HIDE DEF r
    <3>6. r = v BY <2>11, <3>5, SeqEqual
    <3> QED BY <3>6 DEF r
  <2>18. StopsAt(b, s, d, ss, ids, k, stop) BY <1>8, <2>6, <2>10, <2>16 DEF StopsAt
  <2>19. \A i \in 1..k : s[i] = SubSeq(s, 1, k)[i] /\ ids[i] \notin stop BY <1>2, <2>16, <2>17
  <2>20. Firsts(b, SubSeq(s, 1, k), d, ss, ids, k) BY <1>4, <2>17
  <2> QED BY <1>6, <2>18, <2>19, <2>20 DEF RowWalk, s
<1> QED BY <1>7, <1>8

-----------------------------------------------------------------------------
(* Cells that are some of these sequences one after the other.                *)

Chains(W) == {FlattenSeq(ss) : ss \in Seq(W)}

ChainsMade(W) ==
  /\ Chains(W) \subseteq Seq(Cell) /\ <<>> \in Chains(W) /\ W \subseteq Chains(W)
  /\ \A x, y \in Chains(W) : x \o y \in Chains(W)
  /\ \A ss \in Seq(Chains(W)) : FlattenSeq(ss) \in Chains(W)

LEMMA ChainCells ==
  ASSUME NEW W, W \subseteq Seq(Cell)
  PROVE  ChainsMade(W)
<1> DEFINE C == Chains(W)
<1>1. \A ss : ss \in Seq(W) => ss \in Seq(Seq(Cell))
  <2> DEFINE U == Seq(Cell)
  <2>1. W \subseteq U OBVIOUS
  <2> HIDE DEF U
  <2>2. \A ss : ss \in Seq(W) => ss \in Seq(U) BY <2>1
  <2> QED BY <2>2 DEF U
<1>2. \A ss \in Seq(W) : FlattenSeq(ss) \in Seq(Cell) BY <1>1, FlattenType
<1>3. C \subseteq Seq(Cell) BY <1>2 DEF Chains
<1>4. <<>> \in C
  <2>1. <<>> \in Seq(W) OBVIOUS
  <2> QED BY <2>1, FlattenEmpty DEF Chains
<1>5. ASSUME NEW x \in W PROVE x \in C
  <2>1. <<x>> \in Seq(W) OBVIOUS
  <2>2. FlattenSeq(<<x>>) = x BY FlattenSingle
  <2> QED BY <2>1, <2>2 DEF Chains
<1>6. ASSUME NEW x \in C, NEW y \in C PROVE x \o y \in C
  <2>1. PICK ss \in Seq(W) : x = FlattenSeq(ss) BY DEF Chains
  <2>2. PICK tt \in Seq(W) : y = FlattenSeq(tt) BY DEF Chains
  <2>3. ss \o tt \in Seq(W) OBVIOUS
  <2>4. ss \in Seq(Seq(Cell)) /\ tt \in Seq(Seq(Cell)) BY <1>1
  <2>5. FlattenSeq(ss \o tt) = FlattenSeq(ss) \o FlattenSeq(tt) BY <2>4, FlattenConcat
  <2>6. FlattenSeq(ss \o tt) = x \o y BY <2>1, <2>2, <2>5
  <2> QED BY <2>3, <2>6 DEF Chains
<1>7. ASSUME NEW ss \in Seq(C) PROVE FlattenSeq(ss) \in C
  <2> DEFINE P == {s \in Seq(C) : FlattenSeq(s) \in C}
  <2>1. <<>> \in P BY <1>4, FlattenEmpty
  <2>2. ASSUME NEW s \in Seq(C), NEW e \in C, s \in P PROVE Append(s, e) \in P
    <3>1. s \in Seq(Seq(Cell)) /\ e \in Seq(Cell)
      <4> DEFINE U == Seq(Cell)
      <4>1. C \subseteq U BY <1>3
      <4> HIDE DEF U, C
      <4>2. s \in Seq(U) BY <4>1
      <4> QED BY <4>1, <4>2 DEF U
    <3>2. FlattenSeq(Append(s, e)) = FlattenSeq(s) \o e BY <3>1, FlattenAppend
    <3> HIDE DEF C
    <3>3. FlattenSeq(s) \in C BY <2>2
    <3>4. FlattenSeq(s) \o e \in C BY <1>6, <3>3
    <3>5. Append(s, e) \in Seq(C) OBVIOUS
    <3> QED BY <3>2, <3>4, <3>5
  <2> HIDE DEF P, C
  <2>3. \A s \in Seq(C) : \A e \in C : s \in P => Append(s, e) \in P BY <2>2
  <2>4. Seq(C) \subseteq P BY <2>1, <2>3, AppendInduction
  <2> QED BY <2>4 DEF P
<1> HIDE DEF C
<1>8. /\ C \subseteq Seq(Cell) /\ <<>> \in C /\ W \subseteq C
      /\ (\A x, y \in C : x \o y \in C) /\ (\A ss \in Seq(C) : FlattenSeq(ss) \in C)
  BY <1>3, <1>4, <1>5, <1>6, <1>7
<1> QED BY <1>8 DEF ChainsMade, C

\* From one of these headers on, which only start sequences, the rest of a chain is one.
Parted(W, x, ids) == \A q \in Marks(x, ids) : Slice(x, q, Len(x)) \in Chains(W)

LEMMA SuffixOfTwo ==
  ASSUME NEW x, NEW y, NEW q, x \in Seq(Cell), y \in Seq(Cell), q \in Nat
  PROVE  /\ q < Len(x) => Slice(x \o y, q, Len(x \o y)) = Slice(x, q, Len(x)) \o y
         /\ q = Len(x) => Slice(x \o y, q, Len(x \o y)) = y
<1> DEFINE z == x \o y
           l == Len(x)
           m == Len(y)
<1>1. Joined(Cell, x, y) BY ConcatJoins
<1>2. /\ z \in Seq(Cell) /\ Len(z) = l + m /\ l \in Nat /\ m \in Nat
      /\ (\A i \in 1..l : z[i] = x[i]) /\ (\A i \in 1..m : z[l + i] = y[i])
  BY <1>1 DEF Joined
<1> HIDE DEF z
<1>3. CASE q < l
  <2> DEFINE s == Slice(x, q, l)
             u == Slice(z, q, l + m)
             v == s \o y
             n == l - q
  <2>1. n \in Nat /\ q <= l /\ q <= l + m /\ l + m \in Nat /\ (l + m) - q = n + m BY <1>2, <1>3
  <2>2. Sliced(x, q, l, {}) BY <1>2, <2>1, SliceMarks
  <2>3. Sliced(z, q, l + m, {})
    <3>1. l + m <= Len(z) BY <1>2
    <3> QED BY <1>2, <2>1, <3>1, SliceMarks
  <2>4. s \in Seq(Cell) /\ Len(s) = n /\ \A i \in 1..n : s[i] = x[q + i] BY <2>2 DEF Sliced
  <2>5. u \in Seq(Cell) /\ Len(u) = n + m /\ \A i \in 1..(n + m) : u[i] = z[q + i] BY <2>1, <2>3 DEF Sliced
  <2> HIDE DEF s, u, l, m
  <2>6. Joined(Cell, s, y) BY <2>4, ConcatJoins
  <2>7. /\ v \in Seq(Cell) /\ Len(v) = n + m
        /\ (\A i \in 1..n : v[i] = s[i]) /\ (\A i \in 1..m : v[n + i] = y[i])
    BY <2>4, <2>6 DEF Joined, m
  <2> HIDE DEF v
  <2>8. ASSUME NEW i \in 1..(n + m) PROVE u[i] = v[i]
    <3>1. CASE i <= n
      <4>0. i \in Nat /\ i > 0 /\ n + q = l /\ n \in Nat BY <1>2, <1>3, <2>1
      <4>1. i \in 1..n /\ q + i \in 1..l
        <5> HIDE DEF n
        <5> QED BY <1>2, <3>1, <4>0 DEF l
      <4>2. u[i] = z[q + i] BY <2>5
      <4>3. z[q + i] = x[q + i] BY <1>2, <4>1 DEF l
      <4> QED BY <2>4, <2>7, <4>1, <4>2, <4>3
    <3>2. CASE ~(i <= n)
      <4> DEFINE j == i - n
      <4>1. j \in 1..m /\ n + j = i /\ q + i = l + j BY <1>2, <2>1, <3>2
      <4> HIDE DEF j, n
      <4>2. u[i] = z[l + j] BY <2>5, <4>1
      <4>3. z[l + j] = y[j] /\ v[i] = y[j] BY <1>2, <2>7, <4>1
      <4> QED BY <4>2, <4>3
    <3> QED BY <3>1, <3>2
  <2>9. u = v BY <2>5, <2>7, <2>8, SeqEqual
  <2> QED BY <1>2, <1>3, <2>9 DEF u, v, s, l, m, z
<1>4. CASE q = l
  <2> DEFINE u == Slice(z, q, l + m)
  <2>1. q <= l + m /\ l + m \in Nat /\ (l + m) - q = m /\ l + m <= Len(z) BY <1>2, <1>4
  <2>2. Sliced(z, q, l + m, {}) BY <1>2, <2>1, SliceMarks
  <2>3. u \in Seq(Cell) /\ Len(u) = m /\ \A i \in 1..m : u[i] = z[q + i] BY <2>1, <2>2 DEF Sliced
  <2> HIDE DEF u
  <2>4. \A i \in 1..m : u[i] = y[i] BY <1>2, <1>4, <2>3
  <2>5. u = y BY <2>3, <2>4, SeqEqual
  <2>6. ~(q < l) BY <1>2, <1>4
  <2> QED BY <1>2, <1>4, <2>5, <2>6 DEF u, z
<1> QED BY <1>2, <1>3, <1>4 DEF z

LEMMA ChainParted ==
  ASSUME NEW W, NEW x, NEW ids, W \subseteq Seq(Cell), \A u \in W : Marks(u, ids) \subseteq {0}, x \in Chains(W)
  PROVE  Parted(W, x, ids)
<1> DEFINE P == {s \in Seq(W) : Parted(W, FlattenSeq(s), ids)}
<1>0. ChainsMade(W) BY ChainCells
<1>1. <<>> \in P
  <2>1. Clear(<<>>, ids) BY MarksOfNone
  <2>2. FlattenSeq(<<>>) = <<>> BY FlattenEmpty
  <2>3. Parted(W, <<>>, ids) BY <2>1 DEF Clear, Parted
  <2> QED BY <2>2, <2>3
<1>2. ASSUME NEW s \in Seq(W), NEW e \in W, s \in P PROVE Append(s, e) \in P
  <2> DEFINE y == FlattenSeq(s)
             z == y \o e
  <2>1. s \in Seq(Seq(Cell)) /\ e \in Seq(Cell)
    <3> DEFINE U == Seq(Cell)
    <3>1. W \subseteq U OBVIOUS
    <3> HIDE DEF U
    <3>2. s \in Seq(U) BY <3>1
    <3> QED BY <3>1, <3>2 DEF U
  <2>2. FlattenSeq(Append(s, e)) = z BY <2>1, FlattenAppend
  <2>3. y \in Seq(Cell) BY <2>1, FlattenType
  <2>4. Parted(W, y, ids) BY <1>2
  <2> HIDE DEF y
  <2>5. Sides(y, e, ids) BY <2>1, <2>3, MarkSides
  <2>6. ASSUME NEW q \in Marks(z, ids) PROVE Slice(z, q, Len(z)) \in Chains(W)
    <3>1. IF q < Len(y) THEN q \in Marks(y, ids) ELSE q - Len(y) \in Marks(e, ids) BY <2>5, <2>6 DEF Sides
    <3>2. q \in Nat BY <2>6 DEF Marks
    <3>3. CASE q < Len(y)
      <4>1. Slice(y, q, Len(y)) \in Chains(W) BY <2>4, <3>1, <3>3 DEF Parted
      <4>2. Slice(z, q, Len(z)) = Slice(y, q, Len(y)) \o e BY <2>1, <2>3, <3>2, <3>3, SuffixOfTwo
      <4>3. e \in Chains(W) BY <1>0 DEF ChainsMade
      <4> QED BY <1>0, <4>1, <4>2, <4>3 DEF ChainsMade
    <3>4. CASE ~(q < Len(y))
      <4>1. q - Len(y) = 0 /\ Len(y) \in Nat BY <2>3, <3>1, <3>4
      <4>2. q = Len(y) BY <3>2, <4>1
      <4>3. Slice(z, q, Len(z)) = e BY <2>1, <2>3, <3>2, <4>2, SuffixOfTwo
      <4> QED BY <1>0, <4>3 DEF ChainsMade
    <3> QED BY <3>3, <3>4
  <2>7. Parted(W, z, ids) BY <2>6 DEF Parted
  <2>8. Append(s, e) \in Seq(W) OBVIOUS
  <2> QED BY <2>2, <2>7, <2>8
<1> HIDE DEF P
<1>3. \A s \in Seq(W) : \A e \in W : s \in P => Append(s, e) \in P BY <1>2
<1>4. Seq(W) \subseteq P BY <1>1, <1>3, AppendInduction
<1>5. PICK ss \in Seq(W) : x = FlattenSeq(ss) BY DEF Chains
<1> QED BY <1>4, <1>5 DEF P

-----------------------------------------------------------------------------
(* What a cluster has after its timestamp.                                    *)

\* The id in the header an element starts with.
HeadId(x) == x[1].id

SpareIds == {"PrevSize", "Void"}

Spares == {AppendElement(id, <<Num(1)>>) : id \in SpareIds}

BodyIds == BlockIds \cup SpareIds

LEMMA ElementHead ==
  ASSUME NEW id, NEW data, id \in Ids, data \in Seq(Cell)
  PROVE  HeadId(AppendElement(id, data)) = id /\ Len(AppendElement(id, data)) > 0
<1> DEFINE n == Len(data)
           w == SizeWidth(n)
           h == AppendSizeWidth(id, n, w)
           c == [is |-> "head", id |-> id, size |-> n % Pow(SizeBase, w), w |-> w]
<1>1. n \in Int OBVIOUS
<1>2. w \in Nat /\ w > 0
  <2> HIDE DEF n
  <2>1. w \in 1..Wide BY <1>1, SizeWidthType
  <2> QED BY <2>1, EbmlAssumption
<1> HIDE DEF w, n
<1>3. h \in Seq(Cell) /\ Len(h) = w
  <2>1. Marks(h, {}) \subseteq {0} /\ h \in Seq(Cell) /\ Len(h) = w BY <1>1, <1>2, HeaderMarks
  <2> QED BY <2>1
<1>4. h[1] = c
  <2>1. h = Cells(c, w) BY DEF AppendSizeWidth
  <2> HIDE DEF c, h
  <2>2. 1 \in 1..w BY <1>2
  <2> QED BY <2>1, <2>2 DEF Cells
<1>5. AppendElement(id, data) = h \o data BY DEF AppendElement, h, w, n
<1> HIDE DEF h
<1>6. Joined(Cell, h, data) BY <1>3, ConcatJoins
<1>7. (h \o data)[1] = h[1] /\ Len(h \o data) = w + Len(data) /\ Len(data) \in Nat BY <1>2, <1>3, <1>6 DEF Joined
<1> QED BY <1>2, <1>4, <1>5, <1>7 DEF HeadId

LEMMA UnitIsFramed ==
  ASSUME NEW b, NEW id, NEW data, b \in Seq(Cell), Small(b), id \in Ids, id # "bad", data \in Seq(Cell)
  PROVE  /\ Framed(b, AppendElement(id, data), HeadId(AppendElement(id, data)))
         /\ HeadId(AppendElement(id, data)) = id
BY ElementHead, FramedElement

\* The header of a cluster that is in b, and what follows it.
TimedHere(b, p, t, rest) ==
  LET n == Len(TimedBody(t, rest))
  IN  /\ n \in Nat /\ HeadIs(b, p, "Cluster", Wide, n) /\ At(b, p + Wide, TimedBody(t, rest))
      /\ p + Len(TimedElement(t, rest)) = p + Wide + n /\ p + Wide \in Nat /\ p + Wide + n <= Len(b)
      /\ p + Wide + n \in Nat

LEMMA TimedPlaced ==
  ASSUME NEW b, NEW p, NEW t, NEW rest, b \in Seq(Cell), Small(b), t \in Int, rest \in Seq(Cell),
         At(b, p, TimedElement(t, rest))
  PROVE  TimedHere(b, p, t, rest)
<1> DEFINE body == TimedBody(t, rest)
           n == Len(body)
           head == AppendSizeWidth("Cluster", n, Wide)
<1>1. Wide \in Nat /\ Wide > 0 /\ {"Cluster", "Timestamp"} \subseteq Ids BY EbmlAssumption DEF Ids
<1>2. body \in Seq(Cell) /\ n \in Nat
  <2> DEFINE ts == AppendUint("Timestamp", t)
  <2>1. ts \in Seq(Cell) BY <1>1, UintType
  <2>2. body = ts \o rest BY DEF TimedBody
  <2> HIDE DEF ts, body
  <2> QED BY <2>1, <2>2
<1>3. head \in Seq(Cell) /\ Len(head) = Wide
  <2> HIDE DEF n
  <2>0. n \in Int /\ "Cluster" \in Ids BY <1>1, <1>2
  <2>1. Marks(head, {}) \subseteq {0} /\ head \in Seq(Cell) /\ Len(head) = Wide BY <1>1, <2>0, HeaderMarks
  <2> QED BY <2>1
<1>4. TimedElement(t, rest) = head \o body BY DEF TimedElement
<1> HIDE DEF head, body
<1>5. AtParted(b, p, head, body) BY <1>2, <1>3, <1>4, AtTwo
<1>6. At(b, p, head) /\ At(b, p + Wide, body) /\ Len(TimedElement(t, rest)) = Wide + n
  BY <1>3, <1>4, <1>5 DEF AtParted
<1> DEFINE x == Pow(SizeBase, Wide) - 1
<1>7. x \in Int /\ Len(b) < x /\ Len(b) \in Nat /\ p \in Nat
  <2>1. SizeBase \in Nat /\ SizeBase > 0 BY EbmlAssumption
  <2>2. Pow(SizeBase, Wide) \in Nat BY <1>1, <2>1, PowNat
  <2>3. p \in Nat BY <1>6 DEF At
  <2> QED BY <2>2, <2>3 DEF Small
<1>8. (p + Wide) + n <= Len(b) BY <1>6 DEF At
<1> HIDE DEF n
<1>9. n < x
  <2> HIDE DEF x
  <2> QED BY <1>1, <1>2, <1>7, <1>8
<1>10. ReadHeaderAt(b, p) = [id |-> "Cluster", w |-> Wide, size |-> n]
  <2>1. "Cluster" \in Ids BY <1>1
  <2>2. n < Pow(SizeBase, Wide) - 1 BY <1>9
  <2>3. At(b, p, AppendSizeWidth("Cluster", n, Wide)) BY <1>6 DEF head
  <2> HIDE DEF x
  <2> QED BY <1>1, <1>2, <2>1, <2>2, <2>3, HeadAt
<1>11. HeadIs(b, p, "Cluster", Wide, n) BY <1>1, <1>2, <1>10 DEF HeadIs
<1>12. p + Len(TimedElement(t, rest)) = p + Wide + n /\ p + Wide \in Nat /\ p + Wide + n \in Nat
  <2> HIDE DEF x
  <2> QED BY <1>1, <1>2, <1>6, <1>7
<1> QED BY <1>2, <1>6, <1>8, <1>11, <1>12 DEF TimedHere, n, body

LEMMA UintFramed ==
  ASSUME NEW b, NEW id, NEW v, b \in Seq(Cell), Small(b), id \in Ids, id # "bad", v \in Int
  PROVE  HeadId(AppendUint(id, v)) = id /\ Framed(b, AppendUint(id, v), id)
<1>1. Says(AppendUint(id, v), id, v) BY UintSays
<1>2. PICK u \in Nat, w \in 1..Wide : AppendUint(id, v) = AppendElement(id, Cells(Num(u), w)) BY <1>1 DEF Says
<1> DEFINE k == Cells(Num(u), w)
<1>3. k \in Seq(Cell)
  <2>1. Num(u) \in Cell /\ w \in Nat BY NewCells, EbmlAssumption
  <2> QED BY <2>1, CellsType
<1>4. AppendUint(id, v) = AppendElement(id, k) BY <1>2
<1> HIDE DEF k
<1> QED BY <1>3, <1>4, UnitIsFramed

\* The ids of a row's elements, and how many there are before its first block.
RowIds(row) == [i \in 1..Len(row) |-> HeadId(row[i])]

FirstsEnd(row, k) ==
  /\ k \in 1..Len(row) /\ \A i \in 1..k : RowIds(row)[i] \notin BlockIds
  /\ k < Len(row) => RowIds(row)[k + 1] \in BlockIds

\* What is read of a cluster up to its first block.
KidsRead(b, p, t, rest, row, k) ==
  LET c == readCluster(b, p)
  IN  /\ c.ok /\ c.timestamp = t /\ c.off = p /\ c.end = p + Len(TimedElement(t, rest))
      /\ c.blocks = IF k = Len(row) THEN c.end ELSE p + Wide + Start(row, k + 1)

\* A cluster of such units is read without an error.
ClusterFine(b, p, t, rest) ==
  LET c == readCluster(b, p)
  IN  /\ c.ok /\ c.timestamp = t /\ c.off = p /\ c.end = p + Len(TimedElement(t, rest)) /\ c.end <= Len(b)
      /\ c.end \in Nat /\ readBlocks(b, c).ok /\ ReadHeaderAt(b, p).id = "Cluster"

\* Clusters without an error, the first of them with a timestamp t.
FineClusters(b, s, t) ==
  /\ s \in Seq(FileCluster(b)) /\ Len(s) > 0 /\ s[1].timestamp = t
  /\ \A k \in 1..Len(s) : s[k].ok /\ readBlocks(b, s[k]).ok

LEMMA UpToFine ==
  ASSUME NEW b, NEW s, NEW t, NEW endT, FineClusters(b, s, t)
  PROVE  FineClusters(b, upTo(s, endT), t)
<1> DEFINE late == {i \in DOMAIN s : i > 1 /\ s[i].ok /\ s[i].timestamp >= endT}
           T == FileCluster(b)
           n == Min(late) - 1
           u == SubSeq(s, 1, n)
<1>0. s \in Seq(T) BY DEF FineClusters
<1>1. CASE late = {}
  <2>1. upTo(s, endT) = s BY <1>1 DEF upTo
  <2> QED BY <2>1
<1>2. CASE late # {}
  <2>1. upTo(s, endT) = u BY <1>2 DEF upTo
  <2>2. late \subseteq Nat /\ late \subseteq 2..Len(s)
    <3> HIDE DEF T
    <3> QED BY <1>0
  <2>3. Min(late) \in 2..Len(s)
    <3> HIDE DEF late
    <3> QED BY <1>2, <2>2, SmallestNumber
  <2>4. u \in Seq(T) /\ Len(u) = n /\ n > 0 /\ \A i \in 1..n : u[i] = s[i] /\ i \in 1..Len(s)
    <3> HIDE DEF T
    <3>1. n \in Nat /\ n <= Len(s) /\ n > 0 BY <1>0, <2>3
    <3> HIDE DEF n
    <3> QED BY <1>0, <3>1
  <2> HIDE DEF u, n, T
  <2>5. FineClusters(b, u, t)
    <3>1. 1 \in 1..n
      <4>1. Len(u) \in Nat BY <2>4
      <4> QED BY <2>4, <4>1
    <3> QED BY <2>4, <3>1 DEF FineClusters, T
  <2> QED BY <2>1, <2>5
<1> QED BY <1>1, <1>2

LEMMA FineMore ==
  ASSUME NEW b, NEW c, NEW v, NEW t, NEW t2, c \in FileCluster(b), c.ok, c.timestamp = t, readBlocks(b, c).ok,
         v = <<>> \/ FineClusters(b, v, t2)
  PROVE  FineClusters(b, <<c>> \o v, t)
<1> DEFINE T == FileCluster(b)
           s == <<c>> \o v
<1>1. v \in Seq(T) /\ \A k \in 1..Len(v) : v[k].ok /\ readBlocks(b, v[k]).ok
  <2>1. CASE v = <<>>
    <3>1. <<>> \in Seq(T) /\ Len(<<>>) = 0
      <4> HIDE DEF T
      <4> QED OBVIOUS
    <3>2. 1..0 = {} OBVIOUS
    <3> QED BY <2>1, <3>1, <3>2
  <2>2. CASE FineClusters(b, v, t2) BY <2>2 DEF FineClusters
  <2> QED BY <2>1, <2>2
<1>2. <<c>> \in Seq(T) /\ Len(<<c>>) = 1 OBVIOUS
<1> HIDE DEF T
<1>3. Joined(T, <<c>>, v) BY <1>1, <1>2, ConcatJoins
<1>4. /\ s \in Seq(T) /\ Len(s) = 1 + Len(v) /\ Len(v) \in Nat /\ (\A i \in 1..1 : s[i] = <<c>>[i])
      /\ \A i \in 1..Len(v) : s[1 + i] = v[i]
  BY <1>2, <1>3 DEF Joined
<1> HIDE DEF s
<1>5. s[1] = c BY <1>4
<1>6. ASSUME NEW k \in 1..Len(s) PROVE s[k].ok /\ readBlocks(b, s[k]).ok
  <2>1. CASE k = 1 BY <1>5, <2>1
  <2>2. CASE k # 1
    <3> DEFINE j == k - 1
    <3>1. j \in 1..Len(v) /\ 1 + j = k BY <1>4, <2>2
    <3> HIDE DEF j
    <3>2. s[k] = v[j] BY <1>4, <3>1
    <3> QED BY <1>1, <3>1, <3>2
  <2> QED BY <2>1, <2>2
<1>7. Len(s) > 0 BY <1>4
<1>8. FineClusters(b, s, t) BY <1>4, <1>5, <1>6, <1>7 DEF FineClusters, T
<1> QED BY <1>8 DEF s

-----------------------------------------------------------------------------
(* What stands in the file at the headers with some ids.                      *)

\* Cells in which every header with one of these ids starts one of these sequences.
Only(ids, W) == {x \in Seq(Cell) : \A p \in Marks(x, ids) : \E u \in W : u \in Seq(Cell) /\ At(x, p, u)}

OnlyMade(ids, W) ==
  /\ Only(ids, W) \subseteq Seq(Cell) /\ Plain(ids) \subseteq Only(ids, W)
  /\ \A u \in W : u \in Seq(Cell) /\ Marks(u, ids) \subseteq {0} => u \in Only(ids, W)
  /\ \A x, y \in Only(ids, W) : x \o y \in Only(ids, W)
  /\ \A id \in Ids : id \notin ids => \A x \in Only(ids, W) : AppendElement(id, x) \in Only(ids, W)
  /\ \A ss \in Seq(Only(ids, W)) : FlattenSeq(ss) \in Only(ids, W)

LEMMA OnlyTwo ==
  ASSUME NEW ids, NEW W, NEW x, NEW y, x \in Only(ids, W), y \in Only(ids, W)
  PROVE  x \o y \in Only(ids, W)
<1>1. x \in Seq(Cell) /\ y \in Seq(Cell) BY DEF Only
<1>2. x \o y \in Seq(Cell) BY <1>1
<1>3. Sides(x, y, ids) BY <1>1, MarkSides
<1>4. ASSUME NEW p \in Marks(x \o y, ids) PROVE \E u \in W : u \in Seq(Cell) /\ At(x \o y, p, u)
  <2>1. IF p < Len(x) THEN p \in Marks(x, ids) ELSE p - Len(x) \in Marks(y, ids) BY <1>3 DEF Sides
  <2>2. CASE p < Len(x)
    <3>1. PICK u \in W : u \in Seq(Cell) /\ At(x, p, u) BY <2>1, <2>2 DEF Only
    <3>2. At(x \o y, p, u) BY <1>1, <3>1, AtLeft
    <3> QED BY <3>1, <3>2
  <2>3. CASE ~(p < Len(x))
    <3> DEFINE q == p - Len(x)
    <3>1. q \in Marks(y, ids) BY <2>1, <2>3
    <3> HIDE DEF q
    <3>2. PICK u \in W : u \in Seq(Cell) /\ At(y, q, u) BY <3>1 DEF Only
    <3>3. At(x \o y, Len(x) + q, u) BY <1>1, <3>2, AtRight
    <3>4. Len(x) + q = p
      <4>1. p \in Nat /\ Len(x) \in Nat
        <5>1. Len(x \o y) \in Nat /\ Len(x) \in Nat BY <1>1, <1>2
        <5> QED BY <5>1 DEF Marks
      <4> QED BY <4>1 DEF q
    <3> QED BY <3>2, <3>3, <3>4
  <2> QED BY <2>2, <2>3
<1> QED BY <1>2, <1>4 DEF Only

LEMMA OnlyCells ==
  ASSUME NEW ids, NEW W
  PROVE  OnlyMade(ids, W)
<1> DEFINE P == Only(ids, W)
<1>1. P \subseteq Seq(Cell) BY DEF Only
<1>2. Plain(ids) \subseteq P BY DEF Only, Plain, Clear
<1>3. ASSUME NEW u \in W, u \in Seq(Cell), Marks(u, ids) \subseteq {0} PROVE u \in P
  <2>1. At(u, 0, u) BY <1>3, AtWhole
  <2>2. \A p \in Marks(u, ids) : p = 0 BY <1>3
  <2> QED BY <1>3, <2>1, <2>2 DEF Only
<1>4. \A x, y \in P : x \o y \in P
  <2> SUFFICES ASSUME NEW x \in P, NEW y \in P PROVE x \o y \in P OBVIOUS
  <2> QED BY OnlyTwo
<1>5. ASSUME NEW id \in Ids, id \notin ids, NEW x \in P PROVE AppendElement(id, x) \in P
  <2> DEFINE h == AppendSizeWidth(id, Len(x), SizeWidth(Len(x)))
  <2>1. Len(x) \in Int BY <1>1
  <2>2. SizeWidth(Len(x)) \in 1..Wide BY <2>1, SizeWidthType
  <2>3. SizeWidth(Len(x)) \in Nat /\ SizeWidth(Len(x)) > 0 BY <2>2, EbmlAssumption
  <2>4. Clear(h, ids) /\ h \in Seq(Cell) BY <1>5, <2>1, <2>3, HeaderMarks
  <2>5. h \in P BY <1>2, <2>4 DEF Plain
  <2>6. AppendElement(id, x) = h \o x BY DEF AppendElement
  <2> HIDE DEF h, P
  <2> QED BY <1>4, <1>5, <2>5, <2>6
<1>6. ASSUME NEW ss \in Seq(P) PROVE FlattenSeq(ss) \in P
  <2> DEFINE Q == {s \in Seq(P) : FlattenSeq(s) \in P}
  <2>1. <<>> \in Q
    <3>1. <<>> \in P
      <4>1. <<>> \in Plain(ids)
        <5>1. PlainMade(ids) BY PlainCells
        <5> QED BY <5>1 DEF PlainMade
      <4> QED BY <1>2, <4>1
    <3> QED BY <3>1, FlattenEmpty
  <2>2. ASSUME NEW s \in Seq(P), NEW e \in P, s \in Q PROVE Append(s, e) \in Q
    <3>1. s \in Seq(Seq(Cell)) /\ e \in Seq(Cell)
      <4> DEFINE U == Seq(Cell)
      <4>1. P \subseteq U BY <1>1
      <4> HIDE DEF U, P
      <4>2. s \in Seq(U) BY <4>1
      <4> QED BY <4>1, <4>2 DEF U
    <3>2. FlattenSeq(Append(s, e)) = FlattenSeq(s) \o e BY <3>1, FlattenAppend
    <3> HIDE DEF P
    <3>3. FlattenSeq(s) \in P BY <2>2
    <3>4. FlattenSeq(s) \o e \in P BY <1>4, <3>3
    <3>5. Append(s, e) \in Seq(P) OBVIOUS
    <3> QED BY <3>2, <3>4, <3>5
  <2> HIDE DEF Q, P
  <2>3. \A s \in Seq(P) : \A e \in P : s \in Q => Append(s, e) \in Q BY <2>2
  <2>4. Seq(P) \subseteq Q BY <2>1, <2>3, AppendInduction
  <2> QED BY <2>4 DEF Q
<1> HIDE DEF P
<1>7. /\ P \subseteq Seq(Cell) /\ Plain(ids) \subseteq P
      /\ (\A u \in W : u \in Seq(Cell) /\ Marks(u, ids) \subseteq {0} => u \in P)
      /\ (\A x, y \in P : x \o y \in P)
      /\ (\A id \in Ids : id \notin ids => \A x \in P : AppendElement(id, x) \in P)
      /\ (\A ss \in Seq(P) : FlattenSeq(ss) \in P)
  BY <1>1, <1>2, <1>3, <1>4, <1>5, <1>6
<1> QED BY <1>7 DEF OnlyMade, P

LEMMA SuffixOfSecond ==
  ASSUME NEW x, NEW y, NEW q, x \in Seq(Cell), y \in Seq(Cell), q \in Nat, Len(x) <= q, q <= Len(x \o y)
  PROVE  Slice(x \o y, q, Len(x \o y)) = Slice(y, q - Len(x), Len(y))
<1> DEFINE z == x \o y
           l == Len(x)
           m == Len(y)
           a == q - l
           u == Slice(z, q, l + m)
           v == Slice(y, a, m)
           n == m - a
<1>1. Joined(Cell, x, y) BY ConcatJoins
<1>2. /\ z \in Seq(Cell) /\ Len(z) = l + m /\ l \in Nat /\ m \in Nat /\ \A i \in 1..m : z[l + i] = y[i]
  BY <1>1 DEF Joined
<1>3. /\ a \in Nat /\ a <= m /\ m <= Len(y) /\ q <= l + m /\ l + m <= Len(z) /\ l + m \in Nat
      /\ (l + m) - q = n /\ n \in Nat
  BY <1>2
<1>4. l + a = q BY <1>2
<1>5. Sliced(z, q, l + m, {})
  <2> HIDE DEF z, l, m
  <2> QED BY <1>2, <1>3, SliceMarks
<1>6. Sliced(y, a, m, {})
  <2> HIDE DEF a, m
  <2> QED BY <1>2, <1>3, SliceMarks
<1> HIDE DEF z, a
<1>7. u \in Seq(Cell) /\ Len(u) = n /\ \A i \in 1..n : u[i] = z[q + i] BY <1>3, <1>5 DEF Sliced
<1>8. v \in Seq(Cell) /\ Len(v) = n /\ \A i \in 1..n : v[i] = y[a + i] BY <1>6 DEF Sliced
<1> HIDE DEF u, v
<1>9. ASSUME NEW i \in 1..n PROVE u[i] = v[i]
  <2>1. a + i \in 1..m /\ l + (a + i) = q + i
    <3>1. i \in Nat /\ i > 0 /\ i <= n /\ n = m - a /\ n \in Nat BY <1>3
    <3>2. a \in Nat /\ m \in Nat /\ l \in Nat BY <1>2, <1>3
    <3> HIDE DEF n, l, m
    <3> QED BY <1>4, <3>1, <3>2
  <2> HIDE DEF n, l, m
  <2>2. z[l + (a + i)] = y[a + i] BY <1>2, <2>1
  <2> QED BY <1>7, <1>8, <2>1, <2>2
<1> HIDE DEF n
<1>10. u = v BY <1>7, <1>8, <1>9, SeqEqual
<1> QED BY <1>2, <1>10 DEF u, v, z, a, l, m

\* The clusters that are collected up to endT: none but the first one starts there or later.
Early(s, u, endT) ==
  /\ u # <<>> => s # <<>> /\ u[1] = s[1]
  /\ \A i \in 2..Len(u) : u[i].ok => u[i].timestamp < endT

LEMMA UpToEarly ==
  ASSUME NEW f, NEW s, NEW endT, s \in Seq(FileCluster(f)), endT \in Int
  PROVE  Early(s, upTo(s, endT), endT)
<1> DEFINE late == {i \in DOMAIN s : i > 1 /\ s[i].ok /\ s[i].timestamp >= endT}
           T == FileCluster(f)
           n == Min(late) - 1
           u == SubSeq(s, 1, n)
<1>0. s \in Seq(T) OBVIOUS
<1>1. \A c \in T : c.timestamp \in Nat BY DEF FileCluster
<1>2. ASSUME NEW i \in 2..Len(s), i \notin late, s[i].ok PROVE s[i].timestamp < endT
  <2>1. s[i] \in T /\ i \in DOMAIN s /\ i > 1
    <3> HIDE DEF T
    <3> QED BY <1>0
  <2>2. s[i].timestamp \in Nat BY <1>1, <2>1
  <2>3. ~(s[i].timestamp >= endT) BY <1>2, <2>1
  <2> QED BY <2>2, <2>3
<1>3. CASE late = {}
  <2>1. upTo(s, endT) = s BY <1>3 DEF upTo
  <2>2. Early(s, s, endT)
    <3> HIDE DEF T
    <3> QED BY <1>2, <1>3 DEF Early
  <2> QED BY <2>1, <2>2
<1>4. CASE late # {}
  <2>1. upTo(s, endT) = u BY <1>4 DEF upTo
  <2>2. late \subseteq Nat /\ late \subseteq 2..Len(s)
    <3> HIDE DEF T
    <3> QED BY <1>0
  <2>3. Min(late) \in 2..Len(s) /\ \A i \in late : Min(late) <= i
    <3> HIDE DEF late
    <3> QED BY <1>4, <2>2, SmallestNumber
  <2>4. n \in Nat /\ n <= Len(s) /\ n > 0 /\ s # <<>> /\ \A i \in 1..n : i \notin late
    <3> DEFINE m == Min(late)
    <3>1. m \in 2..Len(s) /\ \A i \in late : m <= i BY <2>3
    <3>2. Len(s) \in Nat
      <4> HIDE DEF T
      <4> QED BY <1>0
    <3>3. s # <<>>
      <4> SUFFICES ASSUME s = <<>> PROVE FALSE OBVIOUS
      <4> HIDE DEF m
      <4> QED BY <3>1
    <3> HIDE DEF m, late
    <3> QED BY <3>1, <3>2, <3>3 DEF m
  <2>5. Len(u) = n /\ \A i \in 1..n : u[i] = s[i]
    <3> HIDE DEF T, n
    <3> QED BY <1>0, <2>4
  <2> HIDE DEF u, late
  <2>6. u[1] = s[1]
    <3>1. 1 \in 1..n BY <2>4
    <3> QED BY <2>5, <3>1
  <2>7. ASSUME NEW i \in 2..Len(u), u[i].ok PROVE u[i].timestamp < endT
    <3>1. i \in 1..n /\ i \in 2..Len(s) BY <2>4, <2>5
    <3>2. u[i] = s[i] /\ i \notin late BY <2>4, <2>5, <3>1
    <3> HIDE DEF n
    <3> QED BY <1>2, <2>7, <3>1, <3>2
  <2>8. Early(s, u, endT) BY <2>4, <2>6, <2>7 DEF Early
  <2> QED BY <2>1, <2>8
<1> QED BY <1>3, <1>4

\* A row of clusters that are collected from off on, where a cluster starts.
CollectedFrom(f, off, s, endT) ==
  /\ s # <<>> /\ ReadHeaderAt(f, off).id \in {"Cluster", "bad"} => s[1].off = off
  /\ \A i \in 2..Len(s) : s[i].ok => s[i].timestamp < endT

LEMMA CollectedIsFrom ==
  ASSUME NEW f, NEW src, NEW off, NEW endT, f \in Seq(Cell), off \in Nat, src.segEnd \in Nat, endT \in Int
  PROVE  CollectedFrom(f, off, collectClusters(f, src, off, endT), endT)
<1> DEFINE end == src.segEnd
           all(g) == IF off < end THEN g[off] ELSE <<>>
           u == collectClusters(f, src, off, endT)
           h == ReadHeaderAt(f, off)
           c == readCluster(f, off)
<1>1. CollectGoes(f, src, off, endT) BY CollectRecursion
<1>2. PICK g : CollectedBy(f, src, off, endT, g) BY <1>1 DEF CollectGoes
<1> DEFINE s == all(g)
<1>3. u = upTo(s, endT) BY <1>2 DEF CollectedBy, Later
<1>4. s \in Seq(FileCluster(f))
  <2>1. Lined(f, Later(g, off, src.segEnd), off) BY <1>2, FoundLined
  <2> QED BY <2>1 DEF Lined, Later
<1>5. Early(s, u, endT)
  <2> HIDE DEF s
  <2> QED BY <1>3, <1>4, UpToEarly
<1>6. ASSUME u # <<>>, h.id \in {"Cluster", "bad"} PROVE u[1].off = off
  <2>1. s # <<>> /\ u[1] = s[1] BY <1>5, <1>6 DEF Early
  <2>2. off < end /\ s = g[off] BY <2>1
  <2>3. off \in off..end BY <2>2
  <2>4. g[off] = CollectStep(f, off, end, g) BY <1>2, <2>3 DEF CollectedBy
  <2> DEFINE v == IF c.ok THEN Later(g, c.end, end) ELSE <<>>
  <2>5. g[off] = <<c>> \o v BY <1>6, <2>4 DEF CollectStep
  <2>6. s[1] = c
    <3> HIDE DEF v, c, s
    <3>1. (<<c>> \o v)[1] = c OBVIOUS
    <3> QED BY <2>2, <2>5, <3>1
  <2>7. c.off = off BY ReadClusterType
  <2> QED BY <2>1, <2>6, <2>7
<1> QED BY <1>5, <1>6 DEF Early, CollectedFrom

-----------------------------------------------------------------------------
(* What stands at a place is what is sliced there.                            *)

LEMMA AtSlice ==
  ASSUME NEW b, NEW p, NEW x, b \in Seq(Cell), x \in Seq(Cell), At(b, p, x)
  PROVE  SubSeq(b, p + 1, p + Len(x)) = x
<1> DEFINE n == Len(x)
           y == SubSeq(b, p + 1, p + n)
<1>1. n \in Nat /\ p \in Nat /\ p + n <= Len(b) /\ \A i \in 1..n : b[p + i] = x[i] BY DEF At
<1>2. y \in Seq(Cell) /\ Len(y) = n BY <1>1, SliceType
<1>3. ASSUME NEW i \in 1..n PROVE y[i] = x[i]
  <2>1. y[i] = b[p + i]
    <3>1. i \in 1..((p + n) - (p + 1) + 1) /\ (p + 1) + i - 1 = p + i BY <1>1
    <3> HIDE DEF n
    <3> QED BY <1>1, <3>1
  <2> QED BY <1>1, <2>1
<1> HIDE DEF y
<1>4. y = x BY <1>2, <1>3
<1> QED BY <1>4 DEF y

\* The cells of a range of a file, and of parts added to nothing.
LEMMA RangeContent ==
  ASSUME NEW f, NEW off, NEW n, f \in Seq(Cell), off \in Nat, n \in Nat, off + n <= Len(f)
  PROVE  Content(<<RangeOf(off, n)>>, f) = SubSeq(f, off + 1, off + n) /\ <<RangeOf(off, n)>> \in FileParts(f)
<1> DEFINE p == RangeOf(off, n)
           T == Part(Cell, f)
           none == <<>>
           x == SubSeq(f, off + 1, off + n)
<1>1. p \in T BY RangeType DEF FilePart
<1>2. PartCells(p, f) = x BY DEF PartCells, RangeOf
<1>8. x \in Seq(Cell) BY SliceType
<1> HIDE DEF p, T, x
<1>3. none \in Seq(T) /\ Append(none, p) = <<p>> /\ <<p>> \in Seq(T) BY <1>1
<1>4. Content(none, f) = <<>> BY ContentEmpty
<1>5. Content(Append(none, p), f) = Content(none, f) \o PartCells(p, f)
  <2> HIDE DEF none
  <2> QED BY <1>1, <1>3, ContentAppend DEF T
<1>6. <<>> \o x = x BY <1>8
<1>7. Content(<<p>>, f) = x BY <1>2, <1>3, <1>4, <1>5, <1>6
<1> QED BY <1>3, <1>7 DEF p, T, x, FileParts, FilePart

LEMMA AddedContent ==
  ASSUME NEW f, NEW more, f \in Seq(Cell), more \in FileParts(f)
  PROVE  Content(AppendAll(<<>>, more), f) = Content(more, f) /\ Content(more, f) \in Seq(Cell)
<1> DEFINE T == Part(Cell, f)
           none == <<>>
           x == Content(more, f)
<1>1. more \in Seq(T) BY DEF FileParts, FilePart
<1>2. none \in Seq(Placed(Cell, f)) BY NothingLaid DEF Laid
<1>3. x \in Seq(Cell) BY <1>1, ContentType
<1>4. Content(none, f) = <<>> BY ContentEmpty
<1> HIDE DEF none
<1>5. Content(AppendAll(none, more), f) = Content(none, f) \o x BY <1>1, <1>2, AppendAllFacts DEF T
<1> HIDE DEF x
<1>6. <<>> \o x = x BY <1>3
<1> QED BY <1>3, <1>4, <1>5, <1>6 DEF x, none

\* A block with another relative timestamp, as two parts.
RebasedBlock(f, blk, base) ==
  <<Literal(SubSeq(f, blk.off + 1, blk.off + blk.ts) \o <<Rel(blk.time - base)>>),
    RangeOf(blk.off + blk.ts + 1, blk.len - blk.ts - 1)>>

\* The cues of a source lead to its clusters, if there are any.
Cued(f, src) == \A i \in 1..Len(src.cues) : ReadHeaderAt(f, src.cues[i].off).id \in {"Cluster", "bad"}

\* Clusters from a cue on: it says when and where the first one starts.
Keyed(f, src, cs, base, endT) ==
  /\ base < endT
  /\ Cued(f, src) => \E i \in 1..Len(src.cues) : src.cues[i].time = base /\ src.cues[i].off = cs[1].off
  /\ \A i \in 2..Len(cs) : cs[i].timestamp < endT

\* How a clip of src is put together, whatever its title is.
Titled(f, src, cs, base, endT, parts) ==
  \E title \in Cell : AssembledAs(f, src, cs, base, endT, title, parts)

\* A clip starts at one of the cues, and ends by the end that is asked for.
LEMMA KeyCueOf ==
  ASSUME NEW cues, NEW start, cues \in Seq(Cue), cues # <<>>
  PROVE  \E i \in 1..Len(cues) : keyCue(cues, start) = cues[i]
<1> DEFINE before == {i \in DOMAIN cues : cues[i].time <= start}
           T == Cue
<1>1. keyCue(cues, start) = IF before = {} THEN cues[1] ELSE cues[Max(before)] BY DEF keyCue
<1>2. cues \in Seq(T) /\ cues # <<>> OBVIOUS
<1>3. Len(cues) \in Nat /\ 1 \in 1..Len(cues) /\ DOMAIN cues = 1..Len(cues)
  <2> HIDE DEF T
  <2> QED BY <1>2
<1>4. before \subseteq 1..Len(cues) BY <1>3
<1> HIDE DEF before
<1>6. before \subseteq 0..Len(cues) BY <1>3, <1>4
<1>5. before # {} => Max(before) \in before BY <1>3, <1>6, GreatestNumber
<1> QED BY <1>1, <1>3, <1>4, <1>5

LEMMA BuildEnds ==
  ASSUME NEW f, NEW src, NEW start, NEW end, NEW title, src.duration \in Nat, end \in Nat,
         BuildClip(f, src, start, end, title).ok
  PROVE  BuildClip(f, src, start, end, title).end <= end
<1> DEFINE endT == IF src.duration > 0 /\ src.duration < end THEN src.duration ELSE end
           key == keyCue(src.cues, start)
           clusters == collectClusters(f, src, key.off, endT)
           built == BuildClip(f, src, start, end, title)
<1>1. built = Failed \/ built = clipFrom(f, src, clusters, key.time, endT, title) BY DEF BuildClip
<1>2. built.ok /\ ~Failed.ok BY DEF Failed
<1>3. endT \in Nat /\ endT <= end OBVIOUS
<1> HIDE DEF endT, key, clusters, built
<1>4. \A x : \/ clipFrom(f, src, clusters, x, endT, title) = Failed
             \/ clipFrom(f, src, clusters, x, endT, title).end = endT
  BY DEF clipFrom, filteredClip, assembledClip
<1>5. built.end = endT BY <1>1, <1>2, <1>4
<1> QED BY <1>3, <1>5 DEF built
=============================================================================
