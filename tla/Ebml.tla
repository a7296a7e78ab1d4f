-------------------------------- MODULE Ebml --------------------------------
(***************************************************************************)
(* internal/ebml: elements in a file of cells.  An element is a header of  *)
(* as many cells as its size needs, and its payload.  A cell stands for a  *)
(* byte in all that offsets and lengths are about; what a header or a      *)
(* number says is kept whole in its first cell, the others are padding.    *)
(* Offsets start at 0, as in the code.                                     *)
(***************************************************************************)
EXTENDS Integers, Sequences, SequencesExt

CONSTANTS
  SizeBase,  \* how many values a cell of a size has (128 in EBML)
  UintBase,  \* how many values a cell of a number has (256)
  Wide       \* the width of the sizes and numbers of fixed width (8 bytes)

ASSUME EbmlAssumption == SizeBase \in Nat \ {0, 1} /\ UintBase \in Nat \ {0, 1} /\ Wide \in Nat \ {0}

UnknownSize == -1

\* b to the power of n.
Pow(b, n) ==
  LET pow[i \in 0..n] == IF i = 0 THEN 1 ELSE b * pow[i - 1]
  IN  pow[n]

Pad == [is |-> "pad"]
Num(v) == [is |-> "num", v |-> v]
Id(id) == [is |-> "id", id |-> id]
Cells(c, width) == [i \in 1..width |-> IF i = 1 THEN c ELSE Pad]

\* A size of exactly this width; the highest value of each width means unknown.
AppendSizeWidth(id, n, width) ==
  Cells([is |-> "head", id |-> id, size |-> n % Pow(SizeBase, width), w |-> width], width)

SizeWidth(n) ==
  CHOOSE w \in 1..Wide : /\ w = Wide \/ n < Pow(SizeBase, w) - 1
                         /\ \A x \in 1..(w - 1) : n >= Pow(SizeBase, x) - 1

AppendElement(id, payload) ==
  AppendSizeWidth(id, Len(payload), SizeWidth(Len(payload))) \o payload

AppendUintWidth(id, v, width) == AppendElement(id, Cells(Num(v % Pow(UintBase, width)), width))

AppendUint(id, v) ==
  AppendUintWidth(id, v, CHOOSE n \in 1..Wide : /\ n = Wide \/ v < Pow(UintBase, n)
                                                /\ \A x \in 1..(n - 1) : v >= Pow(UintBase, x))

\* The header at off; its id is "bad" where there is none or it is cut short.
ReadHeaderAt(b, off) ==
  LET c == b[off + 1]
  IN  IF off >= Len(b) \/ c.is # "head" \/ off + c.w > Len(b) THEN [id |-> "bad", size |-> 0, w |-> 0]
      ELSE [id |-> c.id, w |-> c.w, size |-> IF c.size = Pow(SizeBase, c.w) - 1 THEN UnknownSize ELSE c.size]

\* An element with the offsets of its header (from), its payload (data) and its end (to).
Element(id, from, data, to) == [id |-> id, from |-> from, data |-> data, to |-> to]

\* The elements from off on, up to the first that stop says, the first that cannot be read,
\* which has the id "bad", and the first that reaches end.
Walk(b, off, end, stop) ==
  LET from[p \in off..end] ==
        LET rest(h, to) ==
              IF h.id \in stop THEN <<Element(h.id, p, p + h.w, p)>>
              ELSE IF h.id = "bad" \/ h.size = UnknownSize THEN <<Element("bad", p, p, p)>>
              ELSE <<Element(h.id, p, p + h.w, to)>> \o IF to < end THEN from[to] ELSE <<>>
            h0 == ReadHeaderAt(b, p)
        IN  rest(h0, p + h0.w + h0.size)
  IN  IF off < end THEN from[off] ELSE <<>>

Children(b, e) == Walk(b, e.data, e.to, {})

\* Elements that do not fill their parent, which ends at end.
Malformed(es, end) == \E i \in DOMAIN es : es[i].id = "bad" \/ es[i].to > end
Intact(b, e) == ~Malformed(Children(b, e), e.to)

Raw(b, e) == SubSeq(b, e.from + 1, e.to)

\* The number in a cell and the number an element holds.
CellValue(b, off) == IF off < Len(b) /\ b[off + 1].is = "num" THEN b[off + 1].v ELSE 0
Uint(b, e) == IF e.data < e.to THEN CellValue(b, e.data) ELSE 0

\* Whether an element holds an id.
HoldsId(b, e, id) == e.data < e.to /\ e.data < Len(b) /\ b[e.data + 1] = Id(id)

\* Of several elements with an id the last one counts.
Has(es, id) == \E i \in DOMAIN es : es[i].id = id
LastOf(es, id) == es[Max({i \in DOMAIN es : es[i].id = id})]
Value(b, es, id) == IF Has(es, id) THEN Uint(b, LastOf(es, id)) ELSE 0
=============================================================================
