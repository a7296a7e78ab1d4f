------------------------------- MODULE Layout -------------------------------
(***************************************************************************)
(* internal/layout: a virtual file of parts, each either literal data or a *)
(* range of a data file.                                                   *)
(***************************************************************************)
EXTENDS Integers, Sequences, SequencesExt

Literal(b) == [literal |-> TRUE, data |-> b, off |-> 0, len |-> Len(b)]
RangeOf(off, n) == [literal |-> FALSE, data |-> <<>>, off |-> off, len |-> n]

\* Adds a part, merged with the last one where they continue each other.
AddPart(parts, p) ==
  LET last == Last(parts)
  IN  IF p.len = 0 THEN parts
      ELSE IF parts # <<>> /\ ~p.literal /\ ~last.literal /\ last.off + last.len = p.off
      THEN Front(parts) \o <<[last EXCEPT !.len = @ + p.len]>>
      ELSE IF parts # <<>> /\ p.literal /\ last.literal
      THEN Front(parts) \o <<[last EXCEPT !.data = @ \o p.data, !.len = @ + p.len]>>
      ELSE parts \o <<p>>

AppendAll(parts, more) ==
  LET with[i \in 0..Len(more)] == IF i = 0 THEN parts ELSE AddPart(with[i - 1], more[i])
  IN  with[Len(more)]

PartsLen(parts) ==
  LET len[i \in 0..Len(parts)] == IF i = 0 THEN 0 ELSE len[i - 1] + parts[i].len
  IN  len[Len(parts)]

\* Every part lies inside the data file.
Finalized(parts, file) ==
  \A i \in DOMAIN parts :
    LET p == parts[i]
    IN  IF p.literal THEN Len(p.data) = p.len ELSE p.len > 0 /\ p.off >= 0 /\ p.off + p.len <= Len(file)

\* The start of each part in the virtual file.
Offsets(parts) == [i \in DOMAIN parts |-> PartsLen(SubSeq(parts, 1, i - 1))]

\* Mutant: the last part is read to its end.
WholePart(part, within, rest) == IF rest > 0 THEN part.len - within ELSE 0

\* How much of a part a read takes, starting inside it with so much left to read.
Want(part, within, rest) == IF part.len - within > rest THEN rest ELSE part.len - within

\* Up to n cells from off on, part after part until n are read.
ReadAt(parts, file, off, n) ==
  LET offsets == Offsets(parts)
      first == CHOOSE i \in DOMAIN parts :
                 offsets[i] <= off /\ \A j \in (i + 1)..Len(parts) : offsets[j] > off
      read[i \in (first - 1)..Len(parts)] ==
        IF i = first - 1 THEN <<>>
        ELSE LET got == read[i - 1]
                 within == off + Len(got) - offsets[i]
                 want == Want(parts[i], within, n - Len(got))
             IN  got \o IF parts[i].literal THEN SubSeq(parts[i].data, within + 1, within + want)
                        ELSE SubSeq(file, parts[i].off + within + 1, parts[i].off + within + want)
  IN  IF off >= PartsLen(parts) THEN <<>> ELSE read[Len(parts)]

\* The whole virtual file.
Content(parts, file) ==
  FlattenSeq([i \in DOMAIN parts |->
    IF parts[i].literal THEN parts[i].data
    ELSE SubSeq(file, parts[i].off + 1, parts[i].off + parts[i].len)])
=============================================================================
