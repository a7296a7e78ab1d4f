----------------------------- MODULE CutProofs -----------------------------
(***************************************************************************)
(* Proofs about Cut, for every value of the constants: the file that is    *)
(* written consists of cells, so that a clip of what there is of it is     *)
(* never lost to an error of Finalize; every read of a clip gives the      *)
(* cells of the virtual file; its sizes and positions fit; and the frames  *)
(* in its clusters are the source's, in their order.                       *)
(***************************************************************************)
EXTENDS Cut, MkvProofs

-----------------------------------------------------------------------------
(* The source.                                                               *)

Cluster == [ts : Nat, blocks : Seq(BlockKinds)]

\* The times of a cluster and of its blocks are the file's.
Timed(c) ==
  c.ts < MaxTime /\ \A i \in 1..Len(c.blocks) : c.ts + c.blocks[i].rel \in 0..(MaxTime - 1)

TimedCluster == {c \in Cluster : Timed(c)}

SourceInv == format \in Formats /\ source \in Seq(TimedCluster)

\* A block of the source, by its place and time.
SourceBlock ==
  {b \in [at : Nat \X Nat, track : Nat, key : BOOLEAN, time : 0..MaxTime] : b.at[1] \in 1..Len(source)}

LEMMA KindType ==
  ASSUME NEW b, b \in BlockKinds
  PROVE  b.track \in Nat /\ b.rel \in Int /\ b.key \in BOOLEAN
<1>1. b \in [track : {VideoTrack, AudioTrack}, rel : Int, key : BOOLEAN] BY CutAssumption
<1> QED BY <1>1 DEF VideoTrack, AudioTrack

LEMMA SourceTypes ==
  ASSUME SourceInv, NEW k, k \in 1..Len(source)
  PROVE  /\ source[k] \in TimedCluster /\ k \in Nat
         /\ source[k].ts \in Nat /\ source[k].blocks \in Seq(BlockKinds) /\ Timed(source[k])
<1> DEFINE T == TimedCluster
<1>1. source \in Seq(T) BY DEF SourceInv
<1> HIDE DEF T
<1>2. source[k] \in T /\ k \in Nat BY <1>1
<1> QED BY <1>2 DEF T, TimedCluster, Cluster

LEMMA BlockTypes ==
  ASSUME SourceInv, NEW k, NEW i, k \in 1..Len(source), i \in 1..Len(source[k].blocks)
  PROVE  /\ source[k].blocks[i] \in BlockKinds /\ i \in Nat
         /\ source[k].ts + source[k].blocks[i].rel \in 0..(MaxTime - 1)
<1>1. source[k].blocks \in Seq(BlockKinds) /\ Timed(source[k]) BY SourceTypes
<1> DEFINE s == source[k].blocks
           T == BlockKinds
<1>2. s \in Seq(T) BY <1>1
<1>3. i \in 1..Len(s) OBVIOUS
<1>4. source[k].ts + source[k].blocks[i].rel \in 0..(MaxTime - 1) BY <1>1 DEF Timed
<1> HIDE DEF s, T
<1>5. s[i] \in T /\ i \in Nat BY <1>2, <1>3
<1> QED BY <1>4, <1>5 DEF s, T

-----------------------------------------------------------------------------
(* The file is made of cells.                                                *)

LEMMA JunkType ==
  ASSUME NEW id, id \in Ids
  PROVE  Junk(id) \in Seq(Cell)
<1>1. <<Num(1)>> \in Seq(Cell) BY NewCells
<1>2. AppendElement(id, <<Num(1)>>) \in Seq(Cell) BY <1>1, ElementType
<1>3. <<>> \in Seq(Cell) OBVIOUS
<1> QED BY <1>2, <1>3 DEF Junk

LEMMA BlockElementType ==
  ASSUME SourceInv, NEW k, NEW i, k \in 1..Len(source), i \in 1..Len(source[k].blocks)
  PROVE  BlockElement(k, i) \in Seq(Cell)
<1> DEFINE b == source[k].blocks[i]
           t == Num(b.track)
           r == Rel(b.rel)
           fr == Frame(k, i)
           data == <<t, r, fr>>
<1>1. {"SimpleBlock", "BlockGroup", "Block", "BlockDuration"} \subseteq Ids BY DEF Ids
<1>2. b \in BlockKinds /\ i \in Nat /\ k \in Nat BY BlockTypes, SourceTypes
<1>3. b.track \in Nat /\ b.rel \in Int BY <1>2, KindType
<1>4. t \in Cell /\ r \in Cell BY <1>3, NewCells, RelType
<1>5. fr \in Cell BY <1>2, NewCells DEF Frame
<1>6. BlockElement(k, i) = IF b.track = VideoTrack THEN AppendElement("SimpleBlock", data)
        ELSE AppendElement("BlockGroup", AppendElement("Block", data) \o AppendUint("BlockDuration", 1))
  BY DEF BlockElement
<1> HIDE DEF t, r, fr, b
<1>7. data \in Seq(Cell) BY <1>4, <1>5
<1> HIDE DEF data
<1> DEFINE s == AppendElement("SimpleBlock", data)
           e == AppendElement("Block", data)
           d == AppendUint("BlockDuration", 1)
<1>8. s \in Seq(Cell) /\ e \in Seq(Cell) BY <1>1, <1>7, ElementType
<1>9. d \in Seq(Cell) BY <1>1, UintType
<1> HIDE DEF s, e, d
<1>10. e \o d \in Seq(Cell) BY <1>8, <1>9, ConcatProperties
<1>11. AppendElement("BlockGroup", e \o d) \in Seq(Cell) BY <1>1, <1>10, ElementType
<1> QED BY <1>6, <1>8, <1>11 DEF s, e, d

LEMMA ClusterElementType ==
  ASSUME SourceInv, NEW k, k \in 1..Len(source)
  PROVE  ClusterElement(k) \in Seq(Cell)
<1> DEFINE blocks == source[k].blocks
           block(i) == BlockElement(k, i) \o Junk("Void")
           g == [i \in DOMAIN blocks |-> block(i)]
           flat == FlattenSeq(g)
           ts == AppendUint("Timestamp", source[k].ts)
           junk == Junk("PrevSize")
           body == ts \o junk \o flat
           size == IF format.live THEN Pow(SizeBase, Wide) - 1 ELSE Len(body)
           U == Seq(Cell)
<1>1. {"Timestamp", "PrevSize", "Void", "Cluster"} \subseteq Ids BY DEF Ids
<1>2. source[k].ts \in Nat /\ blocks \in Seq(BlockKinds) BY SourceTypes
<1>3. \A a, b \in U : a \o b \in U BY ConcatProperties
<1>4. ts \in U BY <1>1, <1>2, UintType
<1>5. junk \in U /\ Junk("Void") \in U BY <1>1, JunkType
<1>6. \A i \in 1..Len(blocks) : g[i] \in U
  <2> SUFFICES ASSUME NEW i \in 1..Len(blocks) PROVE g[i] \in U OBVIOUS
  <2>1. BlockElement(k, i) \in U BY BlockElementType
  <2>2. block(i) \in U BY <1>3, <1>5, <2>1
  <2>3. i \in DOMAIN blocks BY <1>2
  <2> HIDE DEF block
  <2> QED BY <2>2, <2>3
<1>7. DOMAIN g = DOMAIN blocks /\ g = [i \in DOMAIN g |-> g[i]]
  <2> HIDE DEF block, blocks
  <2> QED OBVIOUS
<1>8. ClusterElement(k) = AppendSizeWidth("Cluster", size, Wide) \o body BY DEF ClusterElement
<1> HIDE DEF g, blocks, ts, junk
<1>9. g \in Seq(U) BY <1>2, <1>6, <1>7, EachOf
<1>10. flat \in U BY <1>9, FlattenType
<1> HIDE DEF flat
<1>11. body \in U BY <1>3, <1>4, <1>5, <1>10
<1> HIDE DEF body
<1>12. SizeBase \in Nat /\ SizeBase > 0 /\ Wide \in Nat /\ Wide > 0 BY EbmlAssumption
<1>13. Pow(SizeBase, Wide) \in Nat BY <1>12, PowNat
<1>14. size \in Int BY <1>11, <1>13
<1> HIDE DEF size
<1>15. AppendSizeWidth("Cluster", size, Wide) \in U BY <1>1, <1>12, <1>14, SizeHeaderType
<1> QED BY <1>3, <1>8, <1>11, <1>15

LEMMA StoredType ==
  ASSUME SourceInv
  PROVE  Stored \in Seq(SourceBlock)
<1> DEFINE block(k, i) == [at |-> <<k, i>>, track |-> source[k].blocks[i].track, key |-> source[k].blocks[i].key,
                           time |-> source[k].ts + source[k].blocks[i].rel]
           row(k) == [i \in DOMAIN source[k].blocks |-> block(k, i)]
           g == [k \in DOMAIN source |-> row(k)]
           U == Seq(SourceBlock)
<1>1. Stored = FlattenSeq(g) BY DEF Stored
<1>2. MaxTime \in Nat BY CutAssumption
<1>3. ASSUME NEW k \in 1..Len(source), NEW i \in 1..Len(source[k].blocks) PROVE block(k, i) \in SourceBlock
  <2>1. k \in Nat /\ i \in Nat BY SourceTypes, BlockTypes
  <2>2. source[k].blocks[i] \in BlockKinds /\ source[k].ts + source[k].blocks[i].rel \in 0..(MaxTime - 1)
    BY BlockTypes
  <2> DEFINE b == source[k].blocks[i]
             t == source[k].ts + b.rel
             tr == b.track
             ky == b.key
             at == <<k, i>>
  <2>3. tr \in Nat /\ ky \in BOOLEAN BY <2>2, KindType
  <2>4. t \in 0..(MaxTime - 1) BY <2>2
  <2>5. at \in Nat \X Nat /\ at[1] \in 1..Len(source) BY <2>1
  <2>6. block(k, i) = [at |-> at, track |-> tr, key |-> ky, time |-> t] OBVIOUS
  <2> HIDE DEF b, t, tr, ky, at, block
  <2>7. t \in 0..MaxTime BY <1>2, <2>4
  <2> QED BY <2>3, <2>5, <2>6, <2>7 DEF SourceBlock
<1>4. ASSUME NEW k \in 1..Len(source) PROVE row(k) \in U
  <2> DEFINE blocks == source[k].blocks
             h == [i \in DOMAIN blocks |-> block(k, i)]
             T == BlockKinds
             W == SourceBlock
  <2>1. blocks \in Seq(T) BY SourceTypes
  <2>2. row(k) = h OBVIOUS
  <2>3. \A i \in 1..Len(blocks) : block(k, i) \in W BY <1>3
  <2> HIDE DEF blocks, T, W, block
  <2>4. DOMAIN blocks = 1..Len(blocks) BY <2>1
  <2>5. \A i \in 1..Len(blocks) : h[i] \in W BY <2>3, <2>4
  <2>6. DOMAIN h = DOMAIN blocks /\ h = [i \in DOMAIN h |-> h[i]] OBVIOUS
  <2> HIDE DEF h
  <2>7. h \in Seq(W) BY <2>1, <2>5, <2>6, EachOf
  <2> QED BY <2>2, <2>7 DEF W
<1> DEFINE T == TimedCluster
<1>5. source \in Seq(T) BY DEF SourceInv
<1> HIDE DEF T, U, row
<1>6. DOMAIN source = 1..Len(source) BY <1>5
<1>7. \A k \in 1..Len(source) : g[k] \in U BY <1>4, <1>6
<1>8. DOMAIN g = DOMAIN source /\ g = [k \in DOMAIN g |-> g[k]] OBVIOUS
<1> HIDE DEF g
<1>9. g \in Seq(U) BY <1>5, <1>7, <1>8, EachOf
<1>10. FlattenSeq(g) \in Seq(SourceBlock) BY <1>9, FlattenType DEF U
<1> QED BY <1>1, <1>10

LEMMA DurationType ==
  ASSUME SourceInv
  PROVE  Duration \in Nat
<1> DEFINE T == SourceBlock
           S == {Stored[i].time : i \in 1..Len(Stored)}
           greatest(t) == /\ \E i \in DOMAIN Stored : Stored[i].time = t
                          /\ \A i \in DOMAIN Stored : Stored[i].time <= t
           t0 == CHOOSE t \in 0..MaxTime : greatest(t)
<1>1. Stored \in Seq(T) BY StoredType
<1>2. \A b \in T : b.time \in 0..MaxTime BY DEF SourceBlock
<1>3. MaxTime \in Nat BY CutAssumption
<1> HIDE DEF T
<1>4. CASE ~format.timed \/ Stored = <<>> BY <1>4 DEF Duration
<1>5. CASE ~(~format.timed \/ Stored = <<>>)
  <2>1. Stored # <<>> BY <1>5
  <2>2. DOMAIN Stored = 1..Len(Stored) /\ 1 \in 1..Len(Stored) /\ \A i \in 1..Len(Stored) : Stored[i] \in T
    BY <1>1, <2>1
  <2>3. S \subseteq 0..MaxTime /\ S # {} BY <1>2, <2>2
  <2>4. Max(S) \in S /\ \A m \in S : m <= Max(S)
    <3> HIDE DEF S
    <3> QED BY <1>3, <2>3, GreatestNumber
  <2>5. Max(S) \in 0..MaxTime /\ greatest(Max(S)) BY <2>2, <2>3, <2>4
  <2> HIDE DEF greatest, S
  <2>6. t0 \in 0..MaxTime BY <2>5
  <2>7. Duration = 1 + t0 BY <1>5 DEF Duration, greatest
  <2> HIDE DEF t0
  <2> QED BY <1>3, <2>6, <2>7
<1> QED BY <1>4, <1>5

LEMMA CuesType ==
  ASSUME SourceInv, NEW offs, \A k \in 1..Len(source) : offs[k] \in Int
  PROVE  CuesElement(offs) \in Seq(Cell)
<1> DEFINE I == {i \in DOMAIN Stored :
                   IF Stored[i].track = VideoTrack THEN Stored[i].key ELSE format.noisy}
           indexed == Where(Stored, I)
           point(b) == AppendElement("CuePoint", AppendUint("CueTime", b.time)
                         \o AppendElement("CueTrackPositions", AppendUint("CueTrack", b.track)
                              \o AppendUintWidth("CueClusterPosition", offs[b.at[1]], Wide)))
           g == [i \in DOMAIN indexed |-> point(indexed[i])]
           T == SourceBlock
           U == Seq(Cell)
<1>1. {"CuePoint", "CueTime", "CueTrackPositions", "CueTrack", "CueClusterPosition", "Cues"} \subseteq Ids
  BY DEF Ids
<1>2. \A a, b \in U : a \o b \in U BY ConcatProperties
<1>3. ASSUME NEW b \in T PROVE point(b) \in U
  <2> DEFINE a == AppendUint("CueTrack", b.track)
             o == offs[b.at[1]]
             p == AppendUintWidth("CueClusterPosition", o, Wide)
             d == AppendUint("CueTime", b.time)
  <2>1. b.track \in Nat /\ b.time \in 0..MaxTime /\ b.at[1] \in 1..Len(source) BY DEF SourceBlock
  <2>2. b.time \in Int /\ b.track \in Int BY <2>1, CutAssumption
  <2>3. o \in Int /\ Wide \in Nat BY <2>1, EbmlAssumption
  <2>4. a \in U /\ d \in U BY <1>1, <2>2, UintType
  <2> HIDE DEF o
  <2>5. p \in U BY <1>1, <2>3, UintWidthType
  <2> HIDE DEF a, p, d
  <2>6. a \o p \in U BY <1>2, <2>4, <2>5
  <2>7. AppendElement("CueTrackPositions", a \o p) \in U BY <1>1, <2>6, ElementType
  <2>8. d \o AppendElement("CueTrackPositions", a \o p) \in U BY <1>2, <2>4, <2>7
  <2>9. AppendElement("CuePoint", d \o AppendElement("CueTrackPositions", a \o p)) \in U
    BY <1>1, <2>8, ElementType
  <2> QED BY <2>9 DEF a, p, d, o
<1>4. CuesElement(offs) = AppendElement("Cues", FlattenSeq(g)) BY DEF CuesElement
<1>5. Stored \in Seq(T) BY StoredType
<1> HIDE DEF T, U, I, point
<1>6. indexed \in Seq(T)
  <2>1. \A i \in 1..Len(Stored) : i \in I => Stored[i] \in T BY <1>5
  <2> QED BY <1>5, <2>1, WhereType
<1> HIDE DEF indexed
<1>7. \A i \in 1..Len(indexed) : indexed[i] \in T /\ i \in DOMAIN indexed BY <1>6
<1>8. \A i \in 1..Len(indexed) : g[i] \in U BY <1>3, <1>7
<1>9. DOMAIN g = DOMAIN indexed /\ g = [i \in DOMAIN g |-> g[i]] OBVIOUS
<1> HIDE DEF g
<1>10. g \in Seq(U) BY <1>6, <1>8, <1>9, EachOf
<1>11. FlattenSeq(g) \in Seq(Cell) BY <1>10, FlattenType DEF U
<1>12. AppendElement("Cues", FlattenSeq(g)) \in Seq(Cell) BY <1>1, <1>11, ElementType
<1> QED BY <1>4, <1>12

\* The file a muxer writes consists of cells, whatever the source and the format.
LEMMA FileType ==
  ASSUME SourceInv
  PROVE  File \in Seq(Cell)
<1> DEFINE track(n, type) ==
             AppendElement("TrackEntry", AppendUint("TrackNumber", n) \o AppendUint("TrackType", type))
           all == [k \in DOMAIN source |-> ClusterElement(k)]
           clusters == FlattenSeq(all)
           start(k) == Len(FlattenSeq([j \in 1..(k - 1) |-> ClusterElement(j)]))
           seekHead0(pos) == IF format.cues = "back" THEN seekHead(<<<<"Cues", pos>>>>) ELSE <<>>
           duration == AppendUintWidth("Duration", Duration, Wide)
           info == AppendElement("Info", Junk("Void") \o AppendUint("TimestampScale", 1)
                     \o AppendUint("Title", 1) \o duration)
           tracks == AppendElement("Tracks", (IF format.noisy THEN track(AudioTrack, 2) ELSE <<>>)
                       \o track(VideoTrack, 1))
           attached == IF format.noisy THEN AppendElement("Attachments", <<Num(7), Num(8)>>) ELSE <<>>
           meta == info \o tracks \o attached
           index(first) == CuesElement([k \in DOMAIN source |-> first + start(k)])
           front == IF format.cues = "front" THEN Len(index(0)) ELSE 0
           first == Len(seekHead0(0)) + Len(meta) + front
           tail == Junk("Tags")
           body == seekHead0(first + Len(clusters) + Len(tail)) \o meta
                     \o (IF format.cues = "front" THEN index(first) ELSE <<>>) \o clusters \o tail
                     \o (IF format.cues = "back" THEN index(first) ELSE <<>>)
           U == Seq(Cell)
<1>1. File = AppendElement("EBML", <<Num(4)>>) \o AppendSizeWidth("Segment", Len(body), Wide) \o body
  BY DEF File
<1>2. /\ {"TrackEntry", "TrackNumber", "TrackType", "Cues", "Info", "Void", "TimestampScale", "Title", "Duration",
          "Tracks", "Attachments", "Tags", "EBML", "Segment"} \subseteq Ids
      /\ Wide \in Nat /\ Wide > 0
  BY EbmlAssumption DEF Ids
<1>3. \A a, b \in U : a \o b \in U BY ConcatProperties
<1>4. <<>> \in U /\ \A v \in Nat : <<Num(v)>> \in U /\ \A w \in Nat : <<Num(v), Num(w)>> \in U BY NewCells
<1>5. \A id \in Ids : Junk(id) \in U /\ \A data \in U : AppendElement(id, data) \in U
  BY JunkType, ElementType
<1>6. \A id \in Ids : \A v \in Int : AppendUint(id, v) \in U /\ AppendUintWidth(id, v, Wide) \in U
  BY <1>2, UintType, UintWidthType
<1>7. \A n, type \in Nat : track(n, type) \in U
  <2> HIDE DEF U
  <2> QED BY <1>2, <1>3, <1>5, <1>6
<1>8. duration \in U BY <1>2, <1>6, DurationType
<1> HIDE DEF duration, track
<1>9. info \in U
  <2> HIDE DEF U
  <2> QED BY <1>2, <1>3, <1>5, <1>6, <1>8
<1>10. tracks \in U
  <2> HIDE DEF U
  <2> QED BY <1>2, <1>3, <1>4, <1>5, <1>7 DEF AudioTrack, VideoTrack
<1>11. attached \in U
  <2> HIDE DEF U
  <2> QED BY <1>2, <1>4, <1>5
<1> HIDE DEF info, tracks, attached
<1>12. meta \in U
  <2> HIDE DEF U
  <2> QED BY <1>3, <1>9, <1>10, <1>11
<1>13. DOMAIN source = 1..Len(source) /\ Len(source) \in Nat
  <2> DEFINE T == TimedCluster
  <2>1. source \in Seq(T) BY DEF SourceInv
  <2> HIDE DEF T
  <2> QED BY <2>1
<1>14. \A k \in 1..Len(source) : ClusterElement(k) \in U BY ClusterElementType
<1>15. clusters \in U
  <2>1. all \in [1..Len(source) -> U]
    <3> HIDE DEF U
    <3> QED BY <1>13, <1>14
  <2> HIDE DEF all
  <2> QED BY <1>13, <2>1, FlattenOf
<1>16. \A k \in 1..Len(source) : start(k) \in Nat
  <2> SUFFICES ASSUME NEW k \in 1..Len(source) PROVE start(k) \in Nat OBVIOUS
  <2> DEFINE m == k - 1
             before == [j \in 1..m |-> ClusterElement(j)]
  <2>1. m \in Nat /\ \A j \in 1..m : j \in 1..Len(source) BY <1>13
  <2>2. before \in [1..m -> U]
    <3> HIDE DEF U, m
    <3> QED BY <1>14, <2>1
  <2> HIDE DEF before
  <2>3. FlattenSeq(before) \in U
    <3> HIDE DEF m
    <3> QED BY <2>1, <2>2, FlattenOf
  <2>4. start(k) = Len(FlattenSeq(before)) BY DEF before
  <2>5. \A u \in U : Len(u) \in Nat OBVIOUS
  <2> HIDE DEF U, start
  <2> QED BY <2>3, <2>4, <2>5
<1> HIDE DEF start, meta, clusters, all
<1>17. \A o \in Int : index(o) \in U
  <2> SUFFICES ASSUME NEW o \in Int PROVE index(o) \in U OBVIOUS
  <2> DEFINE offs == [k \in DOMAIN source |-> o + start(k)]
  <2>1. \A k \in 1..Len(source) : offs[k] \in Int BY <1>13, <1>16
  <2> HIDE DEF offs
  <2>2. CuesElement(offs) \in U BY <2>1, CuesType
  <2> QED BY <2>2 DEF offs
<1> HIDE DEF index
<1>18. \A pos \in Int : seekHead0(pos) \in U
  <2> SUFFICES ASSUME NEW pos \in Int PROVE seekHead0(pos) \in U OBVIOUS
  <2> DEFINE T == Ids \X Int
  <2>1. <<"Cues", pos>> \in T BY <1>2
  <2> HIDE DEF T
  <2>2. <<<<"Cues", pos>>>> \in Seq(T) BY <2>1
  <2>3. <<<<"Cues", pos>>>> \in SeekPositions BY <2>2 DEF SeekPositions, T
  <2>4. seekHead(<<<<"Cues", pos>>>>) \in U BY <2>3, SeekHeadType
  <2> QED BY <1>4, <2>4
<1> HIDE DEF seekHead0
<1>19. tail \in U BY <1>2, <1>5
<1> HIDE DEF tail
<1>20. front \in Int /\ first \in Int
  <2>1. index(0) \in U /\ seekHead0(0) \in U BY <1>17, <1>18
  <2> QED BY <1>12, <2>1
<1> HIDE DEF front, first
<1>21. body \in U
  <2> DEFINE p == first + Len(clusters) + Len(tail)
  <2>1. p \in Int BY <1>15, <1>19, <1>20
  <2> HIDE DEF p
  <2>2. seekHead0(p) \in U /\ index(first) \in U BY <1>17, <1>18, <1>20, <2>1
  <2> HIDE DEF U
  <2>3. seekHead0(p) \o meta \o (IF format.cues = "front" THEN index(first) ELSE <<>>) \o clusters \o tail
          \o (IF format.cues = "back" THEN index(first) ELSE <<>>) \in U
    BY <1>3, <1>4, <1>12, <1>15, <1>19, <2>2
  <2> QED BY <2>3 DEF p
<1> HIDE DEF body
<1>22. Len(body) \in Int BY <1>21
<1>23. AppendSizeWidth("Segment", Len(body), Wide) \in U BY <1>2, <1>22, SizeHeaderType
<1>24. AppendElement("EBML", <<Num(4)>>) \in U
  <2> HIDE DEF U
  <2> QED BY <1>2, <1>4, <1>5
<1> HIDE DEF U
<1> QED BY <1>1, <1>3, <1>21, <1>23, <1>24 DEF U

-----------------------------------------------------------------------------
(* The source stays one that a file can be written of.                       *)

LEMMA SourceInit == Init => SourceInv
<1> SUFFICES ASSUME Init PROVE SourceInv OBVIOUS
<1> DEFINE T == TimedCluster
<1>1. source = <<>> /\ format \in Formats BY DEF Init
<1> HIDE DEF T
<1>2. <<>> \in Seq(T) OBVIOUS
<1> QED BY <1>1, <1>2 DEF SourceInv, T

LEMMA ClusterAdded ==
  ASSUME SourceInv, NEW ts, ts \in 0..(MaxTime - 1), AddCluster(ts)
  PROVE  SourceInv'
<1> DEFINE c == [ts |-> ts, blocks |-> <<>>]
           T == TimedCluster
<1>1. source' = Append(source, c) /\ format' = format BY DEF AddCluster
<1>2. c \in T
  <2>1. ts \in Nat /\ ts < MaxTime BY CutAssumption
  <2>2. <<>> \in Seq(BlockKinds) /\ Len(<<>>) = 0 OBVIOUS
  <2>3. c \in Cluster BY <2>1, <2>2 DEF Cluster
  <2>4. Timed(c) BY <2>1, <2>2 DEF Timed
  <2> QED BY <2>3, <2>4 DEF TimedCluster
<1>3. source \in Seq(T) /\ format \in Formats BY DEF SourceInv
<1>4. T = TimedCluster' BY DEF TimedCluster, Cluster, Timed
<1> HIDE DEF T, c
<1>5. source' \in Seq(T) BY <1>1, <1>2, <1>3
<1> QED BY <1>1, <1>3, <1>4, <1>5 DEF SourceInv

LEMMA BlockAdded ==
  ASSUME SourceInv, NEW b, b \in BlockKinds, AddBlock(b)
  PROVE  SourceInv'
<1> DEFINE T == TimedCluster
           c == Last(source)
           blocks == Append(c.blocks, b)
           d == [c EXCEPT !.blocks = Append(@, b)]
<1>1. source' = Front(source) \o <<d>> /\ format' = format /\ source # <<>>
      /\ c.ts + b.rel \in 0..(MaxTime - 1)
  BY DEF AddBlock
<1>2. source \in Seq(T) /\ format \in Formats BY DEF SourceInv
<1>3. c \in T /\ Front(source) \in Seq(T)
  <2> HIDE DEF T
  <2>1. Len(source) \in 1..Len(source) BY <1>1, <1>2
  <2>2. Last(source) \in T BY <1>2, <2>1 DEF Last
  <2>3. Front(source) \in Seq(T)
    <3> DEFINE n == Len(source) - 1
    <3>1. n \in Nat /\ 0 \in Nat /\ 0 + n <= Len(source) /\ 0 + 1 = 1 /\ 0 + n = Len(source) - 1
      BY <1>2, <2>1
    <3> HIDE DEF n
    <3>2. SubSeq(source, 0 + 1, 0 + n) \in Seq(T) BY <1>2, <3>1, SliceType
    <3> QED BY <3>1, <3>2 DEF Front
  <2> QED BY <2>2, <2>3
<1>4. c \in Cluster /\ Timed(c) BY <1>3 DEF TimedCluster
<1> HIDE DEF c
<1>5. c.ts \in Nat /\ c.blocks \in Seq(BlockKinds) BY <1>4 DEF Cluster
<1>6. blocks \in Seq(BlockKinds) /\ Len(blocks) = Len(c.blocks) + 1 /\ Len(c.blocks) \in Nat
      /\ \A i \in 1..Len(blocks) : blocks[i] = IF i = Len(blocks) THEN b ELSE c.blocks[i]
  <2> DEFINE s == c.blocks
             B == BlockKinds
  <2>1. s \in Seq(B) /\ b \in B BY <1>5
  <2> HIDE DEF s, B
  <2>2. Append(s, b) \in Seq(B) /\ Len(Append(s, b)) = Len(s) + 1 /\ Len(s) \in Nat
        /\ \A i \in 1..Len(Append(s, b)) : Append(s, b)[i] = IF i = Len(Append(s, b)) THEN b ELSE s[i]
    BY <2>1
  <2> QED BY <2>2 DEF s, B
<1>7. d.ts = c.ts /\ d.blocks = blocks /\ d \in Cluster
  BY <1>4, <1>6 DEF Cluster
<1> HIDE DEF d, blocks
<1>8. Timed(d)
  <2>1. c.ts < MaxTime /\ \A i \in 1..Len(c.blocks) : c.ts + c.blocks[i].rel \in 0..(MaxTime - 1)
    BY <1>4 DEF Timed
  <2> SUFFICES ASSUME NEW i \in 1..Len(blocks) PROVE c.ts + blocks[i].rel \in 0..(MaxTime - 1)
    BY <1>7, <2>1 DEF Timed
  <2>2. CASE i = Len(blocks) BY <1>1, <1>6, <2>2 DEF c
  <2>3. CASE i # Len(blocks)
    <3>1. i \in 1..Len(c.blocks) BY <1>6, <2>3
    <3> QED BY <1>6, <2>1, <2>3, <3>1
  <2> QED BY <2>2, <2>3
<1>9. d \in T BY <1>7, <1>8 DEF TimedCluster
<1>10. T = TimedCluster' BY DEF TimedCluster, Cluster, Timed
<1> HIDE DEF T
<1>11. <<d>> \in Seq(T) BY <1>9
<1>12. Front(source) \o <<d>> \in Seq(T) BY <1>3, <1>11, ConcatProperties
<1> QED BY <1>1, <1>2, <1>10, <1>12 DEF SourceInv

LEMMA SourceNext == SourceInv /\ [Next]_vars => SourceInv'
<1> SUFFICES ASSUME SourceInv, [Next]_vars PROVE SourceInv' OBVIOUS
<1>1. ASSUME NEW ts \in 0..(MaxTime - 1), AddCluster(ts) PROVE SourceInv' BY <1>1, ClusterAdded
<1>2. ASSUME NEW b \in BlockKinds, AddBlock(b) PROVE SourceInv' BY <1>2, BlockAdded
<1>3. CASE UNCHANGED <<format, source>>
  BY <1>3 DEF SourceInv, TimedCluster, Cluster, Timed
<1>4. CASE CutClip BY <1>3, <1>4 DEF CutClip
<1>5. CASE Forget BY <1>3, <1>5 DEF Forget
<1>6. CASE UNCHANGED vars BY <1>3, <1>6 DEF vars
<1> QED BY <1>1, <1>2, <1>4, <1>5, <1>6 DEF Next

-----------------------------------------------------------------------------
(* The sizes and positions in a clip.                                        *)

LEMMA TopIdsAre ==
  ASSUME NEW src
  PROVE  /\ DOMAIN TopIds(src) = 1..Tops(src) /\ Len(TopIds(src)) = Tops(src) /\ Tops(src) \in {4, 5}
         /\ TopIds(src)[1] = "SeekHead" /\ TopIds(src)[2] = "Info" /\ TopIds(src)[3] = "Tracks"
         /\ TopIds(src)[Tops(src)] = "Cues"
         /\ Tops(src) = 5 <=> src.attachments # <<>>
         /\ Tops(src) = 5 => TopIds(src)[4] = "Attachments"
<1>1. CASE src.attachments = <<>>
  <2>1. TopIds(src) = <<"SeekHead", "Info", "Tracks", "Cues">> BY <1>1 DEF TopIds
  <2> QED BY <1>1, <2>1 DEF Tops
<1>2. CASE src.attachments # <<>>
  <2>1. TopIds(src) = <<"SeekHead", "Info", "Tracks", "Attachments", "Cues">> BY <1>2 DEF TopIds
  <2> QED BY <1>2, <2>1 DEF Tops
<1> QED BY <1>1, <1>2

\* The ids of a clip's elements.
PieceIds(src, n) == [i \in 1..n |-> IF i <= Tops(src) THEN TopIds(src)[i] ELSE "Cluster"]

LEMMA PiecesFramed ==
  ASSUME NEW b, NEW f, NEW src, NEW ss, NEW sd, NEW info, NEW tracks, NEW cd, NEW cells,
         b \in Seq(Cell), f \in Seq(Cell), SourceOf(f, src), Small(b),
         sd \in Seq(Cell), info \in Seq(Cell), tracks \in Seq(Cell), cd \in Seq(Cell),
         InPlace(f, src, ss, AppendElement("SeekHead", sd), AppendElement("Info", info),
                 AppendElement("Tracks", tracks), AppendElement("Cues", cd), cells),
         \A i \in 1..Len(cells) : Framed(b, cells[i], "Cluster")
  PROVE  AllFramed(b, ss, PieceIds(src, Len(ss)))
<1> DEFINE k == Tops(src)
           n == Len(cells)
           ids == PieceIds(src, Len(ss))
<1>1. {"SeekHead", "Info", "Tracks", "Attachments", "Cues"} \subseteq Ids /\ "bad" \notin {"SeekHead", "Info", "Tracks", "Attachments", "Cues", "Cluster"}
  BY DEF Ids
<1>2. /\ Framed(b, AppendElement("SeekHead", sd), "SeekHead") /\ Framed(b, AppendElement("Info", info), "Info")
      /\ Framed(b, AppendElement("Tracks", tracks), "Tracks") /\ Framed(b, AppendElement("Cues", cd), "Cues")
  BY <1>1, FramedElement
<1>3. src.attachments # <<>> => Framed(b, Raw(f, src.attachments[1]), "Attachments")
  BY SourceAttached, FramedRaw
<1>4. /\ Len(ss) = k + n /\ n \in Nat
      /\ Framed(b, ss[1], "SeekHead") /\ Framed(b, ss[2], "Info") /\ Framed(b, ss[3], "Tracks")
      /\ Framed(b, ss[k], "Cues") /\ (src.attachments # <<>> => Framed(b, ss[4], "Attachments"))
      /\ \A i \in 1..n : Framed(b, ss[k + i], "Cluster")
  BY <1>2, <1>3 DEF InPlace
<1>5. k \in {4, 5} /\ (k = 5 <=> src.attachments # <<>>) BY TopIdsAre
<1> SUFFICES ASSUME NEW i \in 1..Len(ss) PROVE Framed(b, ss[i], ids[i]) /\ ids[i] # "bad"
  BY DEF AllFramed
<1>6. ids[i] = IF i <= k THEN TopIds(src)[i] ELSE "Cluster" BY DEF PieceIds
<1> HIDE DEF k, n, ids
<1>7. CASE i <= k
  <2>1. i = 1 \/ i = 2 \/ i = 3 \/ i = k \/ (k = 5 /\ i = 4) BY <1>4, <1>5, <1>7
  <2>2. ids[i] = TopIds(src)[i] BY <1>6, <1>7
  <2> QED BY <1>1, <1>4, <1>5, <2>1, <2>2, TopIdsAre DEF k
<1>8. CASE ~(i <= k)
  <2> DEFINE j == i - k
  <2>1. j \in 1..n /\ i = k + j BY <1>4, <1>5, <1>8
  <2> HIDE DEF j
  <2> QED BY <1>1, <1>4, <1>6, <1>8, <2>1
<1> QED BY <1>7, <1>8

LEMMA TopStarts ==
  ASSUME NEW f, NEW src, NEW ss, NEW seeks, NEW infoEl, NEW tracksEl, NEW cuesEl, NEW cells,
         NEW infoPos, NEW tracksPos, NEW attPos, NEW cuesPos, NEW first,
         f \in Seq(Cell), SourceOf(f, src), InPlace(f, src, ss, seeks, infoEl, tracksEl, cuesEl, cells),
         infoPos = Len(seeks), tracksPos = infoPos + Len(infoEl), attPos = tracksPos + Len(tracksEl),
         cuesPos = attPos + AttachmentsLen(src), first = cuesPos + Len(cuesEl)
  PROVE  StartsAt(src, ss, infoPos, tracksPos, attPos, cuesPos, first)
<1> DEFINE k == Tops(src)
           n == Len(ss)
<1>1. /\ ss \in Seq(Seq(Cell)) /\ n = k + Len(cells) /\ Len(cells) \in Nat
      /\ ss[1] = seeks /\ ss[2] = infoEl /\ ss[3] = tracksEl /\ ss[k] = cuesEl
      /\ src.attachments # <<>> => ss[4] = Raw(f, src.attachments[1])
  BY DEF InPlace
<1>2. k \in {4, 5} /\ (k = 5 <=> src.attachments # <<>>) BY TopIdsAre
<1>3. \A i \in 1..k : Starts(ss, i)
  <2>1. \A i \in 1..k : i \in 1..n
    <3> HIDE DEF k, n
    <3>1. k \in Nat BY <1>2
    <3>2. n \in Nat /\ k <= n
      <4> DEFINE m == Len(cells)
      <4>1. n = k + m /\ m \in Nat BY <1>1
      <4> HIDE DEF m
      <4> QED BY <3>1, <4>1
    <3> QED BY <3>1, <3>2
  <2> QED BY <1>1, <2>1, StartStep
<1>4. Start(ss, 1) = 0 BY <1>1, StartEnds
<1>5. ASSUME NEW i \in 1..k, NEW x, ss[i] = x
      PROVE  Start(ss, i + 1) = Start(ss, i) + Len(x) /\ Start(ss, i) \in Nat /\ Start(ss, i + 1) \in Nat
  BY <1>3, <1>5 DEF Starts
<1>6. 1 \in 1..k /\ 2 \in 1..k /\ 3 \in 1..k /\ 4 \in 1..k /\ k \in 1..k BY <1>2
<1> HIDE DEF k, n
<1>7. Start(ss, 2) = infoPos /\ Start(ss, 3) = tracksPos /\ Start(ss, 4) = attPos
  <2>1. Len(seeks) \in Nat
    <3>1. Starts(ss, 1) BY <1>3, <1>6
    <3>2. seeks \in Seq(Cell) BY <1>1, <3>1 DEF Starts
    <3> QED BY <3>2
  <2>2. Start(ss, 1 + 1) = Start(ss, 1) + Len(seeks) BY <1>1, <1>5, <1>6
  <2>3. Start(ss, 2 + 1) = Start(ss, 2) + Len(infoEl) BY <1>1, <1>5, <1>6
  <2>4. Start(ss, 3 + 1) = Start(ss, 3) + Len(tracksEl) BY <1>1, <1>5, <1>6
  <2>5. 1 + 1 = 2 /\ 2 + 1 = 3 /\ 3 + 1 = 4 OBVIOUS
  <2>6. Start(ss, 2) = infoPos BY <1>4, <2>1, <2>2, <2>5
  <2> QED BY <2>3, <2>4, <2>5, <2>6
<1>8. Start(ss, k) = cuesPos
  <2>1. attPos \in Nat
    <3>1. Start(ss, 4) \in Nat BY <1>5, <1>6
    <3> QED BY <1>7, <3>1
  <2>2. CASE k = 4
    <3>1. AttachmentsLen(src) = 0 BY <1>2, <2>2 DEF AttachmentsLen
    <3>2. cuesPos = attPos BY <2>1, <3>1
    <3> QED BY <1>7, <2>2, <3>2
  <2>3. CASE k = 5
    <3> DEFINE e == src.attachments[1]
               x == Raw(f, e)
               m == e.to - e.from
               o == e.from
    <3>1. src.attachments # <<>> BY <1>2, <2>3
    <3>2. e \in FileElem(f) BY <3>1, SourceAttached
    <3>3. e.from \in Nat /\ e.to \in Nat /\ e.from <= e.to /\ e.to <= Len(f) BY <3>2 DEF FileElem, Elem
    <3>4. AttachmentsLen(src) = m /\ ss[4] = x BY <1>1, <3>1 DEF AttachmentsLen
    <3> HIDE DEF e
    <3>5. o \in Nat /\ m \in Nat /\ o + m = e.to /\ o + m <= Len(f) BY <3>3
    <3>6. x = SubSeq(f, o + 1, e.to) BY DEF Raw
    <3> HIDE DEF x, m, o
    <3>7. x = SubSeq(f, o + 1, o + m) BY <3>5, <3>6
    <3>8. Len(x) = m BY <3>5, <3>7, SliceType
    <3>9. Start(ss, 4 + 1) = Start(ss, 4) + Len(x) BY <1>5, <1>6, <3>4
    <3>10. 4 + 1 = 5 OBVIOUS
    <3> QED BY <1>7, <2>3, <3>4, <3>8, <3>9, <3>10
  <2> QED BY <1>2, <2>2, <2>3
<1>9. Start(ss, k + 1) = first
  <2>1. Start(ss, k + 1) = Start(ss, k) + Len(cuesEl) BY <1>1, <1>5, <1>6
  <2> QED BY <1>8, <2>1
<1> QED BY <1>4, <1>7, <1>8, <1>9 DEF StartsAt, k

\* What the seek head of a clip says: where each element after it starts.
Sought(src, ss, ps) ==
  /\ ps \in SeekPositions /\ Len(ps) = Tops(src) - 1
  /\ \A i \in 1..Len(ps) : ps[i][1] = TopIds(src)[i + 1] /\ ps[i][2] = Start(ss, i + 1)

LEMMA ReadsWell ==
  ASSUME NEW b, NEW src, NEW ss, NEW ps, b \in Seq(Cell), src.ebmlHeader \in Seq(Cell), ss \in Seq(Seq(Cell)),
         Small(b), Len(b) < Pow(UintBase, Wide),
         OneSegment(b, src, ss),
         Len(ss) > Tops(src),
         AllFramed(b, ss, PieceIds(src, Len(ss))),
         ss[1] = seekHead(ps), Sought(src, ss, ps)
  PROVE  WellFormed(b, src)
<1> DEFINE eh == src.ebmlHeader
           flat == FlattenSeq(ss)
           size == Len(flat)
           h == AppendSizeWidth("Segment", size, Wide)
           data == Len(eh) + Wide
           top == Walk(b, data, Len(b), {})
           tops == TopIds(src)
           k == Tops(src)
           n == Len(ss)
           pids == PieceIds(src, n)
<1>1. flat \in Seq(Cell) BY FlattenType
<1>2. size \in Nat /\ size \in Int /\ Len(b) \in Nat /\ eh \in Seq(Cell) /\ Len(eh) \in Nat BY <1>1
<1>3. Wide \in Nat /\ Wide > 0 /\ "Segment" \in Ids BY EbmlAssumption DEF Ids
<1>4. b = (eh \o h) \o flat BY DEF OneSegment
<1>5. At(b, 0, (eh \o h) \o flat) BY <1>4, AtWhole
<1> HIDE DEF flat
<1> HIDE DEF size
<1>6. h \in Seq(Cell) BY <1>2, <1>3, SizeHeaderType
<1> HIDE DEF h, eh
<1> DEFINE lead == eh \o h
<1>7. lead \in Seq(Cell) /\ Len(lead) = Len(eh) + Len(h) /\ Len(h) \in Nat BY <1>2, <1>6
<1>8. At(b, 0, lead) /\ At(b, 0 + Len(lead), flat)
  <2> HIDE DEF lead
  <2> QED BY <1>1, <1>5, <1>7, AtParts DEF lead
<1>9. Len(b) = Len(lead) + size
  <2> HIDE DEF lead
  <2> QED BY <1>1, <1>4, <1>7, ConcatProperties DEF lead, size
<1>10. At(b, 0 + Len(eh), h) BY <1>2, <1>6, <1>8, AtParts
<1> HIDE DEF lead
<1>11. size < Pow(SizeBase, Wide) - 1
  <2> DEFINE m == Pow(SizeBase, Wide)
  <2>1. Len(b) < m - 1 BY DEF Small
  <2>4. SizeBase \in Nat /\ SizeBase > 0 BY EbmlAssumption
  <2>2. m \in Nat BY <1>3, <2>4, PowNat
  <2> HIDE DEF m
  <2>3. size < m - 1 BY <1>2, <1>7, <1>9, <2>1, <2>2
  <2> QED BY <2>3 DEF m
<1>12. ReadHeaderAt(b, 0 + Len(eh)) = [id |-> "Segment", w |-> Wide, size |-> size] /\ Len(h) = Wide
  <2> DEFINE q == 0 + Len(eh)
  <2>1. At(b, q, AppendSizeWidth("Segment", size, Wide)) BY <1>10 DEF h
  <2> HIDE DEF q
  <2>2. ReadHeaderAt(b, q) = [id |-> "Segment", w |-> Wide, size |-> size] /\ Len(AppendSizeWidth("Segment", size, Wide)) = Wide
    <3> HIDE DEF data, top, tops, k, n, pids
    <3> QED BY <1>2, <1>11, <2>1, SegmentHead DEF HeadOfSegment
  <2> QED BY <2>2 DEF q, h
<1>13. /\ 0 + Len(eh) = data - Wide /\ 0 + Len(lead) = data /\ Len(b) - data = size /\ Len(b) = data + size
       /\ data \in Nat
  BY <1>2, <1>3, <1>7, <1>9, <1>12
<1>14. ReadHeaderAt(b, data - Wide) = [id |-> "Segment", w |-> Wide, size |-> Len(b) - data] BY <1>12, <1>13
<1> HIDE DEF data
<1>15. At(b, data, FlattenSeq(ss)) BY <1>8, <1>13 DEF flat
<1>16. top = Walk(b, data, data + Len(FlattenSeq(ss)), {}) BY <1>13 DEF size, flat
<1>17. Gives(top, data, ss, pids)
  <2> HIDE DEF top, pids
  <2>1. \A i \in 1..Len(ss) : Framed(b, ss[i], pids[i]) BY DEF pids, n, AllFramed
  <2> QED BY <1>15, <1>16, <2>1, WalkFlat
<1>18. Held(b, top, ss, pids, data + Len(FlattenSeq(ss)))
  <2> HIDE DEF top, pids
  <2>1. \A i \in 1..Len(ss) : Framed(b, ss[i], pids[i]) /\ pids[i] # "bad" BY DEF pids, n, AllFramed
  <2> QED BY <1>15, <1>16, <2>1, WalkHolds
<1> HIDE DEF top
<1>19. n \in Nat /\ Len(top) = n /\ DOMAIN top = 1..n BY <1>17, <1>18 DEF Gives, Held
<1>20. DOMAIN tops = 1..k /\ Len(tops) = k /\ k \in {4, 5} /\ n > k BY TopIdsAre
<1>21. \A i \in 1..n : pids[i] = IF i <= k THEN tops[i] ELSE "Cluster" BY DEF PieceIds
<1> HIDE DEF n, k, tops, pids
<1>22. \A i \in DOMAIN top : top[i].id = IF i \in DOMAIN tops THEN tops[i] ELSE "Cluster"
  <2> SUFFICES ASSUME NEW i \in 1..n PROVE top[i].id = IF i \in 1..k THEN tops[i] ELSE "Cluster"
    BY <1>19, <1>20
  <2>1. top[i].id = pids[i] BY <1>17 DEF Gives, n
  <2>2. i \in 1..k <=> i <= k BY <1>20
  <2> QED BY <1>21, <2>1, <2>2
<1>23. top[Len(top)].to = Len(b)
  <2>1. n \in 1..n BY <1>19, <1>20
  <2>2. top[n].to = data + Start(ss, n + 1) BY <1>17, <2>1 DEF Gives, n
  <2>3. Start(ss, n + 1) = size BY StartEnds DEF n, size, flat
  <2> QED BY <1>13, <1>19, <2>2, <2>3
<1>24. \A i \in 1..n : top[i].from = data + Start(ss, i) /\ Start(ss, i) \in Nat /\ Start(ss, i) <= size
  <2> SUFFICES ASSUME NEW i \in 1..n PROVE top[i].from = data + Start(ss, i) /\ Start(ss, i) \in Nat /\ Start(ss, i) <= size
    OBVIOUS
  <2>1. top[i].from = data + Start(ss, i) BY <1>17 DEF Gives, n
  <2>2. Start(ss, i) \in Nat /\ Start(ss, i) <= size BY StartInside DEF n, size, flat
  <2> QED BY <2>1, <2>2
<1>25. /\ ps \in SeekPositions /\ Len(ps) = k - 1
       /\ \A i \in 1..(k - 1) : ps[i][1] = tops[i + 1] /\ ps[i][2] = Start(ss, i + 1)
  BY DEF Sought, k, tops
<1>26. \A i \in 1..(k - 1) : i + 1 \in 1..n BY <1>19, <1>20
<1>27. SeekTo(ps)
  <2> DEFINE m == Pow(UintBase, Wide)
  <2>4. UintBase \in Nat /\ UintBase > 0 BY EbmlAssumption
  <2>1. m \in Nat /\ Len(b) < m BY <1>3, <2>4, PowNat
  <2> HIDE DEF m
  <2>2. \A i \in 1..(k - 1) : ps[i][2] >= 0 /\ ps[i][2] < m
    <3> SUFFICES ASSUME NEW i \in 1..(k - 1) PROVE ps[i][2] >= 0 /\ ps[i][2] < m
      OBVIOUS
    <3>1. ps[i][2] = Start(ss, i + 1) /\ Start(ss, i + 1) \in Nat /\ Start(ss, i + 1) <= size
      BY <1>24, <1>25, <1>26
    <3>2. size <= Len(b) BY <1>2, <1>13
    <3> QED BY <1>2, <2>1, <3>1, <3>2
  <2>3. \A i, j \in 1..(k - 1) : ps[i][1] = ps[j][1] => i = j
    <3> SUFFICES ASSUME NEW i \in 1..(k - 1), NEW j \in 1..(k - 1), tops[i + 1] = tops[j + 1] PROVE i = j
      BY <1>25
    <3>1. tops = IF k = 4 THEN <<"SeekHead", "Info", "Tracks", "Cues">>
                 ELSE <<"SeekHead", "Info", "Tracks", "Attachments", "Cues">>
      BY DEF tops, TopIds, k, Tops
    <3>2. CASE k = 4
      <4>1. tops[2] = "Info" /\ tops[3] = "Tracks" /\ tops[4] = "Cues" BY <3>1, <3>2
      <4>2. i \in {1, 2, 3} /\ j \in {1, 2, 3} BY <3>2
      <4>3. 1 + 1 = 2 /\ 2 + 1 = 3 /\ 3 + 1 = 4 OBVIOUS
      <4> QED BY <4>1, <4>2, <4>3
    <3>3. CASE k = 5
      <4>1. tops[2] = "Info" /\ tops[3] = "Tracks" /\ tops[4] = "Attachments" /\ tops[5] = "Cues" BY <3>1, <3>3
      <4>2. i \in {1, 2, 3, 4} /\ j \in {1, 2, 3, 4} BY <3>3
      <4>3. 1 + 1 = 2 /\ 2 + 1 = 3 /\ 3 + 1 = 4 /\ 4 + 1 = 5 OBVIOUS
      <4> QED BY <4>1, <4>2, <4>3
    <3> QED BY <1>20, <3>2, <3>3
  <2> QED BY <1>25, <2>2, <2>3 DEF SeekTo, m
<1>28. Leads(b, top[1], ps)
  <2>1. 1 \in 1..n BY <1>19, <1>20
  <2>2. top[1] \in Elem /\ HeadedBy(b, top[1]) /\ At(b, top[1].from, ss[1]) BY <1>18, <2>1 DEF Held, n
  <2> QED BY <1>27, <2>2, SeekHeadReads
<1>29. \A i \in 2..Len(tops) : seekPosition(b, top[1], tops[i]) = top[i].from - data
  <2> SUFFICES ASSUME NEW i \in 2..k PROVE seekPosition(b, top[1], tops[i]) = top[i].from - data
    BY <1>20
  <2> DEFINE j == i - 1
  <2>1. j \in 1..(k - 1) /\ j + 1 = i /\ i \in 1..n BY <1>19, <1>20
  <2> HIDE DEF j
  <2>2. seekPosition(b, top[1], ps[j][1]) = ps[j][2] BY <1>25, <1>28, <2>1 DEF Leads
  <2>3. ps[j][1] = tops[i] /\ ps[j][2] = Start(ss, i) BY <1>25, <2>1
  <2>4. top[i].from - data = Start(ss, i) BY <1>13, <1>24, <2>1
  <2> QED BY <2>2, <2>3, <2>4
<1>30. Len(top) > Len(tops) BY <1>19, <1>20
<1> QED BY <1>14, <1>22, <1>23, <1>29, <1>30 DEF WellFormed, top, tops, data, eh

LEMMA SeekPlacesSought ==
  ASSUME NEW src, NEW ss, NEW a, NEW b, NEW c, NEW d, NEW z, a \in Int, b \in Int, c \in Int, d \in Int,
         StartsAt(src, ss, a, b, d, c, z)
  PROVE  Sought(src, ss, SeekPlaces(src, a, b, c, d))
<1> DEFINE ps == SeekPlaces(src, a, b, c, d)
           k == Tops(src)
           tops == TopIds(src)
<1>1. ps \in SeekPositions /\ Len(ps) = k - 1
  <2>1. k - 1 = IF src.attachments = <<>> THEN 3 ELSE 4 BY DEF Tops
  <2> QED BY <2>1, SeekPlacesType
<1>2. PlacesAre(ps, src, a, b, c, d) BY SeekPlacesAre
<1>3. /\ Start(ss, 2) = a /\ Start(ss, 3) = b /\ Start(ss, 4) = d /\ Start(ss, k) = c BY DEF StartsAt
<1>4. /\ k \in {4, 5} /\ tops[2] = "Info" /\ tops[3] = "Tracks" /\ tops[k] = "Cues"
      /\ (k = 5 <=> src.attachments # <<>>) /\ (k = 5 => tops[4] = "Attachments")
  BY TopIdsAre
<1> HIDE DEF ps, k, tops
<1>5. /\ ps[1] = <<"Info", a>> /\ ps[2] = <<"Tracks", b>> /\ ps[k - 1] = <<"Cues", c>>
      /\ k = 5 => ps[3] = <<"Attachments", d>>
  BY <1>1, <1>2, <1>4 DEF PlacesAre
<1>6. 1 + 1 = 2 /\ 2 + 1 = 3 /\ 3 + 1 = 4 /\ (k - 1) + 1 = k BY <1>4
<1>7. \A i \in 1..(k - 1) : ps[i][1] = tops[i + 1] /\ ps[i][2] = Start(ss, i + 1)
  <2> SUFFICES ASSUME NEW i \in 1..(k - 1) PROVE ps[i][1] = tops[i + 1] /\ ps[i][2] = Start(ss, i + 1)
    OBVIOUS
  <2>1. i = 1 \/ i = 2 \/ (k = 5 /\ i = 3) \/ i = k - 1 BY <1>4
  <2>2. CASE i = 1 BY <1>3, <1>4, <1>5, <1>6, <2>2
  <2>3. CASE i = 2 BY <1>3, <1>4, <1>5, <1>6, <2>3
  <2>4. CASE k = 5 /\ i = 3 BY <1>3, <1>4, <1>5, <1>6, <2>4
  <2>5. CASE i = k - 1 BY <1>3, <1>4, <1>5, <1>6, <2>5
  <2> QED BY <2>1, <2>2, <2>3, <2>4, <2>5
<1> QED BY <1>1, <1>7 DEF Sought, ps, k, tops

\* What a clip's cells are: the header of src and one segment with these elements, the last
\* of them its clusters.
HasPiecesBy(b, src, cells, ss, ps) ==
  /\ b \in Seq(Cell) /\ ss \in Seq(Seq(Cell)) /\ Len(ss) = Tops(src) + Len(cells) /\ Len(cells) \in Nat
  /\ \A i \in 1..Len(cells) : ss[Tops(src) + i] = cells[i]
  /\ OneSegment(b, src, ss) /\ AllFramed(b, ss, PieceIds(src, Len(ss)))
  /\ ss[1] = seekHead(ps) /\ Sought(src, ss, ps)

HasPieces(b, src, cells) == \E ss, ps : HasPiecesBy(b, src, cells, ss, ps)

\* With what each of them is; the positions are inside.
PlacedBy(b, f, src, clusters, origin, endT, info, tracks, pos, ss, ps) ==
  /\ HasPiecesBy(b, src, ClusterCells(f, clusters, origin), ss, ps)
  /\ InPlace(f, src, ss, seekHead(ps), AppendElement("Info", info), AppendElement("Tracks", tracks),
             cuesElement(src, clusters, pos, origin, endT), ClusterCells(f, clusters, origin))
  /\ \A i \in 1..Len(clusters) : pos[i] \in Nat /\ pos[i] < Len(b)

AllPlaced(b, f, src, clusters, origin, endT, info, tracks, pos) ==
  \E ss, ps : PlacedBy(b, f, src, clusters, origin, endT, info, tracks, pos, ss, ps)

LEMMA ShapedPlaced ==
  ASSUME NEW f, NEW src, NEW clusters, NEW origin, NEW endT, NEW parts, NEW info, NEW tracks, NEW pos,
         f \in Seq(Cell), SourceOf(f, src), clusters \in Seq(CutCluster(f)), clusters # <<>>,
         origin \in Int, endT \in Int, Shaped(src, clusters, origin, endT, parts, info, tracks, pos),
         Small(Content(parts, f))
  PROVE  AllPlaced(Content(parts, f), f, src, clusters, origin, endT, info, tracks, pos)
<1> DEFINE b == Content(parts, f)
           infoEl == AppendElement("Info", info)
           tracksEl == AppendElement("Tracks", tracks)
           cuesEl == cuesElement(src, clusters, pos, origin, endT)
           n == Len(clusters)
           infoPos == Len(seekHead(SeekPlaces(src, 0, 0, 0, 0)))
           tracksPos == infoPos + Len(infoEl)
           attPos == tracksPos + Len(tracksEl)
           cuesPos == attPos + AttachmentsLen(src)
           first == cuesPos + Len(cuesEl)
           ps == SeekPlaces(src, infoPos, tracksPos, cuesPos, attPos)
           seeks == seekHead(ps)
           lead == src.ebmlHeader \o AppendSizeWidth("Segment", pos[n + 1], Wide)
           head == ((lead \o seeks) \o infoEl) \o tracksEl
           cells == ClusterCells(f, clusters, origin)
           ss == Pieces(f, src, clusters, origin, seeks, infoEl, tracksEl, cuesEl)
<1>1. /\ info \in Seq(Cell) /\ tracks \in Seq(Cell) /\ pos \in [1..(n + 1) -> Int]
      /\ Len(seeks) = infoPos /\ pos[1] = first
      /\ \A i \in 1..n : pos[i + 1] = pos[i] + Len(newHeader(clusters[i], origin)) + PartsLen(clusters[i].body)
      /\ parts = AppendAll(<<Literal(head)>>, (AttachmentParts(src) \o <<Literal(cuesEl)>>) \o Bodies(clusters, origin))
  BY DEF Shaped
<1>2. /\ src.ebmlHeader \in Seq(Cell) /\ src.cues \in Seq(Cue) /\ src.video \in Nat
      /\ {"Info", "Tracks", "Attachments", "Cues", "SeekHead", "Segment"} \subseteq Ids
      /\ Wide \in Nat /\ Wide > 0
  BY EbmlAssumption DEF SourceOf, Ids
<1>3. n \in Nat /\ n > 0 /\ DOMAIN clusters = 1..n /\ \A i \in 1..n : clusters[i] \in CutCluster(f) OBVIOUS
<1>4. infoEl \in Seq(Cell) /\ tracksEl \in Seq(Cell) BY <1>1, <1>2, ElementType
<1>5. \A i \in DOMAIN clusters : pos[i] \in Int
  <2>1. \A i \in 1..n : i \in 1..(n + 1) BY <1>3
  <2> QED BY <1>1, <1>3, <2>1
<1> DEFINE np == NewPoints(src, clusters, pos, origin, endT)
           cd == FlattenSeq(np)
           sd == FlattenSeq(Seeks(ps))
<1>6. cuesEl = AppendElement("Cues", cd) /\ np \in Seq(Seq(Cell))
  <2>1. CuesMade(src, clusters, pos, origin, endT) BY <1>2, <1>5, CuesElementIs
  <2> QED BY <2>1 DEF CuesMade
<1> HIDE DEF np
<1>7. cd \in Seq(Cell) BY <1>6, FlattenType
<1> HIDE DEF cd
<1>8. cuesEl \in Seq(Cell) BY <1>2, <1>6, <1>7, ElementType
<1> HIDE DEF infoEl, tracksEl, cuesEl
<1>9. infoPos \in Nat
  <2> DEFINE s == seekHead(SeekPlaces(src, 0, 0, 0, 0))
  <2>1. s \in Seq(Cell) BY SeekPlacesType, SeekHeadType
  <2> HIDE DEF s
  <2>2. Len(s) \in Nat BY <2>1
  <2> QED BY <2>2 DEF s
<1>10. AttachmentsLen(src) \in Nat BY AttachmentsLenNat
<1> HIDE DEF infoPos
<1>11. tracksPos \in Int /\ attPos \in Int /\ cuesPos \in Int
  <2>1. Len(infoEl) \in Nat /\ Len(tracksEl) \in Nat BY <1>4
  <2> QED BY <1>9, <1>10, <2>1
<1> DEFINE tp == tracksPos
           ap == attPos
           cp == cuesPos
<1>12. ps = SeekPlaces(src, infoPos, tp, cp, ap) OBVIOUS
<1> HIDE DEF ps
<1>13. tp = infoPos + Len(infoEl) /\ ap = tp + Len(tracksEl) /\ cp = ap + AttachmentsLen(src) /\ first = cp + Len(cuesEl)
       /\ infoPos \in Int /\ tp \in Int /\ ap \in Int /\ cp \in Int
  BY <1>9, <1>11
<1> HIDE DEF tp, ap, cp, first
<1>14. ps \in SeekPositions BY <1>12, <1>13, SeekPlacesType
<1>15. seeks = AppendElement("SeekHead", sd) /\ sd \in Seq(Cell) /\ seeks \in Seq(Cell)
  <2>1. seekHead(ps) = AppendElement("SeekHead", FlattenSeq(Seeks(ps))) BY <1>14, SeekHeadIs
  <2>2. seekHead(ps) \in Seq(Cell) BY <1>14, SeekHeadType
  <2>3. Seeks(ps) \in Seq(Seq(Cell)) BY <1>14, SeekHeadIs
  <2>4. FlattenSeq(Seeks(ps)) \in Seq(Cell) BY <2>3, FlattenType
  <2> QED BY <2>1, <2>2, <2>4
<1> HIDE DEF seeks, sd
<1>16. InPlace(f, src, ss, seeks, infoEl, tracksEl, cuesEl, cells) BY <1>4, <1>8, <1>15, PiecesInPlace
<1> DEFINE end == pos[n + 1]
<1>17. end \in Int
  <2>1. n + 1 \in 1..(n + 1) BY <1>3
  <2> QED BY <1>1, <2>1
<1> HIDE DEF end
<1>18. lead \in Seq(Cell)
  <2> DEFINE h == AppendSizeWidth("Segment", end, Wide)
  <2>1. h \in Seq(Cell) BY <1>2, <1>17, SizeHeaderType
  <2> HIDE DEF h
  <2> QED BY <1>2, <2>1, ConcatProperties DEF h, end
<1>19. b = lead \o FlattenSeq(ss)
  <2> HIDE DEF lead, ss
  <2>1. Content(AppendAll(<<Literal(head)>>,
          (AttachmentParts(src) \o <<Literal(cuesEl)>>) \o Bodies(clusters, origin)), f) = lead \o FlattenSeq(ss)
    <3> DEFINE hd == head
    <3>1. hd = ((lead \o seeks) \o infoEl) \o tracksEl OBVIOUS
    <3> HIDE DEF hd
    <3>2. Makes(f, src, clusters, origin, seeks, infoEl, tracksEl, cuesEl, lead, hd)
      BY <1>4, <1>8, <1>15, <1>18, <3>1, ContentMade
    <3> QED BY <3>2 DEF hd, ss, Makes
  <2> HIDE DEF head
  <2> QED BY <1>1, <2>1
<1> HIDE DEF ss, cells
<1>20. /\ ss \in Seq(Seq(Cell)) /\ Len(ss) = Tops(src) + Len(cells) /\ ss[1] = seeks
       /\ \A i \in 1..Len(cells) : ss[Tops(src) + i] = cells[i]
  BY <1>16 DEF InPlace
<1>21. FlattenSeq(ss) \in Seq(Cell) BY <1>20, FlattenType
<1>22. b \in Seq(Cell)
  <2> DEFINE d == FlattenSeq(ss)
  <2> HIDE DEF b, lead, d
  <2> QED BY <1>18, <1>19, <1>21, ConcatProperties DEF d
<1>23. Small(b) OBVIOUS
<1> HIDE DEF b, head
<1>24. cells = ClusterCells(f, clusters, origin) /\ Len(cells) = n BY ClusterContent DEF cells
<1>25. ASSUME NEW i \in 1..n
       PROVE  Framed(b, cells[i], "Cluster") /\ pos[i + 1] = pos[i] + Len(cells[i])
  <2> DEFINE c == clusters[i]
             x == newHeader(c, origin) \o Content(c.body, f)
  <2>1. c \in CutCluster(f) BY <1>3
  <2>2. cells[i] = x BY <1>3, <1>24 DEF ClusterCells
  <2>3. pos[i + 1] = (pos[i] + Len(newHeader(c, origin))) + PartsLen(c.body) BY <1>1
  <2> HIDE DEF c
  <2>4. Framed(b, x, "Cluster") /\ Len(x) = Len(newHeader(c, origin)) + PartsLen(c.body)
    BY <1>22, <1>23, <2>1, ClusterFramed
  <2>5. pos[i] \in Int /\ Len(newHeader(c, origin)) \in Nat /\ PartsLen(c.body) \in Nat
    <3>1. newHeader(c, origin) \in Seq(Cell) /\ c.body \in FileParts(f) BY <2>1, NewHeaderType DEF CutCluster
    <3>2. PartsLen(c.body) \in Nat BY <3>1, PartsLenNat
    <3> QED BY <1>3, <1>5, <3>1, <3>2
  <2> HIDE DEF x
  <2> QED BY <2>2, <2>3, <2>4, <2>5
<1>26. StartsAt(src, ss, infoPos, tp, ap, cp, first)
  <2>1. infoPos = Len(seeks) BY <1>1
  <2> QED BY <1>13, <1>16, <2>1, TopStarts
<1>27. end = Len(FlattenSeq(ss)) /\ \A i \in 1..n : pos[i] \in Nat /\ pos[i] <= Len(FlattenSeq(ss))
  <2> DEFINE k == Tops(src)
  <2>1. k \in Nat
    <3>1. k \in {4, 5} BY TopIdsAre
    <3> HIDE DEF k
    <3> QED BY <3>1
  <2>2. pos[1] = Start(ss, k + 1) BY <1>1, <1>26 DEF StartsAt
  <2>3. Len(cells) \in Nat BY <1>3, <1>24
  <2>4. \A i \in 1..Len(cells) : ss[k + i] = cells[i] /\ pos[i + 1] = pos[i] + Len(cells[i]) BY <1>20, <1>24, <1>25
  <2>5. Len(ss) = k + Len(cells) BY <1>20
  <2> HIDE DEF k
  <2>6. EndsAt(pos, Len(cells), ss) BY <1>20, <2>1, <2>2, <2>3, <2>4, <2>5, ClusterStarts
  <2> QED BY <1>24, <2>6 DEF end, EndsAt
<1>28. OneSegment(b, src, ss) BY <1>19, <1>27 DEF OneSegment, end
<1>29. AllFramed(b, ss, PieceIds(src, Len(ss)))
  <2>1. \A i \in 1..Len(cells) : Framed(b, cells[i], "Cluster") BY <1>24, <1>25
  <2>2. InPlace(f, src, ss, AppendElement("SeekHead", sd), AppendElement("Info", info),
                AppendElement("Tracks", tracks), AppendElement("Cues", cd), cells)
    BY <1>6, <1>15, <1>16 DEF infoEl, tracksEl
  <2> QED BY <1>1, <1>7, <1>15, <1>22, <1>23, <2>1, <2>2, PiecesFramed
<1>30. Sought(src, ss, ps) BY <1>12, <1>13, <1>26, SeekPlacesSought
<1>31. ss[1] = seekHead(ps) BY <1>20 DEF seeks
<1>32. Len(cells) \in Nat BY <1>3, <1>24
<1> HIDE DEF ps
<1>33. HasPiecesBy(b, src, cells, ss, ps) BY <1>20, <1>22, <1>28, <1>29, <1>30, <1>31, <1>32 DEF HasPiecesBy
<1>34. InPlace(f, src, ss, seekHead(ps), infoEl, tracksEl, cuesEl, cells) BY <1>16 DEF seeks
<1>35. \A i \in 1..n : pos[i] \in Nat /\ pos[i] < Len(b)
  <2> DEFINE flat == FlattenSeq(ss)
             h == src.ebmlHeader
             g == AppendSizeWidth("Segment", Len(flat), Wide)
             m == Len(flat)
  <2>1. flat \in Seq(Cell) /\ h \in Seq(Cell) /\ m \in Int BY <1>2, <1>21
  <2> HIDE DEF flat, h, m
  <2>2. m \in Int BY <2>1
  <2>3. AppendSizeWidth("Segment", m, Wide) \in Seq(Cell) /\ Len(AppendSizeWidth("Segment", m, Wide)) = Wide
    BY <1>2, <2>2, WideHeader
  <2>4. g \in Seq(Cell) /\ Len(g) = Wide BY <2>3 DEF m
  <2> HIDE DEF g
  <2>5. Joined(Cell, h, g) BY <2>1, <2>4, ConcatJoins
  <2> DEFINE hg == h \o g
  <2>6. hg \in Seq(Cell) /\ Len(hg) = Len(h) + Wide /\ Len(h) \in Nat BY <2>4, <2>5 DEF Joined
  <2> HIDE DEF hg
  <2>7. Joined(Cell, hg, flat) BY <2>1, <2>6, ConcatJoins
  <2>8. b = hg \o flat BY <1>28 DEF OneSegment, hg, g, h, flat
  <2>9. Len(b) = Len(hg) + Len(flat) /\ Len(flat) \in Nat BY <2>7, <2>8 DEF Joined
  <2>10. \A i \in 1..n : pos[i] \in Nat /\ pos[i] <= Len(flat) BY <1>27 DEF flat
  <2> HIDE DEF n
  <2> QED BY <1>2, <2>6, <2>9, <2>10
<1>36. PlacedBy(b, f, src, clusters, origin, endT, info, tracks, pos, ss, ps)
  BY <1>33, <1>34, <1>35 DEF PlacedBy, infoEl, tracksEl, cuesEl, cells
<1>37. AllPlaced(b, f, src, clusters, origin, endT, info, tracks, pos) BY <1>36 DEF AllPlaced
<1> QED BY <1>37 DEF b

LEMMA ShapedPieces ==
  ASSUME NEW f, NEW src, NEW clusters, NEW origin, NEW endT, NEW parts, NEW info, NEW tracks, NEW pos,
         f \in Seq(Cell), SourceOf(f, src), clusters \in Seq(CutCluster(f)), clusters # <<>>,
         origin \in Int, endT \in Int, Shaped(src, clusters, origin, endT, parts, info, tracks, pos),
         Small(Content(parts, f))
  PROVE  HasPieces(Content(parts, f), src, ClusterCells(f, clusters, origin))
<1>1. AllPlaced(Content(parts, f), f, src, clusters, origin, endT, info, tracks, pos) BY ShapedPlaced
<1> QED BY <1>1 DEF AllPlaced, PlacedBy, HasPieces

LEMMA ShapedReads ==
  ASSUME NEW f, NEW src, NEW clusters, NEW origin, NEW endT, NEW parts, NEW info, NEW tracks, NEW pos,
         f \in Seq(Cell), SourceOf(f, src), clusters \in Seq(CutCluster(f)), clusters # <<>>,
         origin \in Int, endT \in Int, Shaped(src, clusters, origin, endT, parts, info, tracks, pos),
         Small(Content(parts, f)), Len(Content(parts, f)) < Pow(UintBase, Wide)
  PROVE  WellFormed(Content(parts, f), src)
<1> DEFINE b == Content(parts, f)
           cells == ClusterCells(f, clusters, origin)
<1>1. HasPieces(b, src, cells) BY ShapedPieces
<1>2. Small(b) /\ Len(b) < Pow(UintBase, Wide) OBVIOUS
<1>3. Len(cells) \in Nat /\ Len(cells) > 0
  <2>1. Len(cells) = Len(clusters) BY ClusterContent
  <2> DEFINE T == CutCluster(f)
  <2>2. clusters \in Seq(T) /\ clusters # <<>> OBVIOUS
  <2> HIDE DEF T, cells
  <2> QED BY <2>1, <2>2
<1> HIDE DEF b, cells
<1>4. PICK ss, ps : HasPiecesBy(b, src, cells, ss, ps) BY <1>1 DEF HasPieces
<1>5. /\ b \in Seq(Cell) /\ ss \in Seq(Seq(Cell)) /\ Len(ss) = Tops(src) + Len(cells)
      /\ OneSegment(b, src, ss) /\ AllFramed(b, ss, PieceIds(src, Len(ss)))
      /\ ss[1] = seekHead(ps) /\ Sought(src, ss, ps)
  BY <1>4 DEF HasPiecesBy
<1>6. Len(ss) > Tops(src)
  <2>1. Tops(src) \in {4, 5} BY TopIdsAre
  <2> QED BY <1>3, <1>5, <2>1
<1>7. src.ebmlHeader \in Seq(Cell) BY DEF SourceOf
<1>8. WellFormed(b, src) BY <1>2, <1>5, <1>6, <1>7, ReadsWell
<1> QED BY <1>8 DEF b

-----------------------------------------------------------------------------
(* A clip.                                                                   *)

LEMMA ServedType ==
  ASSUME NEW asked, NEW lost, NEW f, NEW built, f \in Seq(Cell), Fits(f, Open(f), built)
  PROVE  ClipOf(ServedFrom(asked, lost, f, built))
<1> DEFINE bytes == IF built.ok THEN Content(built.parts, f) ELSE <<>>
           c == ServedFrom(asked, lost, f, built)
<1>1. c = Served(asked, lost, f, built, bytes) BY DEF ServedFrom
<1>2. built.ok => Finalized(built.parts, f) BY LaidFinalized DEF Fits
<1>3. built.ok => bytes = Content(built.parts, f) OBVIOUS
<1> HIDE DEF bytes
<1> DEFINE read == ReadBack(bytes, Open(bytes))
<1>4. IF built.ok
      THEN c = [asked |-> asked, lost |-> lost, file |-> f, built |-> built,
                ok |-> TRUE, bytes |-> bytes, read |-> read]
      ELSE c = [asked |-> asked, lost |-> lost, file |-> f, built |-> built, ok |-> FALSE]
  BY <1>1, <1>2 DEF Served
<1> HIDE DEF read, c
<1>5. CASE built.ok
  <2>1. c.file = f /\ c.built = built /\ c.ok /\ c.bytes = Content(built.parts, f) BY <1>3, <1>4, <1>5
  <2>2. ClipOf(c) BY <1>5, <2>1 DEF ClipOf
  <2> QED BY <2>2 DEF c
<1>6. CASE ~built.ok
  <2>1. c.file = f /\ c.built = built /\ ~c.ok BY <1>4, <1>6
  <2>2. ClipOf(c) BY <1>6, <2>1 DEF ClipOf
  <2> QED BY <2>2 DEF c
<1> QED BY <1>5, <1>6

LEMMA BuiltFits ==
  ASSUME NEW f, NEW start, NEW end, f \in Seq(Cell), end \in Nat
  PROVE  Fits(f, Open(f), buildMKV(f, Open(f), start, end))
<1> DEFINE src == Open(f)
           title == [is |-> "text"]
<1>1. title \in Cell BY NewCells
<1>2. src.ok => SourceOf(f, src) BY OpenType
<1>3. buildMKV(f, src, start, end) = IF src.ok THEN BuildClip(f, src, start, end, title) ELSE Failed
  BY DEF buildMKV
<1> HIDE DEF src, title
<1>4. src.ok => Fits(f, src, BuildClip(f, src, start, end, title)) BY <1>1, <1>2, ClipsFit
<1>5. Fits(f, src, buildMKV(f, src, start, end)) BY <1>3, <1>4, FailedFits
<1> QED BY <1>5 DEF src

\* The inductive invariant.
CutInv == SourceInv /\ (clip # None => ClipOf(clip))

LEMMA CutInit == Init => CutInv
BY SourceInit DEF CutInv, Init

LEMMA CutNext == CutInv /\ [Next]_vars => CutInv'
<1> SUFFICES ASSUME CutInv, [Next]_vars PROVE CutInv' OBVIOUS
<1>1. SourceInv /\ SourceInv' BY SourceNext DEF CutInv
<1> SUFFICES clip' # None => ClipOf(clip') BY <1>1 DEF CutInv
<1>2. CASE CutClip
  <2>0. PICK start \in 0..(MaxTime - 1) :
          \E end \in (start + 1)..MaxTime : \E lost \in 0..format.lost :
            \E whole \in {File} : \E f \in {SubSeq(whole, 1, Len(whole) - lost)} :
              clip' = ServedFrom(<<start, end>>, lost, f, buildMKV(f, Open(f), start, end))
    BY <1>2 DEF CutClip
  <2>1. PICK end \in (start + 1)..MaxTime, lost \in 0..format.lost :
          \E whole \in {File} : \E f \in {SubSeq(whole, 1, Len(whole) - lost)} :
            clip' = ServedFrom(<<start, end>>, lost, f, buildMKV(f, Open(f), start, end))
    BY <2>0
  <2> DEFINE whole == File
             n == Len(whole) - lost
             f == SubSeq(whole, 1, n)
             built == buildMKV(f, Open(f), start, end)
             asked == <<start, end>>
  <2>2. clip' = ServedFrom(asked, lost, f, built) BY <2>1
  <2>3. end \in Nat BY CutAssumption
  <2>4. whole \in Seq(Cell) BY <1>1, FileType
  <2>5. format.lost \in Nat BY <1>1, CutAssumption DEF SourceInv
  <2> HIDE DEF whole
  <2>6. n \in Int /\ n <= Len(whole) BY <2>4, <2>5
  <2>7. f \in Seq(Cell)
    <3> HIDE DEF n
    <3>1. CASE n >= 0
      <4>1. n \in Nat /\ 0 \in Nat /\ 0 + n <= Len(whole) BY <2>6, <3>1
      <4>2. SubSeq(whole, 0 + 1, 0 + n) \in Seq(Cell) BY <2>4, <4>1, SliceType
      <4>3. 0 + 1 = 1 /\ 0 + n = n BY <4>1
      <4> QED BY <4>2, <4>3
    <3>2. CASE ~(n >= 0)
      <4>1. SubSeq(whole, 1, n) = <<>> BY <2>4, <2>6, <3>2
      <4>2. f = <<>> BY <4>1
      <4> HIDE DEF f
      <4>3. <<>> \in Seq(Cell) OBVIOUS
      <4> QED BY <4>2, <4>3
    <3> QED BY <3>1, <3>2
  <2> HIDE DEF f, asked
  <2>8. Fits(f, Open(f), built) BY <2>3, <2>7, BuiltFits
  <2> HIDE DEF built
  <2> QED BY <2>2, <2>7, <2>8, ServedType
<1>3. CASE \/ \E ts \in 0..(MaxTime - 1) : AddCluster(ts)
           \/ \E b \in BlockKinds : AddBlock(b)
           \/ UNCHANGED vars
  <2>1. clip' = clip BY <1>3 DEF AddCluster, AddBlock, vars
  <2> QED BY <2>1 DEF CutInv
<1>4. CASE Forget BY <1>4 DEF Forget
<1> QED BY <1>2, <1>3, <1>4 DEF Next

LEMMA CutCorrect == Spec => []CutInv
<1>1. Init => CutInv BY CutInit
<1>2. CutInv /\ [Next]_vars => CutInv' BY CutNext
<1> QED BY <1>1, <1>2, PTL DEF Spec

\* Whatever a muxer writes and however much of the file is missing at its end, a clip
\* that is built is served: Finalize finds no part outside the file (BuildClip, Finalize).
THEOREM AlwaysFinalizes == Spec => []Finalizes
<1>1. CutInv => Finalizes BY DEF CutInv, ClipOf, Finalizes
<1> QED BY <1>1, CutCorrect, PTL

\* Every read of a clip, wherever it begins and ends, gives the cells of the virtual file
\* (ReadAt); the property checks those next to a boundary between parts.
THEOREM ReadsAlwaysMatch == Spec => []ReadsMatch
<1>1. CutInv => ReadsMatch
  <2> SUFFICES ASSUME CutInv, HasClip PROVE ReadsMatch
    <3>1. ~HasClip => ReadsMatch BY DEF ReadsMatch
    <3> QED BY <3>1
  <2> DEFINE parts == clip.built.parts
             file == clip.file
             bytes == clip.bytes
             edges == {Offsets(parts)[i] + d : i \in DOMAIN parts, d \in {-1, 0, 1}} \cup {Len(bytes)}
             match(off, n) == ReadAt(parts, file, off, n) = SubSeq(bytes, off + 1, Min({off + n, Len(bytes)}))
  <2>1. ClipOf(clip) /\ clip.ok BY DEF CutInv, HasClip
  <2>2. file \in Seq(Cell) /\ parts \in Laid(file) /\ bytes = Content(parts, file)
    BY <2>1 DEF ClipOf, Fits
  <2>10. ReadsMatch <=> (HasClip => \A off \in edges \cap Nat : \A n \in {1, 3, Len(bytes)} : match(off, n))
    BY DEF ReadsMatch
  <2> HIDE DEF edges, match, parts, file, bytes
  <2> SUFFICES ASSUME NEW off \in Nat, NEW n \in {1, 3, Len(bytes)} PROVE match(off, n)
    BY <2>10
  <2>3. parts \in Seq(Part(Cell, file)) BY <2>2, LaidAreParts DEF FileParts, FilePart
  <2>4. bytes \in Seq(Cell) BY <2>2, <2>3, ContentType
  <2>5. Len(bytes) \in Nat /\ n \in Nat BY <2>4
  <2>6. ReadExactly(parts, file, off, n) BY <2>2, <2>3, <2>5, ReadsAreExact
  <2> DEFINE a == off + n
             b == Len(bytes)
  <2>7. ReadAt(parts, file, off, n) = SubSeq(bytes, off + 1, IF a < b THEN a ELSE b)
    BY <2>2, <2>6 DEF ReadExactly
  <2>8. a \in Int /\ b \in Int BY <2>5
  <2> HIDE DEF a, b
  <2>9. Min({a, b}) = IF a < b THEN a ELSE b BY <2>8, LesserNumber
  <2> QED BY <2>7, <2>9 DEF match, a, b
<1> QED BY <1>1, CutCorrect, PTL

LEMMA ClipShapeReads ==
  ASSUME NEW f, NEW src, NEW built, f \in Seq(Cell), Fits(f, src, built), built.ok,
         Small(Content(built.parts, f)), Len(Content(built.parts, f)) < Pow(UintBase, Wide)
  PROVE  WellFormed(Content(built.parts, f), src)
<1> DEFINE parts == built.parts
<1>1. SourceOf(f, src) /\ ShapeOf(f, src, parts) BY DEF Fits
<1>2. Small(Content(parts, f)) /\ Len(Content(parts, f)) < Pow(UintBase, Wide) OBVIOUS
<1> HIDE DEF parts
<1>3. PICK clusters \in Seq(CutCluster(f)) : \E origin, endT \in Int :
        clusters # <<>> /\ Shape(src, clusters, origin, endT, parts)
  BY <1>1 DEF ShapeOf
<1>4. PICK origin \in Int, endT \in Int : clusters # <<>> /\ Shape(src, clusters, origin, endT, parts) BY <1>3
<1>5. PICK info, tracks, pos : Shaped(src, clusters, origin, endT, parts, info, tracks, pos)
  BY <1>4 DEF Shape
<1>6. WellFormed(Content(parts, f), src) BY <1>1, <1>2, <1>4, <1>5, ShapedReads
<1> QED BY <1>6 DEF parts

\* Whatever a muxer writes, wherever the file ends and whatever is asked for, the sizes and
\* positions in a clip fit each other: its segment reaches to its end, its elements follow
\* each other to there and its seek head leads to each of them (assemble).  It assumes only
\* that the clip is not longer than a size or a position can say.
THEOREM SizesAlwaysFit == Spec => []SizesFit
<1>1. CutInv => SizesFit
  <2> SUFFICES ASSUME CutInv, HasClip, Len(clip.bytes) < Pow(SizeBase, Wide) - 1,
                      Len(clip.bytes) < Pow(UintBase, Wide)
               PROVE  WellFormed(clip.bytes, Open(clip.file))
    BY DEF SizesFit
  <2> DEFINE f == clip.file
             built == clip.built
             bytes == clip.bytes
             src == Open(f)
  <2>1. ClipOf(clip) /\ clip.ok BY DEF CutInv, HasClip
  <2>2. f \in Seq(Cell) /\ Fits(f, src, built) /\ built.ok /\ bytes = Content(built.parts, f)
    BY <2>1 DEF ClipOf
  <2>3. Small(bytes) /\ Len(bytes) < Pow(UintBase, Wide) BY DEF Small
  <2> HIDE DEF f, built, bytes, src
  <2>4. WellFormed(bytes, src) BY <2>2, <2>3, ClipShapeReads
  <2> QED BY <2>4 DEF bytes, src, f
<1> QED BY <1>1, CutCorrect, PTL

-----------------------------------------------------------------------------
(* Blocks.                                                                    *)

\* The cells of a block: the frame at a place, of a track and with a relative timestamp.
Block(at, track, v) ==
  IF track = VideoTrack THEN AppendElement("SimpleBlock", Payload(at, track, v))
  ELSE AppendElement("BlockGroup", AppendElement("Block", Payload(at, track, v)) \o Lasts)

\* What is before the relative timestamp and after it.
Lead(track) ==
  LET h(id, n) == AppendSizeWidth(id, n, SizeWidth(n))
  IN  IF track = VideoTrack THEN h("SimpleBlock", 3) \o <<Num(track)>>
      ELSE h("BlockGroup", ElementLen(3) + Len(Lasts)) \o (h("Block", 3) \o <<Num(track)>>)

Rest(at, track) == IF track = VideoTrack THEN <<FrameCell(at)>> ELSE <<FrameCell(at)>> \o Lasts

\* Such a block is its parts one after the other.
BlockMade(at, track, v) ==
  /\ Block(at, track, v) = (Lead(track) \o <<Rel(v)>>) \o Rest(at, track)
  /\ Lead(track) \in Seq(Cell) /\ Rest(at, track) \in Seq(Cell) /\ Block(at, track, v) \in Seq(Cell)
  /\ <<Rel(v)>> \in Seq(Cell) /\ Payload(at, track, v) \in Seq(Cell) /\ Lasts \in Seq(Cell)
  /\ Len(Payload(at, track, v)) = 3

LEMMA BlockParts ==
  ASSUME NEW at, NEW track, NEW v, at \in Nat \X Nat, track \in Nat, v \in Int
  PROVE  BlockMade(at, track, v)
<1> DEFINE T == Cell
           U == Seq(Cell)
           a == Num(track)
           r == Rel(v)
           z == FrameCell(at)
           x == SizeWidth(3)
           y == ElementLen(3) + Len(Lasts)
           hs == AppendSizeWidth("SimpleBlock", 3, x)
           hb == AppendSizeWidth("Block", 3, x)
           hg == AppendSizeWidth("BlockGroup", y, SizeWidth(y))
           data == Payload(at, track, v)
<1>1. {"SimpleBlock", "Block", "BlockGroup", "BlockDuration"} \subseteq Ids BY DEF Ids
<1>2. a \in T /\ r \in T /\ z \in T
  <2>1. z \in T
    <3>1. \A k, i \in Nat : [is |-> "frame", at |-> <<k, i>>] \in Cell BY NewCells
    <3>2. at = <<at[1], at[2]>> /\ at[1] \in Nat /\ at[2] \in Nat OBVIOUS
    <3> QED BY <3>1, <3>2 DEF FrameCell
  <2> QED BY <2>1, NewCells, RelType
<1>3. Lasts \in U BY <1>1, UintType DEF Lasts
<1>4. data = <<a, r, z>> BY DEF Payload
<1> HIDE DEF a, r, z, T
<1>5. <<a>> \in Seq(T) /\ <<r>> \in Seq(T) /\ <<z>> \in Seq(T) /\ data \in Seq(T) /\ Len(data) = 3
      /\ data = <<a>> \o (<<r>> \o <<z>>)
  <2> HIDE DEF data
  <2>1. <<a>> \in Seq(T) /\ <<r>> \in Seq(T) /\ <<z>> \in Seq(T) BY <1>2
  <2>2. data \in Seq(T) /\ Len(data) = 3 BY <1>2, <1>4
  <2>3. <<r>> \o <<z>> = <<r, z>> /\ <<a>> \o <<r, z>> = <<a, r, z>> BY <1>2, TwoAndThree
  <2> QED BY <1>4, <2>1, <2>2, <2>3
<1>6. y \in Int /\ 3 \in Int
  <2>1. Len(Lasts) \in Nat BY <1>3
  <2>2. Len(AppendElement("Block", data)) = ElementLen(Len(data)) /\ ElementLen(Len(data)) \in Nat
    BY <1>1, <1>5, LenOfElement DEF T
  <2> QED BY <1>5, <2>1, <2>2
<1>7. x \in Nat /\ x > 0 /\ SizeWidth(y) \in Nat /\ SizeWidth(y) > 0
  <2> HIDE DEF y
  <2>1. SizeWidth(3) \in 1..Wide /\ SizeWidth(y) \in 1..Wide BY <1>6, SizeWidthType
  <2> QED BY <2>1, EbmlAssumption
<1> HIDE DEF y, x
<1>8. hs \in Seq(T) /\ hb \in Seq(T) /\ hg \in Seq(T) BY <1>1, <1>6, <1>7, SizeHeaderType DEF T
<1>9. AppendElement("SimpleBlock", data) = hs \o data /\ AppendElement("Block", data) = hb \o data
  BY <1>5 DEF AppendElement, x
<1>10. AppendElement("Block", data) \in Seq(T) /\ Len(AppendElement("Block", data)) = ElementLen(3)
  BY <1>1, <1>5, ElementType, LenOfElement DEF T
<1> DEFINE inner == AppendElement("Block", data) \o Lasts
<1>11. Len(inner) = y
  <2>1. Joined(Cell, AppendElement("Block", data), Lasts) BY <1>3, <1>10, ConcatJoins DEF T
  <2> QED BY <1>10, <2>1 DEF Joined, y
<1>12. AppendElement("BlockGroup", inner) = hg \o inner
  <2> HIDE DEF inner
  <2> QED BY <1>11 DEF AppendElement
<1>13. Lasts \in Seq(T) BY <1>3 DEF T
<1> HIDE DEF data
<1>14. CASE track = VideoTrack
  <2>1. Block(at, track, v) = hs \o data BY <1>9, <1>14 DEF Block, data
  <2>2. Lead(track) = hs \o <<a>> /\ Rest(at, track) = <<z>> BY <1>14 DEF Lead, Rest, hs, x, a, z
  <2> HIDE DEF hs, hb, hg, inner
  <2>3. hs \o (<<a>> \o (<<r>> \o <<z>>)) = ((hs \o <<a>>) \o <<r>>) \o <<z>>
    <3>0. <<r>> \o <<z>> \in Seq(T) /\ hs \o <<a>> \in Seq(T) BY <1>5, <1>8
    <3> DEFINE aa == <<a>>
               rr == <<r>>
               zz == <<z>>
    <3>1. aa \in Seq(T) /\ rr \in Seq(T) /\ zz \in Seq(T) /\ rr \o zz \in Seq(T) /\ hs \o aa \in Seq(T) BY <1>5, <3>0
    <3> HIDE DEF aa, rr, zz
    <3>2. Regrouping(hs, aa, rr \o zz) /\ Regrouping(hs \o aa, rr, zz) BY <1>8, <3>1, Associated
    <3>3. hs \o (aa \o (rr \o zz)) = ((hs \o aa) \o rr) \o zz BY <3>2 DEF Regrouping
    <3> QED BY <3>3 DEF aa, rr, zz
  <2>4. hs \o <<a>> \in Seq(T) /\ hs \o data \in Seq(T) BY <1>5, <1>8
  <2> QED BY <1>5, <1>13, <2>1, <2>2, <2>3, <2>4 DEF BlockMade, T, r, data
<1>15. CASE track # VideoTrack
  <2>1. Block(at, track, v) = hg \o inner BY <1>12, <1>15 DEF Block, data
  <2>2. Lead(track) = hg \o (hb \o <<a>>) /\ Rest(at, track) = <<z>> \o Lasts BY <1>15 DEF Lead, Rest, hg, hb, x, y, a, z
  <2>3. inner = (hb \o data) \o Lasts BY <1>9
  <2> HIDE DEF hs, hb, hg, inner
  <2> DEFINE aa == <<a>>
             rr == <<r>>
             zz == <<z>>
             l == Lasts
  <2>4. aa \in Seq(T) /\ rr \in Seq(T) /\ zz \in Seq(T) /\ l \in Seq(T) /\ data = aa \o (rr \o zz) BY <1>5, <1>13
  <2> HIDE DEF aa, rr, zz, l
  <2>5. rr \o zz \in Seq(T) /\ zz \o l \in Seq(T) /\ hb \o aa \in Seq(T) /\ hg \o (hb \o aa) \in Seq(T)
        /\ aa \o (rr \o zz) \in Seq(T) /\ (hg \o (hb \o aa)) \o rr \in Seq(T)
        /\ (hb \o (aa \o (rr \o zz))) \o l \in Seq(T)
    BY <1>8, <2>4
  <2>6. hg \o ((hb \o (aa \o (rr \o zz))) \o l) = ((hg \o (hb \o aa)) \o rr) \o (zz \o l)
    <3> DEFINE m == hb \o aa
               k == rr \o zz
    <3>1. m \in Seq(T) /\ k \in Seq(T) /\ k \o l \in Seq(T) BY <2>4, <2>5
    <3>2. hb \o (aa \o k) = m \o k
      <4>1. Regrouping(hb, aa, k) BY <1>8, <2>4, <3>1, Associated
      <4> QED BY <4>1 DEF Regrouping
    <3>3. k \o l = rr \o (zz \o l)
      <4>1. Regrouping(rr, zz, l) BY <2>4, Associated
      <4> QED BY <4>1 DEF Regrouping
    <3> HIDE DEF k, m
    <3>4. (m \o k) \o l = m \o (k \o l)
      <4>1. Regrouping(m, k, l) BY <2>4, <3>1, Associated
      <4> QED BY <4>1 DEF Regrouping
    <3>5. hg \o (m \o (k \o l)) = (hg \o m) \o (k \o l)
      <4>1. Regrouping(hg, m, k \o l) BY <1>8, <3>1, Associated
      <4> QED BY <4>1 DEF Regrouping
    <3>6. (hg \o m) \o (rr \o (zz \o l)) = ((hg \o m) \o rr) \o (zz \o l)
      <4>1. hg \o m \in Seq(T) BY <1>8, <3>1
      <4>2. Regrouping(hg \o m, rr, zz \o l) BY <2>4, <2>5, <4>1, Associated
      <4> QED BY <4>2 DEF Regrouping
    <3>7. hg \o ((m \o k) \o l) = ((hg \o m) \o rr) \o (zz \o l) BY <3>3, <3>4, <3>5, <3>6
    <3> QED BY <3>2, <3>7 DEF m, k
  <2>7. Block(at, track, v) = ((hg \o (hb \o aa)) \o rr) \o (zz \o l) BY <2>1, <2>3, <2>4, <2>6 DEF l
  <2>8. Lead(track) = hg \o (hb \o aa) /\ Rest(at, track) = zz \o l BY <2>2 DEF aa, zz, l
  <2>9. Block(at, track, v) \in Seq(T) BY <2>5, <2>7
  <2>10. rr = <<Rel(v)>> BY DEF rr, r
  <2> QED BY <1>5, <2>4, <2>5, <2>7, <2>8, <2>9, <2>10 DEF BlockMade, T, l, data
<1> QED BY <1>14, <1>15

LeadLen(track) == IF track = VideoTrack THEN SizeWidth(3) + 1 ELSE SizeWidth(GroupLen) + (SizeWidth(3) + 1)

LeadIs(track) == Len(Lead(track)) = LeadLen(track) /\ GroupLen \in Nat /\ LeadLen(track) \in Nat

LEMMA LenOfLead ==
  ASSUME NEW track, track \in Nat
  PROVE  LeadIs(track)
<1> DEFINE T == Cell
           a == Num(track)
           x == SizeWidth(3)
           y == GroupLen
           hs == AppendSizeWidth("SimpleBlock", 3, x)
           hb == AppendSizeWidth("Block", 3, x)
           hg == AppendSizeWidth("BlockGroup", y, SizeWidth(y))
           one == <<a>>
<1>1. {"SimpleBlock", "Block", "BlockGroup", "BlockDuration"} \subseteq Ids BY DEF Ids
<1>2. x \in Nat /\ x > 0
  <2>1. 3 \in Int OBVIOUS
  <2>2. x \in 1..Wide BY <2>1, SizeWidthType
  <2> QED BY <2>2, EbmlAssumption
<1>3. y \in Nat
  <2>1. Lasts \in Seq(Cell) BY <1>1, UintType DEF Lasts
  <2>2. Len(Lasts) \in Nat BY <2>1
  <2> QED BY <1>2, <2>2 DEF GroupLen, ElementLen
<1>4. SizeWidth(y) \in Nat /\ SizeWidth(y) > 0
  <2>1. y \in Int BY <1>3
  <2> HIDE DEF y
  <2>2. SizeWidth(y) \in 1..Wide BY <2>1, SizeWidthType
  <2> QED BY <2>2, EbmlAssumption
<1>5. one \in Seq(T) /\ Len(one) = 1
  <2>1. a \in T BY NewCells
  <2> QED BY <2>1
<1> HIDE DEF x, y, one
<1>6. /\ hs \in Seq(T) /\ Len(hs) = x /\ hb \in Seq(T) /\ Len(hb) = x
  <2>1. 3 \in Int /\ "SimpleBlock" \in Ids /\ "Block" \in Ids BY <1>1
  <2>2. Marks(hs, {}) \subseteq {0} /\ hs \in Seq(Cell) /\ Len(hs) = x BY <1>2, <2>1, HeaderMarks
  <2>3. Marks(hb, {}) \subseteq {0} /\ hb \in Seq(Cell) /\ Len(hb) = x BY <1>2, <2>1, HeaderMarks
  <2> QED BY <2>2, <2>3 DEF T
<1>7. hg \in Seq(T) /\ Len(hg) = SizeWidth(y)
  <2>1. y \in Int /\ "BlockGroup" \in Ids BY <1>1, <1>3
  <2>2. Marks(hg, {}) \subseteq {0} /\ hg \in Seq(Cell) /\ Len(hg) = SizeWidth(y) BY <1>4, <2>1, HeaderMarks
  <2> QED BY <2>2 DEF T
<1>8. Lead(track) = IF track = VideoTrack THEN hs \o one ELSE hg \o (hb \o one) BY DEF Lead, x, y, one, GroupLen
<1> HIDE DEF hs, hb, hg, T
<1>9. Joined(T, hs, one) /\ Joined(T, hb, one) BY <1>5, <1>6, ConcatJoins
<1>10. Len(hs \o one) = x + 1 /\ Len(hb \o one) = x + 1 /\ hb \o one \in Seq(T)
  BY <1>5, <1>6, <1>9 DEF Joined
<1> DEFINE more == hb \o one
<1> HIDE DEF more
<1>11. Joined(T, hg, more) BY <1>7, <1>10, ConcatJoins DEF more
<1>12. Len(hg \o more) = SizeWidth(y) + (x + 1) BY <1>7, <1>10, <1>11 DEF Joined, more
<1>13. Len(Lead(track)) = IF track = VideoTrack THEN x + 1 ELSE SizeWidth(y) + (x + 1)
  BY <1>8, <1>10, <1>12 DEF more
<1>14. LeadLen(track) = IF track = VideoTrack THEN x + 1 ELSE SizeWidth(y) + (x + 1) BY DEF LeadLen, x, y
<1>15. x + 1 \in Nat /\ SizeWidth(y) + (x + 1) \in Nat BY <1>2, <1>4
<1> QED BY <1>3, <1>13, <1>14, <1>15 DEF LeadIs, y

\* A block that is read at a place: what it says and where it is.
BlockSays(b, blk, from, at, track, v, t) ==
  /\ blk.off = from /\ blk.len = Len(Block(at, track, v)) /\ blk.track = track
  /\ blk.ts = Len(Lead(track)) /\ blk.time = t + v
  /\ b[blk.off + blk.ts + 2] = FrameCell(at)

\* The payload of a block is at d, which its header leads to.
PlacedSays(b, c, e, at, track, v) ==
  BlockSays(b, blockOf(b, c, e, payload(b, e).data), e.from, at, track, v, c.timestamp)

\* Where a block's frame is, from where the block starts.
LEMMA PastPlace == \A from, d \in Int : from + (d + 1 - from) + 2 = d + 3
<1> QED OBVIOUS

LEMMA BlockPlaced ==
  ASSUME NEW b, NEW c, NEW e, NEW d, NEW at, NEW track, NEW v, b \in Seq(Cell), d \in Nat, v \in Int, FitsRel(v),
         track \in Nat, e.from \in Nat, At(b, d, Payload(at, track, v)), payload(b, e).data = d,
         d = e.from + (LeadLen(track) - 1), e.to = e.from + Len(Block(at, track, v)),
         Len(Block(at, track, v)) \in Nat
  PROVE  PlacedSays(b, c, e, at, track, v)
<1> DEFINE blk == blockOf(b, c, e, payload(b, e).data)
           n == Len(Block(at, track, v))
           w == LeadLen(track)
<1>1. PayloadSays(b, d, at, track, v) BY PayloadReads
<1>2. LeadIs(track) BY LenOfLead
<1>3. Len(Lead(track)) = w /\ w \in Nat BY <1>2 DEF LeadIs
<1>4. /\ blk.off = e.from /\ blk.len = e.to - e.from /\ blk.track = CellValue(b, d)
      /\ blk.time = c.timestamp + RelValue(b, d + 1) /\ blk.ts = d + 1 - e.from
  BY DEF blockOf
<1> HIDE DEF blk, n, w
<1>5. blk.len = n BY <1>4 DEF n
<1>6. blk.ts = w BY <1>3, <1>4 DEF w
<1>7. blk.off + blk.ts + 2 = d + 3
  <2>1. e.from \in Int /\ d \in Int OBVIOUS
  <2>2. e.from + (d + 1 - e.from) + 2 = d + 3 BY <2>1, PastPlace
  <2>3. blk.off = e.from /\ blk.ts = d + 1 - e.from BY <1>4
  <2> QED BY <2>2, <2>3, Zenon
<1> QED BY <1>1, <1>3, <1>4, <1>5, <1>6, <1>7 DEF PlacedSays, BlockSays, PayloadSays, blk, n

LEMMA BlockReads ==
  ASSUME NEW b, NEW c, NEW e, NEW at, NEW track, NEW v, b \in Seq(Cell), Small(b), e \in Elem, HeadedBy(b, e),
         at \in Nat \X Nat, track \in Nat, v \in Int, FitsRel(v), At(b, e.from, Block(at, track, v))
  PROVE  PlacedSays(b, c, e, at, track, v)
<1> DEFINE data == Payload(at, track, v)
           n == Len(Block(at, track, v))
           x == SizeWidth(3)
           y == GroupLen
<1>1. {"SimpleBlock", "Block", "BlockGroup", "BlockDuration"} \subseteq Ids BY DEF Ids
<1>2. data \in Seq(Cell) /\ Len(data) = 3 /\ Block(at, track, v) \in Seq(Cell) /\ Lasts \in Seq(Cell)
  BY BlockParts DEF BlockMade
<1>3. n \in Nat BY <1>2
<1>4. e.from \in Nat BY DEF Elem
<1>5. CASE track = VideoTrack
  <2>1. Block(at, track, v) = AppendElement("SimpleBlock", data) BY <1>5 DEF Block
  <2> HIDE DEF data
  <2>2. PayloadIs(b, e, data) BY <1>1, <1>2, <2>1, PayloadPlaced
  <2>3. e.id = "SimpleBlock"
    <3> DEFINE z == AppendElement("SimpleBlock", data)
    <3>1. Reads(b, e.from, "SimpleBlock", data, e.from + Len(z)) BY <1>1, <1>2, <2>1, ElementAt
    <3> HIDE DEF z
    <3> QED BY <3>1 DEF Reads, HeadedBy
  <2>4. payload(b, e).data = e.data BY <2>3 DEF payload
  <2>5. n = ElementLen(3) BY <1>1, <1>2, <2>1, LenOfElement
  <2>6. LeadLen(track) = x + 1 BY <1>5 DEF LeadLen
  <2>7. e.data = e.from + x /\ e.to = e.data + 3 /\ e.data \in Nat /\ x \in Nat /\ At(b, e.data, data)
    BY <1>2, <2>2 DEF PayloadIs
  <2>8. n = x + 3 BY <2>5 DEF ElementLen
  <2> HIDE DEF x, n
  <2>11. e.data = e.from + x /\ e.to = e.data + 3 /\ x \in Nat BY <2>7
  <2>9. e.data = e.from + (LeadLen(track) - 1) BY <1>4, <2>6, <2>11
  <2>10. e.to = e.from + n BY <1>4, <2>8, <2>11
  <2> QED BY <1>3, <1>4, <2>4, <2>7, <2>9, <2>10, BlockPlaced DEF data, n
<1>6. CASE track # VideoTrack
  <2> DEFINE z == AppendElement("Block", data)
             l == Lasts
             inner == z \o l
             ss == <<z, l>>
             ids == <<"Block", "BlockDuration">>
             kids == Children(b, e)
             U == Seq(Cell)
  <2>1. Block(at, track, v) = AppendElement("BlockGroup", inner) BY <1>6 DEF Block
  <2>2. z \in U /\ l \in U /\ Len(z) = x + 3
    <3> HIDE DEF data
    <3>1. z \in Seq(Cell) /\ Len(z) = ElementLen(3) BY <1>1, <1>2, ElementType, LenOfElement
    <3> QED BY <1>2, <3>1 DEF ElementLen
  <2>3. inner \in U /\ Len(inner) = y
    <3> HIDE DEF z
    <3>1. z \in Seq(Cell) /\ l \in Seq(Cell) BY <2>2
    <3>2. Joined(Cell, z, l) BY <3>1, ConcatJoins
    <3>3. y = (x + 3) + Len(l) BY DEF GroupLen, ElementLen
    <3> QED BY <2>2, <3>2, <3>3 DEF Joined
  <2>4. Framed(b, z, "Block") /\ Framed(b, l, "BlockDuration")
    <3> HIDE DEF data
    <3>1. Framed(b, z, "Block")
      <4>1. "Block" \in Ids /\ "Block" # "bad" BY <1>1
      <4> QED BY <1>2, <4>1, FramedElement
    <3>2. Framed(b, l, "BlockDuration")
      <4>1. "BlockDuration" \in Ids /\ "BlockDuration" # "bad" /\ 1 \in Int BY <1>1
      <4>2. Says(Lasts, "BlockDuration", 1) BY <4>1, UintSays DEF Lasts
      <4>3. PICK u \in Nat, w \in 1..Wide : Lasts = AppendElement("BlockDuration", Cells(Num(u), w))
        BY <4>2 DEF Says
      <4> DEFINE k == Cells(Num(u), w)
      <4>4. k \in Seq(Cell)
        <5>1. Num(u) \in Cell /\ w \in Nat BY NewCells, EbmlAssumption
        <5> QED BY <5>1, CellsType
      <4> HIDE DEF k
      <4>5. Framed(b, AppendElement("BlockDuration", k), "BlockDuration") BY <4>1, <4>4, FramedElement
      <4> QED BY <4>3, <4>5 DEF k
    <3> QED BY <3>1, <3>2
  <2> HIDE DEF z, l, U
  <2>5. ss \in Seq(U) /\ Len(ss) = 2 /\ ss[1] = z /\ ss[2] = l BY <2>2
  <2>6. FlattenSeq(ss) = inner
    <3>1. <<z>> \in Seq(U) /\ ss = Append(<<z>>, l) BY <2>2
    <3>2. FlattenSeq(Append(<<z>>, l)) = FlattenSeq(<<z>>) \o l BY <2>2, <3>1, FlattenAppend DEF U
    <3>3. FlattenSeq(<<z>>) = z BY <2>2, FlattenSingle DEF U
    <3> QED BY <3>1, <3>2, <3>3
  <2>7. \A i \in 1..Len(ss) : Framed(b, ss[i], ids[i]) /\ ids[i] # "bad"
    <3>1. 1..Len(ss) = {1, 2} BY <2>5
    <3>2. ids[1] = "Block" /\ ids[2] = "BlockDuration" OBVIOUS
    <3> HIDE DEF ss, ids
    <3> QED BY <2>4, <2>5, <3>1, <3>2
  <2>8. ids[1] = "Block" /\ ids[2] = "BlockDuration" OBVIOUS
  <2> HIDE DEF ss, ids, inner, data
  <2>9. At(b, e.from, AppendElement("BlockGroup", inner)) BY <2>1
  <2>10. ss \in Seq(Seq(Cell)) /\ inner \in Seq(Cell) BY <2>3, <2>5 DEF U
  <2>11. PayloadIs(b, e, inner) BY <1>1, <2>9, <2>10, PayloadPlaced
  <2>12. Held(b, kids, ss, ids, e.to) /\ e.to <= Len(b)
    <3>1. At(b, e.from, AppendElement("BlockGroup", FlattenSeq(ss))) BY <2>6, <2>9
    <3> QED BY <1>1, <2>7, <2>10, <3>1, ChildrenHold
  <2>13. Gives(kids, e.data, ss, ids)
    <3>1. At(b, e.data, FlattenSeq(ss)) /\ e.to = e.data + Len(FlattenSeq(ss)) BY <2>6, <2>11 DEF PayloadIs
    <3>2. \A i \in 1..Len(ss) : Framed(b, ss[i], ids[i]) BY <2>7
    <3>3. Gives(Walk(b, e.data, e.data + Len(FlattenSeq(ss)), {}), e.data, ss, ids) BY <2>10, <3>1, <3>2, WalkFlat
    <3> QED BY <3>1, <3>3 DEF Children
  <2> HIDE DEF kids
  <2>14. /\ Len(kids) = 2 /\ kids \in Seq(Elem)
         /\ kids[1] \in Elem /\ kids[1].id = "Block" /\ HeadedBy(b, kids[1]) /\ At(b, kids[1].from, z)
         /\ kids[2].id = "BlockDuration"
         /\ kids[1].from = e.data + Start(ss, 1)
    <3>1. 1 \in 1..Len(ss) /\ 2 \in 1..Len(ss) BY <2>5
    <3> QED BY <2>5, <2>8, <2>12, <2>13, <3>1 DEF Held, Gives
  <2>15. kids[1].from = e.data
    <3>1. Start(ss, 1) = 0 BY <2>10, StartEnds
    <3>2. e.data \in Nat BY <2>11 DEF PayloadIs
    <3> QED BY <2>14, <3>1, <3>2
  <2>16. DOMAIN kids = {1, 2}
    <3> DEFINE T == Elem
    <3>1. kids \in Seq(T) BY <2>14
    <3> HIDE DEF T
    <3>2. DOMAIN kids = 1..2 BY <2>14, <3>1
    <3> QED BY <3>2
  <2>17. LastOf(kids, "Block") = kids[1]
    <3>1. Has(kids, "Block") BY <2>14, <2>16 DEF Has
    <3>2. LastFound(kids, "Block") BY <2>14, <3>1, LastIsOne
    <3>3. 1..Len(kids) = {1, 2} BY <2>14
    <3> QED BY <2>14, <3>2, <3>3 DEF LastFound
  <2> DEFINE k == kids[1]
  <2>18. PayloadIs(b, k, data) BY <1>1, <1>2, <2>14, PayloadPlaced DEF z
  <2>19. e.id = "BlockGroup"
    <3> DEFINE q == AppendElement("BlockGroup", inner)
    <3>1. Reads(b, e.from, "BlockGroup", inner, e.from + Len(q)) BY <1>1, <2>9, <2>10, ElementAt
    <3> HIDE DEF q
    <3> QED BY <3>1 DEF Reads, HeadedBy
  <2>20. payload(b, e).data = k.data BY <2>17, <2>19 DEF payload, kids
  <2>21. n = ElementLen(y) BY <1>1, <2>1, <2>3, <2>10, LenOfElement
  <2>22. LeadLen(track) = SizeWidth(y) + (x + 1) BY <1>6 DEF LeadLen
  <2>23. e.data = e.from + SizeWidth(y) /\ e.to = e.data + y /\ e.data \in Nat /\ SizeWidth(y) \in Nat
    BY <2>3, <2>11 DEF PayloadIs
  <2>24. k.data = e.data + x /\ k.data \in Nat /\ x \in Nat /\ At(b, k.data, data)
    BY <1>2, <2>15, <2>18 DEF PayloadIs
  <2>25. n = SizeWidth(y) + y BY <2>21 DEF ElementLen
  <2>26. y \in Nat
    <3>1. LeadIs(track) BY LenOfLead
    <3> QED BY <3>1 DEF LeadIs
  <2> HIDE DEF x, y, n, k
  <2>27. k.data = e.from + (LeadLen(track) - 1) BY <1>4, <2>22, <2>23, <2>24
  <2>28. e.to = e.from + n BY <1>4, <2>23, <2>25, <2>26
  <2> QED BY <1>3, <1>4, <2>20, <2>24, <2>27, <2>28, BlockPlaced DEF data, n
<1> QED BY <1>5, <1>6

-----------------------------------------------------------------------------
(* What a block, a cluster and the file carry.                                *)

BlockMarked(at, track, v) ==
  /\ Marks(Block(at, track, v), BlockIds) \subseteq {0}
  /\ \A ids : ids \cap InBlock = {} => Clear(Block(at, track, v), ids)

LEMMA BlockMarks ==
  ASSUME NEW at, NEW track, NEW v, at \in Nat \X Nat, track \in Nat, v \in Int
  PROVE  BlockMarked(at, track, v)
<1> DEFINE data == Payload(at, track, v)
           z == AppendElement("Block", data)
           l == Lasts
           inner == z \o l
<1>1. {"SimpleBlock", "Block", "BlockGroup", "BlockDuration"} \subseteq Ids BY DEF Ids
<1>2. data \in Seq(Cell) BY BlockParts DEF BlockMade
<1>3. \A ids : Clear(data, ids) BY PayloadClear
<1> HIDE DEF data
<1>4. Marks(AppendElement("SimpleBlock", data), BlockIds) \subseteq {0} BY <1>1, <1>2, <1>3, ElementMarks
<1>5. ASSUME NEW ids, ids \cap InBlock = {} PROVE Clear(AppendElement("SimpleBlock", data), ids)
  <2>1. "SimpleBlock" \notin ids BY <1>5 DEF InBlock
  <2> QED BY <1>1, <1>2, <1>3, <2>1, ElementMarks
<1>6. ASSUME NEW ids, "Block" \notin ids, "BlockDuration" \notin ids
      PROVE  Clear(inner, ids) /\ inner \in Seq(Cell)
  <2>1. Clear(z, ids) /\ z \in Seq(Cell) BY <1>1, <1>2, <1>3, <1>6, ElementMarks
  <2>2. Clear(l, ids) /\ l \in Seq(Cell) BY <1>1, <1>6, UintMarks DEF Lasts
  <2> HIDE DEF z, l
  <2> QED BY <2>1, <2>2, ClearConcat
<1> HIDE DEF inner
<1>7. Marks(AppendElement("BlockGroup", inner), BlockIds) \subseteq {0}
  <2>1. "Block" \notin BlockIds /\ "BlockDuration" \notin BlockIds BY DEF BlockIds
  <2>2. Clear(inner, BlockIds) /\ inner \in Seq(Cell) BY <1>6, <2>1
  <2> QED BY <1>1, <2>2, ElementMarks
<1>8. ASSUME NEW ids, ids \cap InBlock = {} PROVE Clear(AppendElement("BlockGroup", inner), ids)
  <2>1. "BlockGroup" \notin ids /\ "Block" \notin ids /\ "BlockDuration" \notin ids BY <1>8 DEF InBlock
  <2>2. Clear(inner, ids) /\ inner \in Seq(Cell) BY <1>6, <2>1
  <2> QED BY <1>1, <2>1, <2>2, ElementMarks
<1>9. Block(at, track, v) = IF track = VideoTrack THEN AppendElement("SimpleBlock", data)
                            ELSE AppendElement("BlockGroup", inner)
  BY DEF Block, data, inner
<1> QED BY <1>4, <1>5, <1>7, <1>8, <1>9 DEF BlockMarked

\* A block as it is stored, and the number of the one at a place.
StoredBlock(k, i) ==
  [at |-> <<k, i>>, track |-> source[k].blocks[i].track, key |-> source[k].blocks[i].key,
   time |-> source[k].ts + source[k].blocks[i].rel]

Row(k) == [i \in DOMAIN source[k].blocks |-> StoredBlock(k, i)]

Rows == [k \in DOMAIN source |-> Row(k)]

Index(at) == CHOOSE n \in DOMAIN Stored : Stored[n].at = at

LEMMA RowsType ==
  ASSUME SourceInv
  PROVE  /\ Stored = FlattenSeq(Rows) /\ Rows \in Seq(Seq(SourceBlock)) /\ Len(Rows) = Len(source)
         /\ \A k \in 1..Len(source) : Rows[k] = Row(k) /\ Len(Row(k)) = Len(source[k].blocks)
         /\ \A k \in 1..Len(source) : \A i \in 1..Len(source[k].blocks) : Row(k)[i] = StoredBlock(k, i)
<1> DEFINE U == Seq(SourceBlock)
<1>1. Stored = FlattenSeq(Rows) BY DEF Stored, Rows, Row, StoredBlock
<1>3. ASSUME NEW k \in 1..Len(source), NEW i \in 1..Len(source[k].blocks) PROVE StoredBlock(k, i) \in SourceBlock
  <2>0. MaxTime \in Nat BY CutAssumption
  <2>1. k \in Nat /\ i \in Nat BY SourceTypes, BlockTypes
  <2>2. source[k].blocks[i] \in BlockKinds /\ source[k].ts + source[k].blocks[i].rel \in 0..(MaxTime - 1)
    BY BlockTypes
  <2> DEFINE b == source[k].blocks[i]
             t == source[k].ts + b.rel
             tr == b.track
             ky == b.key
             at == <<k, i>>
  <2>3. tr \in Nat /\ ky \in BOOLEAN BY <2>2, KindType
  <2>4. t \in 0..(MaxTime - 1) BY <2>2
  <2>5. at \in Nat \X Nat /\ at[1] \in 1..Len(source) BY <2>1
  <2>6. StoredBlock(k, i) = [at |-> at, track |-> tr, key |-> ky, time |-> t] BY DEF StoredBlock
  <2> HIDE DEF b, t, tr, ky, at
  <2>7. t \in 0..MaxTime BY <2>0, <2>4
  <2> QED BY <2>3, <2>5, <2>6, <2>7 DEF SourceBlock
<1>4. ASSUME NEW k \in 1..Len(source)
      PROVE  Row(k) \in U /\ Len(Row(k)) = Len(source[k].blocks) /\ \A i \in 1..Len(source[k].blocks) : Row(k)[i] = StoredBlock(k, i)
  <2> DEFINE blocks == source[k].blocks
             h == [i \in DOMAIN blocks |-> StoredBlock(k, i)]
             T == BlockKinds
             W == SourceBlock
  <2>1. blocks \in Seq(T) BY SourceTypes
  <2>2. Row(k) = h BY DEF Row
  <2>3. \A i \in 1..Len(blocks) : StoredBlock(k, i) \in W BY <1>3
  <2> HIDE DEF blocks, T, W
  <2>4. DOMAIN blocks = 1..Len(blocks) /\ Len(blocks) \in Nat BY <2>1
  <2>5. \A i \in 1..Len(blocks) : h[i] = StoredBlock(k, i) /\ h[i] \in W BY <2>3, <2>4
  <2>6. h \in [1..Len(blocks) -> W] BY <2>3, <2>4
  <2> HIDE DEF h
  <2>7. h \in Seq(W) /\ Len(h) = Len(blocks) BY <2>4, <2>6, FunctionIsSequence
  <2> QED BY <2>2, <2>5, <2>7 DEF W, blocks
<1> DEFINE T == TimedCluster
<1>5. source \in Seq(T) BY DEF SourceInv
<1> HIDE DEF T, U
<1>6. DOMAIN source = 1..Len(source) /\ Len(source) \in Nat BY <1>5
<1>7. \A k \in 1..Len(source) : Rows[k] = Row(k) BY <1>6 DEF Rows
<1>8. Rows \in [1..Len(source) -> U] BY <1>4, <1>6 DEF Rows
<1>9. Rows \in Seq(U) /\ Len(Rows) = Len(source) BY <1>6, <1>8, FunctionIsSequence
<1> QED BY <1>1, <1>4, <1>7, <1>9 DEF U

\* Every block of the source has a number of its own, in the order of the file.
BlockHere(k, i) == k \in 1..Len(source) /\ i \in 1..Len(source[k].blocks)

Indexed ==
  /\ \A n \in 1..Len(Stored) : Index(Stored[n].at) = n
  /\ \A k, i : BlockHere(k, i) =>
       Index(<<k, i>>) \in 1..Len(Stored) /\ Stored[Index(<<k, i>>)] = StoredBlock(k, i)
  /\ \A k, i, l, j : BlockHere(k, i) /\ BlockHere(l, j) /\ (k < l \/ (k = l /\ i < j)) =>
       Index(<<k, i>>) < Index(<<l, j>>)

LEMMA SourceIndexed == SourceInv => Indexed
<1> SUFFICES ASSUME SourceInv PROVE Indexed OBVIOUS
<1> DEFINE L == Len(Stored)
<1>1. L \in Nat /\ DOMAIN Stored = 1..L
  <2> DEFINE T == SourceBlock
  <2>1. Stored \in Seq(T) BY StoredType
  <2> HIDE DEF T
  <2> QED BY <2>1
<1>2. Flat(Rows, Stored)
  <2> DEFINE T == SourceBlock
  <2>1. Stored = FlattenSeq(Rows) /\ Rows \in Seq(Seq(T)) BY RowsType
  <2> HIDE DEF T
  <2>2. Flat(Rows, FlattenSeq(Rows)) BY <2>1, FlatPlaces
  <2> QED BY <2>1, <2>2
<1>3. PICK row, col : FlatBy(Rows, Stored, row, col) BY <1>2 DEF Flat
<1>4. /\ Len(Rows) = Len(source)
      /\ \A k \in 1..Len(source) : Rows[k] = Row(k) /\ Len(Row(k)) = Len(source[k].blocks)
      /\ \A k \in 1..Len(source) : \A i \in 1..Len(source[k].blocks) : Row(k)[i] = StoredBlock(k, i)
  BY RowsType
<1>5. ASSUME NEW n \in 1..L
      PROVE  BlockHere(row[n], col[n]) /\ Stored[n] = StoredBlock(row[n], col[n]) /\ Stored[n].at = <<row[n], col[n]>>
  <2>1. row[n] \in 1..Len(Rows) /\ col[n] \in 1..Len(Rows[row[n]]) /\ Stored[n] = Rows[row[n]][col[n]]
    BY <1>3 DEF FlatBy
  <2>2. BlockHere(row[n], col[n]) BY <1>4, <2>1 DEF BlockHere
  <2>3. Stored[n] = StoredBlock(row[n], col[n]) BY <1>4, <2>1, <2>2 DEF BlockHere
  <2> QED BY <2>2, <2>3 DEF StoredBlock
<1>6. \A n \in 1..L : \A m \in 1..L : m < n => row[m] < row[n] \/ (row[m] = row[n] /\ col[m] < col[n])
  BY <1>3 DEF FlatBy
<1>7. ASSUME NEW k, NEW i, BlockHere(k, i) PROVE \E n \in 1..L : row[n] = k /\ col[n] = i
  <2>1. k \in 1..Len(Rows) /\ i \in 1..Len(Rows[k]) BY <1>4, <1>7 DEF BlockHere
  <2> QED BY <1>3, <2>1 DEF FlatBy
<1>8. ASSUME NEW m \in 1..L, NEW n \in 1..L, Stored[m].at = Stored[n].at PROVE m = n
  <2>1. row[m] = row[n] /\ col[m] = col[n] BY <1>5, <1>8
  <2>2. row[m] \in Int /\ col[m] \in Int BY <1>5 DEF BlockHere
  <2>3. ~(m < n) /\ ~(n < m) BY <1>6, <2>1, <2>2
  <2> QED BY <1>1, <2>3
<1>9. ASSUME NEW n \in 1..L PROVE Index(Stored[n].at) = n
  <2> DEFINE m == Index(Stored[n].at)
  <2>1. m \in DOMAIN Stored /\ Stored[m].at = Stored[n].at
    <3>1. n \in DOMAIN Stored /\ Stored[n].at = Stored[n].at BY <1>1
    <3> QED BY <3>1 DEF Index
  <2> HIDE DEF m
  <2>2. m = n BY <1>1, <1>8, <2>1
  <2> QED BY <2>2 DEF m
<1>10. ASSUME NEW k, NEW i, BlockHere(k, i)
       PROVE  \E n \in 1..L : row[n] = k /\ col[n] = i /\ Index(<<k, i>>) = n /\ Stored[n] = StoredBlock(k, i)
  <2>1. PICK n \in 1..L : row[n] = k /\ col[n] = i BY <1>7, <1>10
  <2>2. Stored[n] = StoredBlock(k, i) /\ Stored[n].at = <<k, i>> BY <1>5, <2>1
  <2>3. Index(<<k, i>>) = n BY <1>9, <2>2
  <2> QED BY <2>1, <2>2, <2>3
<1>11. ASSUME NEW k, NEW i, NEW l, NEW j, BlockHere(k, i), BlockHere(l, j), k < l \/ (k = l /\ i < j)
       PROVE  Index(<<k, i>>) < Index(<<l, j>>)
  <2>1. PICK m \in 1..L : row[m] = k /\ col[m] = i /\ Index(<<k, i>>) = m BY <1>10, <1>11
  <2>2. PICK n \in 1..L : row[n] = l /\ col[n] = j /\ Index(<<l, j>>) = n BY <1>10, <1>11
  <2>3. k \in Int /\ i \in Int /\ l \in Int /\ j \in Int BY <1>11 DEF BlockHere
  <2>4. m # n BY <1>11, <2>1, <2>2, <2>3
  <2>5. ~(n < m) BY <1>6, <1>11, <2>1, <2>2, <2>3
  <2>6. m < n BY <1>1, <2>4, <2>5
  <2> QED BY <2>1, <2>2, <2>6
<1> HIDE DEF L
<1>12. \A n \in 1..L : Index(Stored[n].at) = n BY <1>9
<1>13. \A k, i : BlockHere(k, i) => Index(<<k, i>>) \in 1..L /\ Stored[Index(<<k, i>>)] = StoredBlock(k, i) BY <1>10
<1> QED BY <1>11, <1>12, <1>13 DEF Indexed, L

LEMMA JunkMarks ==
  ASSUME NEW id, NEW ids, id \in Ids, id \notin ids
  PROVE  Clear(Junk(id), ids) /\ Junk(id) \in Seq(Cell)
<1> DEFINE c == Num(1)
<1>1. c \in Cell /\ c.is # "head"
  <2>1. c.is = "num" BY DEF Num
  <2> QED BY <2>1, NewCells
<1> HIDE DEF c
<1>2. Clear(<<c>>, ids) /\ <<c>> \in Seq(Cell) BY <1>1, OneMark
<1>3. Clear(AppendElement(id, <<c>>), ids) /\ AppendElement(id, <<c>>) \in Seq(Cell) BY <1>2, ElementMarks
<1>4. Clear(<<>>, ids) BY MarksOfNone
<1>5. <<>> \in Seq(Cell) OBVIOUS
<1> QED BY <1>3, <1>4, <1>5 DEF Junk, c

\* What is in a cluster after its timestamp.
RestOf(k) ==
  Junk("PrevSize") \o FlattenSeq([i \in DOMAIN source[k].blocks |-> BlockElement(k, i) \o Junk("Void")])

\* The blocks of the source in a cluster with a timestamp, and the numbers of those of one cluster.
Units(base) == [n \in 1..Len(Stored) |-> Block(Stored[n].at, Stored[n].track, Stored[n].time - base)]

Places(k) == {Index(<<k, i>>) : i \in 1..Len(source[k].blocks)}

LEMMA UnitIs ==
  ASSUME NEW k, NEW i, SourceInv, BlockHere(k, i)
  PROVE  /\ Units(source[k].ts)[Index(<<k, i>>)] = BlockElement(k, i)
         /\ BlockElement(k, i) = Block(<<k, i>>, source[k].blocks[i].track, source[k].blocks[i].rel)
         /\ source[k].blocks[i].track \in Nat /\ source[k].blocks[i].rel \in Int /\ <<k, i>> \in Nat \X Nat
<1> DEFINE b == source[k].blocks[i]
           n == Index(<<k, i>>)
           t == source[k].ts
           r == b.rel
<1>1. Indexed BY SourceIndexed
<1>2. n \in 1..Len(Stored) /\ Stored[n] = StoredBlock(k, i) BY <1>1 DEF Indexed
<1>3. b \in BlockKinds /\ k \in Nat /\ i \in Nat /\ t \in Nat
  <2>1. k \in 1..Len(source) /\ i \in 1..Len(source[k].blocks) BY DEF BlockHere
  <2> QED BY <2>1, SourceTypes, BlockTypes
<1>4. b.track \in Nat /\ r \in Int BY <1>3, KindType
<1>5. Stored[n].at = <<k, i>> /\ Stored[n].track = b.track /\ Stored[n].time = t + r BY <1>2 DEF StoredBlock
<1>6. BlockElement(k, i) = Block(<<k, i>>, b.track, r)
  BY DEF BlockElement, Block, Payload, FrameCell, Frame, Lasts
<1>7. (t + r) - t = r
  <2> HIDE DEF t, r
  <2> QED BY <1>3, <1>4
<1> HIDE DEF b, n, t
<1>8. Units(t)[n] = Block(Stored[n].at, Stored[n].track, Stored[n].time - t) BY <1>2 DEF Units
<1>9. Stored[n].time - t = r BY <1>5, <1>7
<1> QED BY <1>3, <1>4, <1>5, <1>6, <1>8, <1>9 DEF b, n, t

\* What a cluster of the file carries.
RestMade(k) ==
  /\ source[k].ts \in Nat /\ RestOf(k) \in Seq(Cell)
  /\ Clear(RestOf(k), {"Timestamp"}) /\ Clear(RestOf(k), HeadIds)
  /\ Carries(RestOf(k), BlockIds, Units(source[k].ts), Places(k))

LEMMA RestCarries ==
  ASSUME NEW k, SourceInv, k \in 1..Len(source)
  PROVE  RestMade(k)
<1> DEFINE blocks == source[k].blocks
           n == Len(blocks)
           one(i) == BlockElement(k, i) \o Junk("Void")
           ss == [i \in DOMAIN blocks |-> one(i)]
           junk == Junk("PrevSize")
           U == Units(source[k].ts)
           E == [i \in 1..n |-> {Index(<<k, i>>)}]
           T == Seq(Cell)
<1>1. source[k].ts \in Nat /\ blocks \in Seq(BlockKinds) BY SourceTypes
<1>2. n \in Nat /\ DOMAIN blocks = 1..n
  <2> DEFINE W == BlockKinds
  <2>1. blocks \in Seq(W) BY <1>1
  <2> HIDE DEF W, blocks
  <2> QED BY <2>1
<1>3. {"PrevSize", "Void"} \subseteq Ids BY DEF Ids
<1>4. "Void" \notin BlockIds /\ "Void" \notin HeadIds /\ "PrevSize" \notin BlockIds /\ "PrevSize" \notin HeadIds
      /\ "Void" \notin {"Timestamp"} /\ "PrevSize" \notin {"Timestamp"}
      /\ HeadIds \cap InBlock = {} /\ {"Timestamp"} \cap InBlock = {}
  BY DEF BlockIds, HeadIds, InBlock
<1>5. ASSUME NEW i \in 1..n
      PROVE  /\ one(i) \in Seq(Cell) /\ Carries(one(i), BlockIds, U, {Index(<<k, i>>)})
             /\ Clear(one(i), HeadIds) /\ Clear(one(i), {"Timestamp"})
  <2> DEFINE x == BlockElement(k, i)
             v == Junk("Void")
             b == source[k].blocks[i]
             m == Index(<<k, i>>)
  <2>1. BlockHere(k, i) BY DEF BlockHere
  <2>2. U[m] = x /\ x = Block(<<k, i>>, b.track, b.rel) /\ b.track \in Nat /\ b.rel \in Int /\ <<k, i>> \in Nat \X Nat
    BY <2>1, UnitIs
  <2>3. x \in Seq(Cell)
    <3>1. i \in 1..Len(source[k].blocks) OBVIOUS
    <3> QED BY <3>1, BlockElementType
  <2>4. Marks(x, BlockIds) \subseteq {0} /\ Clear(x, HeadIds) /\ Clear(x, {"Timestamp"})
    BY <1>4, <2>2, BlockMarks DEF BlockMarked
  <2>5. v \in Seq(Cell) /\ Clear(v, BlockIds) /\ Clear(v, HeadIds) /\ Clear(v, {"Timestamp"}) BY <1>3, <1>4, JunkMarks
  <2> HIDE DEF U, x, v, m
  <2>6. Carries(x, BlockIds, U, {m}) BY <2>2, <2>3, <2>4, CarriesUnit
  <2>7. Carries(x \o v, BlockIds, U, {m}) BY <2>3, <2>5, <2>6, CarriesAround
  <2>8. Clear(x \o v, HeadIds) /\ Clear(x \o v, {"Timestamp"}) BY <2>3, <2>4, <2>5, ClearConcat
  <2>9. x \o v \in Seq(Cell) BY <2>3, <2>5
  <2> QED BY <2>7, <2>8, <2>9 DEF x, v, m
<1>6. junk \in Seq(Cell) /\ Clear(junk, BlockIds) /\ Clear(junk, HeadIds) /\ Clear(junk, {"Timestamp"})
  BY <1>3, <1>4, JunkMarks
<1>7. RestOf(k) = junk \o FlattenSeq(ss) BY DEF RestOf
<1>8. ss \in Seq(T) /\ Len(ss) = n /\ \A i \in 1..n : ss[i] = one(i)
  <2>1. \A i \in 1..n : one(i) \in T BY <1>5
  <2> HIDE DEF one, T, blocks, n
  <2>2. ss \in [1..n -> T] BY <1>2, <2>1
  <2>3. \A i \in 1..n : ss[i] = one(i) BY <1>2
  <2> HIDE DEF ss
  <2> QED BY <1>2, <2>2, <2>3, FunctionIsSequence
<1>9. Indexed BY SourceIndexed
<1>10. InOrder(ss, BlockIds, U, E, Places(k))
  <2>1. ASSUME NEW i \in 1..n PROVE Carries(ss[i], BlockIds, U, E[i]) /\ E[i] \subseteq Places(k)
    <3>1. E[i] = {Index(<<k, i>>)} OBVIOUS
    <3>2. Index(<<k, i>>) \in Places(k) BY DEF Places
    <3>3. Carries(one(i), BlockIds, U, {Index(<<k, i>>)}) BY <1>5
    <3>4. ss[i] = one(i) BY <1>8
    <3> HIDE DEF ss, one, E, U
    <3> QED BY <3>1, <3>2, <3>3, <3>4
  <2>2. ASSUME NEW i \in 1..n, NEW j \in 1..n, i < j PROVE Before(E[i], E[j])
    <3>1. BlockHere(k, i) /\ BlockHere(k, j) BY DEF BlockHere
    <3>2. Index(<<k, i>>) < Index(<<k, j>>) BY <1>9, <2>2, <3>1 DEF Indexed
    <3>3. E[i] = {Index(<<k, i>>)} /\ E[j] = {Index(<<k, j>>)} OBVIOUS
    <3> HIDE DEF E
    <3> QED BY <3>2, <3>3 DEF Before
  <2>3. Len(ss) = n BY <1>8
  <2> HIDE DEF ss, E, U, n
  <2> QED BY <2>1, <2>2, <2>3 DEF InOrder
<1>11. \A i \in 1..Len(ss) : Clear(ss[i], HeadIds) /\ Clear(ss[i], {"Timestamp"})
  <2> HIDE DEF ss, one
  <2> QED BY <1>5, <1>8
<1>12. ss \in Seq(Seq(Cell)) BY <1>8 DEF T
<1> DEFINE all == FlattenSeq(ss)
<1> HIDE DEF ss, U, E
<1>13. Carries(all, BlockIds, U, Places(k)) BY <1>10, <1>12, CarriesFlatten
<1>14. Clear(all, HeadIds) /\ Clear(all, {"Timestamp"}) BY <1>11, <1>12, ClearFlatten
<1>15. all \in Seq(Cell) BY <1>12, FlattenType
<1> HIDE DEF all, junk
<1>16. Carries(junk \o all, BlockIds, U, Places(k)) BY <1>6, <1>13, <1>15, CarriesAround
<1>17. Clear(junk \o all, HeadIds) /\ Clear(junk \o all, {"Timestamp"}) BY <1>6, <1>14, <1>15, ClearConcat
<1>18. junk \o all \in Seq(Cell) BY <1>6, <1>15
<1> QED BY <1>1, <1>7, <1>16, <1>17, <1>18 DEF RestMade, U, all

\* A cluster of the file: how it is made, unless its size is not known.
ClusterMade(k) ==
  /\ RestMade(k)
  /\ ClusterElement(k) \in Seq(Cell) /\ Marks(ClusterElement(k), HeadIds) \subseteq {0}
  /\ ClusterElement(k) =
       IF format.live
       THEN AppendSizeWidth("Cluster", Pow(SizeBase, Wide) - 1, Wide) \o TimedBody(source[k].ts, RestOf(k))
       ELSE TimedElement(source[k].ts, RestOf(k))

LEMMA ClusterElementMade ==
  ASSUME NEW k, SourceInv, k \in 1..Len(source)
  PROVE  ClusterMade(k)
<1> DEFINE t == source[k].ts
           rest == RestOf(k)
           ts == AppendUint("Timestamp", t)
           junk == Junk("PrevSize")
           all == FlattenSeq([i \in DOMAIN source[k].blocks |-> BlockElement(k, i) \o Junk("Void")])
           body == TimedBody(t, rest)
           h(n) == AppendSizeWidth("Cluster", n, Wide)
<1>1. RestMade(k) BY RestCarries
<1>2. t \in Nat /\ rest \in Seq(Cell) /\ Clear(rest, HeadIds) BY <1>1 DEF RestMade
<1>3. (ts \o junk) \o all = body
  <2>1. {"PrevSize", "Timestamp"} \subseteq Ids BY DEF Ids
  <2>2. ts \in Seq(Cell) /\ junk \in Seq(Cell) BY <1>2, <2>1, UintType, JunkType
  <2>3. all \in Seq(Cell)
    <3> DEFINE blocks == source[k].blocks
               T == Seq(Cell)
               one(i) == BlockElement(k, i) \o Junk("Void")
               g == [i \in DOMAIN blocks |-> one(i)]
    <3>1. blocks \in Seq(BlockKinds) BY SourceTypes
    <3>2. \A i \in 1..Len(blocks) : one(i) \in T
      <4>1. \A i \in 1..Len(blocks) : BlockElement(k, i) \in Seq(Cell) BY BlockElementType
      <4>2. Junk("Void") \in Seq(Cell)
        <5>1. "Void" \in Ids BY DEF Ids
        <5> QED BY <5>1, JunkType
      <4> QED BY <4>1, <4>2
    <3>3. all = FlattenSeq(g) OBVIOUS
    <3>4. Len(blocks) \in Nat /\ DOMAIN blocks = 1..Len(blocks)
      <4> DEFINE W == BlockKinds
      <4>1. blocks \in Seq(W) BY <3>1
      <4> HIDE DEF W, blocks
      <4> QED BY <4>1
    <3> HIDE DEF one, T, blocks
    <3>5. g \in [1..Len(blocks) -> T] BY <3>2, <3>4
    <3> HIDE DEF g
    <3>6. FlattenSeq(g) \in Seq(Cell) BY <3>4, <3>5, FlattenOf DEF T
    <3> QED BY <3>3, <3>6 DEF g, one, blocks
  <2>4. rest = junk \o all BY DEF RestOf
  <2>5. body = ts \o rest BY DEF TimedBody
  <2> HIDE DEF ts, junk, all, rest, body
  <2>6. Regrouping(ts, junk, all) BY <2>2, <2>3, Associated
  <2> QED BY <2>4, <2>5, <2>6 DEF Regrouping
<1>4. ClusterElement(k) = h(IF format.live THEN Pow(SizeBase, Wide) - 1 ELSE Len(body)) \o body
  BY <1>3 DEF ClusterElement
<1>5. TimedElement(t, rest) = h(Len(body)) \o body BY DEF TimedElement
<1>6. Pow(SizeBase, Wide) - 1 \in Int /\ Len(body) \in Int
  <2>1. SizeBase \in Nat /\ SizeBase > 0 /\ Wide \in Nat BY EbmlAssumption
  <2>2. Pow(SizeBase, Wide) \in Nat BY <2>1, PowNat
  <2>3. "Timestamp" \in Ids BY DEF Ids
  <2>4. ts \in Seq(Cell) BY <1>2, <2>3, UintType
  <2>5. body = ts \o rest BY DEF TimedBody
  <2> HIDE DEF ts, rest, body
  <2>6. body \in Seq(Cell) BY <1>2, <2>4, <2>5
  <2> QED BY <2>2, <2>6
<1> DEFINE m == IF format.live THEN Pow(SizeBase, Wide) - 1 ELSE Len(body)
<1>7. m \in Int /\ t \in Int BY <1>2, <1>6
<1>8. "Timestamp" \notin HeadIds BY DEF HeadIds
<1>9. ClusterElement(k) = h(m) \o body BY <1>4
<1>10. m = IF format.live THEN Pow(SizeBase, Wide) - 1 ELSE Len(body) OBVIOUS
<1> HIDE DEF m, t, rest
<1>11. Marks(h(m) \o body, HeadIds) \subseteq {0} /\ h(m) \o body \in Seq(Cell) BY <1>2, <1>7, <1>8, ClusterHeadMarks
<1> HIDE DEF body
<1>12. ClusterElement(k) = IF format.live THEN h(Pow(SizeBase, Wide) - 1) \o body ELSE h(Len(body)) \o body
  BY <1>9, <1>10
<1> HIDE DEF h
<1>13. ClusterElement(k) = IF format.live THEN h(Pow(SizeBase, Wide) - 1) \o body ELSE TimedElement(t, rest)
  BY <1>5, <1>12
<1> QED BY <1>1, <1>9, <1>11, <1>13 DEF ClusterMade, h, body, t, rest

LEMMA CuesPlain ==
  ASSUME NEW offs, SourceInv, \A k \in 1..Len(source) : offs[k] \in Int
  PROVE  CuesElement(offs) \in Plain(HeadIds)
<1> DEFINE I == {i \in DOMAIN Stored :
                   IF Stored[i].track = VideoTrack THEN Stored[i].key ELSE format.noisy}
           indexed == Where(Stored, I)
           point(b) == AppendElement("CuePoint", AppendUint("CueTime", b.time)
                         \o AppendElement("CueTrackPositions", AppendUint("CueTrack", b.track)
                              \o AppendUintWidth("CueClusterPosition", offs[b.at[1]], Wide)))
           g == [i \in DOMAIN indexed |-> point(indexed[i])]
           T == SourceBlock
           P == Plain(HeadIds)
<1>1. PlainMade(HeadIds) BY PlainCells
<1>2. \A id \in OtherIds : id \in Ids /\ id \notin HeadIds BY OtherIdsAre
<1>3. {"CuePoint", "CueTime", "CueTrackPositions", "CueTrack", "CueClusterPosition", "Cues"} \subseteq OtherIds
  BY DEF OtherIds
<1>4. /\ \A x, y \in P : x \o y \in P
      /\ \A id \in OtherIds : \A x \in P : AppendElement(id, x) \in P
      /\ \A id \in OtherIds : \A v \in Int : AppendUint(id, v) \in P
      /\ \A id \in OtherIds : \A v \in Int : \A w \in Nat : AppendUintWidth(id, v, w) \in P
      /\ \A s \in Seq(P) : FlattenSeq(s) \in P
  BY <1>1, <1>2 DEF PlainMade
<1> HIDE DEF P
<1>5. ASSUME NEW b \in T PROVE point(b) \in P
  <2> DEFINE a == AppendUint("CueTrack", b.track)
             o == offs[b.at[1]]
             p == AppendUintWidth("CueClusterPosition", o, Wide)
             d == AppendUint("CueTime", b.time)
  <2>1. b.track \in Nat /\ b.time \in 0..MaxTime /\ b.at[1] \in 1..Len(source) BY DEF SourceBlock
  <2>2. b.time \in Int /\ b.track \in Int BY <2>1, CutAssumption
  <2>3. o \in Int /\ Wide \in Nat BY <2>1, EbmlAssumption
  <2> HIDE DEF o
  <2>4. a \in P /\ d \in P BY <1>3, <1>4, <2>2
  <2>5. p \in P BY <1>3, <1>4, <2>3
  <2> HIDE DEF a, p, d
  <2>6. a \o p \in P BY <1>4, <2>4, <2>5
  <2>7. AppendElement("CueTrackPositions", a \o p) \in P BY <1>3, <1>4, <2>6
  <2>8. d \o AppendElement("CueTrackPositions", a \o p) \in P BY <1>4, <2>4, <2>7
  <2>9. AppendElement("CuePoint", d \o AppendElement("CueTrackPositions", a \o p)) \in P BY <1>3, <1>4, <2>8
  <2> QED BY <2>9 DEF a, p, d, o
<1>6. CuesElement(offs) = AppendElement("Cues", FlattenSeq(g)) BY DEF CuesElement
<1>7. Stored \in Seq(T) BY StoredType
<1> HIDE DEF T, I, point
<1>8. indexed \in Seq(T)
  <2>1. \A i \in 1..Len(Stored) : i \in I => Stored[i] \in T BY <1>7
  <2> QED BY <1>7, <2>1, WhereType
<1> HIDE DEF indexed
<1>9. \A i \in 1..Len(indexed) : indexed[i] \in T /\ i \in DOMAIN indexed BY <1>8
<1>10. \A i \in 1..Len(indexed) : g[i] \in P BY <1>5, <1>9
<1>11. DOMAIN g = DOMAIN indexed /\ g = [i \in DOMAIN g |-> g[i]] OBVIOUS
<1> HIDE DEF g
<1>12. g \in Seq(P) BY <1>8, <1>10, <1>11, EachOf
<1>13. AppendElement("Cues", FlattenSeq(g)) \in P BY <1>3, <1>4, <1>12
<1> QED BY <1>6, <1>13 DEF P

-----------------------------------------------------------------------------
(* Where the clusters of the file are.                                        *)

FileClusters == FlattenSeq([k \in DOMAIN source |-> ClusterElement(k)])

LEMMA ClustersMade ==
  ASSUME SourceInv
  PROVE  /\ [k \in DOMAIN source |-> ClusterElement(k)] \in Seq(Seq(Cell))
         /\ Len([k \in DOMAIN source |-> ClusterElement(k)]) = Len(source)
         /\ \A k \in 1..Len(source) : [j \in DOMAIN source |-> ClusterElement(j)][k] = ClusterElement(k)
         /\ FileClusters \in Seq(Cell)
<1> DEFINE U == Seq(Cell)
           all == [k \in DOMAIN source |-> ClusterElement(k)]
<1>1. DOMAIN source = 1..Len(source) /\ Len(source) \in Nat
  <2> DEFINE T == TimedCluster
  <2>1. source \in Seq(T) BY DEF SourceInv
  <2> HIDE DEF T
  <2> QED BY <2>1
<1>2. \A k \in 1..Len(source) : ClusterElement(k) \in U BY ClusterElementType
<1> HIDE DEF U
<1>3. all \in [1..Len(source) -> U] BY <1>1, <1>2
<1>4. \A k \in 1..Len(source) : all[k] = ClusterElement(k) BY <1>1
<1> HIDE DEF all
<1>5. all \in Seq(U) /\ Len(all) = Len(source) BY <1>1, <1>3, FunctionIsSequence
<1>6. FlattenSeq(all) \in Seq(Cell) BY <1>5, FlattenType DEF U
<1> QED BY <1>4, <1>5, <1>6 DEF U, all, FileClusters

\* The file is its clusters between cells without another one.
MadeOf(h, u, w, v) == File = h \o (((u \o FileClusters) \o w) \o v)

FileMade == \E h, u, w, v \in Plain(InCluster) : MadeOf(h, u, w, v)

LEMMA FileIsMade ==
  ASSUME SourceInv
  PROVE  FileMade
<1> DEFINE track(n, type) ==
             AppendElement("TrackEntry", AppendUint("TrackNumber", n) \o AppendUint("TrackType", type))
           clusters == FileClusters
           start(k) == Len(FlattenSeq([j \in 1..(k - 1) |-> ClusterElement(j)]))
           seekHead0(pos) == IF format.cues = "back" THEN seekHead(<<<<"Cues", pos>>>>) ELSE <<>>
           duration == AppendUintWidth("Duration", Duration, Wide)
           info == AppendElement("Info", Junk("Void") \o AppendUint("TimestampScale", 1)
                     \o AppendUint("Title", 1) \o duration)
           tracks == AppendElement("Tracks", (IF format.noisy THEN track(AudioTrack, 2) ELSE <<>>)
                       \o track(VideoTrack, 1))
           attached == IF format.noisy THEN AppendElement("Attachments", <<Num(7), Num(8)>>) ELSE <<>>
           meta == info \o tracks \o attached
           index(first) == CuesElement([k \in DOMAIN source |-> first + start(k)])
           front == IF format.cues = "front" THEN Len(index(0)) ELSE 0
           first == Len(seekHead0(0)) + Len(meta) + front
           tail == Junk("Tags")
           place == first + Len(clusters) + Len(tail)
           before == seekHead0(place) \o meta \o (IF format.cues = "front" THEN index(first) ELSE <<>>)
           after == IF format.cues = "back" THEN index(first) ELSE <<>>
           body == ((before \o clusters) \o tail) \o after
           head == AppendElement("EBML", <<Num(4)>>) \o AppendSizeWidth("Segment", Len(body), Wide)
           P == Plain(InCluster)
           others == {"TrackEntry", "TrackNumber", "TrackType", "Cues", "Info", "Void", "TimestampScale", "Title",
                      "Duration", "Tracks", "Attachments", "Tags", "EBML", "Segment"}
<1>1. File = head \o body
  BY DEF File, FileClusters
<1>2. Wide \in Nat /\ Wide > 0 BY EbmlAssumption
<1>3. \A id \in others : id \in Ids /\ id \notin InCluster BY DEF Ids, InCluster
<1>4. PlainMade(InCluster) BY PlainCells
<1>5. /\ <<>> \in P
      /\ \A x, y \in P : x \o y \in P
      /\ \A c \in Cell : c.is # "head" => <<c>> \in P
      /\ \A id \in others : \A x \in P : AppendElement(id, x) \in P
      /\ \A id \in others : \A v \in Int : AppendUint(id, v) \in P
      /\ \A id \in others : \A v \in Int : AppendUintWidth(id, v, Wide) \in P
      /\ \A id \in others : \A n \in Int : AppendSizeWidth(id, n, Wide) \in P
  BY <1>2, <1>3, <1>4 DEF PlainMade
<1>6. P \subseteq Seq(Cell) BY DEF Plain
<1>7. \A id \in others : Junk(id) \in P BY <1>3, JunkMarks DEF Plain
<1> HIDE DEF P
<1>8. \A v \in Nat : <<Num(v)>> \in P
  <2>1. \A v \in Nat : Num(v) \in Cell /\ Num(v).is # "head" BY NewCells DEF Num
  <2> QED BY <1>5, <2>1
<1>9. <<Num(7), Num(8)>> \in P
  <2>1. <<Num(7)>> \o <<Num(8)>> \in P BY <1>5, <1>8
  <2>2. Num(7) \in Cell /\ Num(8) \in Cell BY NewCells
  <2>3. /\ <<Num(7)>> \o <<Num(8)>> = <<Num(7), Num(8)>>
        /\ <<Num(7)>> \o <<Num(7), Num(8)>> = <<Num(7), Num(7), Num(8)>>
    <3> DEFINE s == Num(7)
               e == Num(8)
               T == Cell
    <3>1. s \in T /\ e \in T BY <2>2
    <3> HIDE DEF s, e, T
    <3>2. <<s>> \o <<e>> = <<s, e>> /\ <<s>> \o <<s, e>> = <<s, s, e>> BY <3>1, TwoAndThree
    <3> QED BY <3>2 DEF s, e
  <2> QED BY <2>1, <2>3
<1>10. \A n, type \in Nat : track(n, type) \in P BY <1>5
<1>11. duration \in P
  <2>1. Duration \in Int BY DurationType
  <2> QED BY <2>1, <1>5
<1> HIDE DEF duration, track
<1>12. info \in P BY <1>5, <1>7, <1>11
<1>13. tracks \in P BY <1>5, <1>10 DEF AudioTrack, VideoTrack
<1>14. attached \in P BY <1>5, <1>9
<1> HIDE DEF info, tracks, attached
<1>15. meta \in P BY <1>5, <1>12, <1>13, <1>14
<1>16. DOMAIN source = 1..Len(source) /\ Len(source) \in Nat
  <2> DEFINE T == TimedCluster
  <2>1. source \in Seq(T) BY DEF SourceInv
  <2> HIDE DEF T
  <2> QED BY <2>1
<1>17. \A k \in 1..Len(source) : start(k) \in Nat
  <2> SUFFICES ASSUME NEW k \in 1..Len(source) PROVE start(k) \in Nat OBVIOUS
  <2> DEFINE m == k - 1
             earlier == [j \in 1..m |-> ClusterElement(j)]
             U == Seq(Cell)
  <2>1. m \in Nat /\ \A j \in 1..m : j \in 1..Len(source) BY <1>16
  <2>2. \A j \in 1..Len(source) : ClusterElement(j) \in U BY ClusterElementType
  <2>3. earlier \in [1..m -> U]
    <3> HIDE DEF U, m
    <3> QED BY <2>1, <2>2
  <2> HIDE DEF earlier
  <2>4. FlattenSeq(earlier) \in U
    <3> HIDE DEF m
    <3> QED BY <2>1, <2>3, FlattenOf
  <2>5. start(k) = Len(FlattenSeq(earlier)) BY DEF earlier
  <2>6. \A u \in U : Len(u) \in Nat OBVIOUS
  <2> HIDE DEF U, start
  <2> QED BY <2>4, <2>5, <2>6
<1> HIDE DEF start, meta
<1>18. \A o \in Int : index(o) \in P
  <2> SUFFICES ASSUME NEW o \in Int PROVE index(o) \in P OBVIOUS
  <2> DEFINE offs == [k \in DOMAIN source |-> o + start(k)]
  <2>1. \A k \in 1..Len(source) : offs[k] \in Int BY <1>16, <1>17
  <2> HIDE DEF offs
  <2>2. CuesElement(offs) \in Plain(HeadIds) BY <2>1, CuesPlain
  <2>3. \A x : Clear(x, HeadIds) => Clear(x, InCluster) BY DEF Clear, Marks, HeadIds, InCluster
  <2>4. CuesElement(offs) \in P BY <2>2, <2>3 DEF Plain, P
  <2> QED BY <2>4 DEF offs
<1> HIDE DEF index
<1>19. \A pos \in Int : seekHead0(pos) \in P
  <2> SUFFICES ASSUME NEW pos \in Int PROVE seekHead0(pos) \in P OBVIOUS
  <2> DEFINE T == Ids \X Int
             ps == <<<<"Cues", pos>>>>
  <2>1. <<"Cues", pos>> \in T BY <1>3
  <2> HIDE DEF T
  <2>2. ps \in Seq(T) BY <2>1
  <2>3. ps \in SeekPositions BY <2>2 DEF SeekPositions, T
  <2>4. InCluster \cap SeekIds = {} BY DEF InCluster, SeekIds
  <2> HIDE DEF ps
  <2>5. seekHead(ps) \in P BY <2>3, <2>4, SeekHeadPlain DEF P
  <2> QED BY <1>5, <2>5 DEF ps
<1> HIDE DEF seekHead0
<1>20. tail \in P BY <1>7
<1>21. clusters \in Seq(Cell) BY ClustersMade
<1> HIDE DEF tail, clusters
<1>22. \A x \in Seq(Cell) : Len(x) \in Int OBVIOUS
<1>23. front \in Int BY <1>6, <1>18, <1>22
<1> HIDE DEF front
<1>24. first \in Int /\ place \in Int
  <2>1. seekHead0(0) \in P BY <1>19
  <2>2. Len(seekHead0(0)) \in Int /\ Len(meta) \in Int /\ Len(tail) \in Int /\ Len(clusters) \in Int
    BY <1>6, <1>15, <1>20, <1>21, <1>22, <2>1
  <2> QED BY <1>23, <2>2
<1> HIDE DEF first, place
<1>25. before \in P /\ after \in P BY <1>5, <1>15, <1>18, <1>19, <1>24
<1> HIDE DEF before, after
<1>26. body \in Seq(Cell)
  <2> DEFINE U == Seq(Cell)
  <2>1. \A x, y \in U : x \o y \in U BY ConcatProperties
  <2>2. before \in U /\ clusters \in U /\ tail \in U /\ after \in U BY <1>6, <1>20, <1>21, <1>25
  <2> HIDE DEF U
  <2>3. body \in U BY <2>1, <2>2
  <2> QED BY <2>3 DEF U
<1>27. head \in P
  <2>1. Len(body) \in Int BY <1>22, <1>26
  <2> HIDE DEF body
  <2>2. AppendSizeWidth("Segment", Len(body), Wide) \in P BY <1>5, <2>1
  <2>3. AppendElement("EBML", <<Num(4)>>) \in P BY <1>5, <1>8
  <2> QED BY <1>5, <2>2, <2>3
<1> HIDE DEF head
<1>28. MadeOf(head, before, tail, after) BY <1>1 DEF MadeOf, body, clusters
<1> QED BY <1>20, <1>25, <1>27, <1>28 DEF FileMade, P

\* The clusters of the file, by number.
ClusterUnits == [k \in 1..Len(source) |-> ClusterElement(k)]

\* Every cluster header of the file starts one of its clusters, in their order.
LEMMA FileCarries ==
  ASSUME SourceInv
  PROVE  /\ Carries(File, InCluster, ClusterUnits, 1..Len(source))
         /\ File \in Seq(Cell)
<1> DEFINE all == [k \in DOMAIN source |-> ClusterElement(k)]
           E == [k \in 1..Len(source) |-> {k}]
           D == 1..Len(source)
           U == ClusterUnits
           C == Seq(Cell)
<1>1. /\ all \in Seq(Seq(Cell)) /\ Len(all) = Len(source) /\ FlattenSeq(all) = FileClusters /\ FileClusters \in C
      /\ \A k \in 1..Len(source) : all[k] = ClusterElement(k)
  BY ClustersMade DEF FileClusters
<1> HIDE DEF all
<1>2. ASSUME NEW k \in 1..Len(source)
      PROVE  Carries(all[k], InCluster, U, E[k]) /\ E[k] \subseteq D
  <2>1. ClusterMade(k) BY ClusterElementMade
  <2>2. all[k] \in Seq(Cell) /\ Marks(all[k], HeadIds) \subseteq {0} BY <1>1, <2>1 DEF ClusterMade
  <2>3. Marks(all[k], InCluster) \subseteq {0} BY <2>2 DEF Marks, InCluster, HeadIds
  <2>4. U[k] = all[k] BY <1>1 DEF ClusterUnits
  <2>5. Carries(all[k], InCluster, U, {k}) BY <2>2, <2>3, <2>4, CarriesUnit
  <2> QED BY <2>5
<1>3. \A i, j \in 1..Len(source) : i < j => Before(E[i], E[j]) BY DEF Before
<1> HIDE DEF E, D, U
<1>4. InOrder(all, InCluster, U, E, D) BY <1>1, <1>2, <1>3 DEF InOrder
<1>5. Carries(FileClusters, InCluster, U, D) BY <1>1, <1>4, CarriesFlatten
<1>6. FileMade BY FileIsMade
<1>7. PICK h, u, w, v \in Plain(InCluster) : MadeOf(h, u, w, v) BY <1>6 DEF FileMade
<1>8. /\ h \in C /\ u \in C /\ w \in C /\ v \in C
      /\ Clear(h, InCluster) /\ Clear(u, InCluster) /\ Clear(w, InCluster) /\ Clear(v, InCluster)
  BY DEF Plain
<1> DEFINE x == u \o FileClusters
           y == x \o w
           z == y \o v
<1>9. x \in C BY <1>1, <1>8, ConcatProperties
<1>10. Carries(x, InCluster, U, D) BY <1>1, <1>5, <1>8, CarriesAround
<1> HIDE DEF x
<1>11. y \in C BY <1>8, <1>9, ConcatProperties
<1>12. Carries(y, InCluster, U, D) BY <1>8, <1>9, <1>10, CarriesAround
<1> HIDE DEF y
<1>13. z \in C BY <1>8, <1>11, ConcatProperties
<1>14. Carries(z, InCluster, U, D) BY <1>8, <1>11, <1>12, CarriesAround
<1>15. File = h \o z BY <1>7 DEF MadeOf, z, y, x
<1> HIDE DEF z
<1>16. h \o z \in C BY <1>8, <1>13, ConcatProperties
<1>17. Carries(h \o z, InCluster, U, D) BY <1>8, <1>13, <1>14, CarriesAround
<1> QED BY <1>15, <1>16, <1>17 DEF U, D, C

\* A cluster of what there is of the file: the k-th one, which is read as it is.
SourceCluster(f, c, k) ==
  /\ k \in 1..Len(source) /\ ClusterMade(k) /\ c.off \in Nat
  /\ At(File, c.off, TimedElement(source[k].ts, RestOf(k)))
  /\ ClusterElement(k) = TimedElement(source[k].ts, RestOf(k))
  /\ ClusterRead(f, c, c.off, source[k].ts, RestOf(k))

LEMMA SourceClusterRead ==
  ASSUME NEW f, NEW p, NEW g, SourceInv, Prefix(f, File), Small(File), p \in Nat, readCluster(f, p).ok,
         Numbered(File, InCluster, ClusterUnits, 1..Len(source), g)
  PROVE  p \in Marks(File, InCluster) /\ SourceCluster(f, readCluster(f, p), g[p])
<1> DEFINE h == ReadHeaderAt(f, p)
           c == readCluster(f, p)
           k == g[p]
           t == source[k].ts
           rest == RestOf(k)
           F == File
<1>0. f \in Seq(Cell) /\ F \in Seq(Cell) BY DEF Prefix
<1>1. h.id = "Cluster" /\ h.size # UnknownSize
  <2> DEFINE kids == Walk(f, p + h.w, p + h.w + h.size, BlockIds)
  <2>1. c = clusterOf(f, p, h, kids) BY DEF readCluster
  <2> HIDE DEF kids, h
  <2> QED BY <2>1 DEF clusterOf
<1>2. c.off = p
  <2>1. c \in FileCluster(f) /\ c.off = p BY <1>0, ReadClusterType
  <2> QED BY <2>1
<1>3. HeaderHere(f, F, p, h) BY <1>1, HeadIsMark
<1>4. ReadHeaderAt(F, p) = h /\ p \in Marks(F, InCluster) BY <1>1, <1>3 DEF HeaderHere, InCluster
<1> HIDE DEF h
<1>5. k \in 1..Len(source) /\ At(F, p, ClusterUnits[k]) BY <1>4 DEF Numbered
<1> HIDE DEF k
<1>6. At(F, p, ClusterElement(k)) BY <1>5 DEF ClusterUnits
<1>7. ClusterMade(k) BY <1>5, ClusterElementMade
<1>8. rest \in Seq(Cell) /\ t \in Nat /\ Clear(rest, {"Timestamp"}) BY <1>7 DEF ClusterMade, RestMade
<1>9. ~format.live
  <2> SUFFICES ASSUME format.live PROVE FALSE OBVIOUS
  <2> DEFINE x == TimedBody(t, rest)
  <2>1. ClusterElement(k) = AppendSizeWidth("Cluster", Pow(SizeBase, Wide) - 1, Wide) \o x BY <1>7 DEF ClusterMade
  <2>2. TimedMade(t, rest) BY <1>8, TimedMarks
  <2>3. x \in Seq(Cell) BY <2>2 DEF TimedMade
  <2> HIDE DEF x, F
  <2>4. h.id = "bad" \/ h.size = UnknownSize BY <1>0, <1>4, <1>6, <2>1, <2>3, LiveHeadRead DEF F
  <2> QED BY <1>1, <2>4
<1>10. ClusterElement(k) = TimedElement(t, rest) BY <1>7, <1>9 DEF ClusterMade
<1>11. ClusterRead(f, c, p, t, rest)
  <2>1. At(F, p, TimedElement(t, rest)) BY <1>6, <1>10
  <2> HIDE DEF rest, t
  <2> QED BY <1>8, <2>1, ClusterReads
<1> QED BY <1>2, <1>4, <1>5, <1>6, <1>7, <1>10, <1>11 DEF SourceCluster, k

\* What a block says that is read as the n-th stored one, in a cluster with a timestamp t that
\* is read as t0.
UnitSays(b, blk, n, t, t0) ==
  BlockSays(b, blk, blk.off, Stored[n].at, Stored[n].track, Stored[n].time - t, t0)

\* Blocks that are read as the stored ones with these numbers, in their order.
ReadAs(b, blocks, t, t0, D, m) ==
  \A j \in 1..Len(blocks) :
    /\ m[j] \in D /\ At(b, blocks[j].off, Units(t)[m[j]]) /\ UnitSays(b, blocks[j], m[j], t, t0)
    /\ \A i \in 1..Len(blocks) : j < i => m[j] < m[i]

AllRead(b, blocks, t, t0, D) == \E m : ReadAs(b, blocks, t, t0, D, m)

\* Blocks that are stored and can be said in a cluster with a timestamp t.
Sayable(t, D) == D \subseteq 1..Len(Stored) /\ \A n \in D : FitsRel(Stored[n].time - t)

LEMMA StoredTypes ==
  ASSUME SourceInv, NEW n, n \in 1..Len(Stored)
  PROVE  Stored[n].at \in Nat \X Nat /\ Stored[n].track \in Nat /\ Stored[n].time \in Nat
<1> DEFINE T == SourceBlock
<1>1. Stored \in Seq(T) BY StoredType
<1> HIDE DEF T
<1>2. Stored[n] \in T BY <1>1
<1>3. \A x \in 0..MaxTime : x \in Nat BY CutAssumption
<1> QED BY <1>2, <1>3 DEF T, SourceBlock

\* A block that is read from its element at a unit.
LEMMA UnitReads ==
  ASSUME NEW b, NEW F, NEW c, NEW e, NEW n, NEW t, NEW t0, SourceInv, Prefix(b, F), Small(F), t \in Int,
         n \in 1..Len(Stored), FitsRel(Stored[n].time - t), e \in Elem, e.id # "bad", HeadedBy(b, e), e.to <= Len(b),
         At(F, e.from, Units(t)[n]), c.timestamp = t0
  PROVE  /\ UnitSays(b, blockOf(b, c, e, payload(b, e).data), n, t, t0)
         /\ At(b, e.from, Units(t)[n]) /\ blockOf(b, c, e, payload(b, e).data).off = e.from
<1> DEFINE v == Stored[n].time - t
           at == Stored[n].at
           track == Stored[n].track
           u == Block(at, track, v)
<1>1. at \in Nat \X Nat /\ track \in Nat /\ v \in Int
  <2>1. Stored[n].time \in Int BY StoredTypes
  <2> QED BY <2>1, StoredTypes
<1>2. Units(t)[n] = u BY DEF Units
<1>3. FitsRel(v) OBVIOUS
<1>4. b \in Seq(Cell) /\ F \in Seq(Cell) /\ Len(b) <= Len(F) /\ Len(b) \in Nat /\ Len(F) \in Nat BY DEF Prefix
<1>5. Small(b)
  <2> DEFINE x == Pow(SizeBase, Wide) - 1
  <2>1. x \in Int
    <3>1. SizeBase \in Nat /\ SizeBase > 0 /\ Wide \in Nat BY EbmlAssumption
    <3>2. Pow(SizeBase, Wide) \in Nat BY <3>1, PowNat
    <3> QED BY <3>2
  <2>2. Len(F) < x BY DEF Small
  <2> HIDE DEF x
  <2>3. Len(b) < x BY <1>4, <2>1, <2>2
  <2> QED BY <2>3 DEF x, Small
<1> HIDE DEF v, at, track
<1>6. u \in Seq(Cell)
  <2>1. BlockMade(at, track, v) BY <1>1, BlockParts
  <2> QED BY <2>1 DEF BlockMade
<1>7. e.from \in Nat /\ e.to \in Nat /\ e.data \in Nat BY DEF Elem
<1>8. HeadedBy(F, e)
  <2>1. ReadHeaderAt(b, e.from).id = e.id BY DEF HeadedBy
  <2>2. HeaderHere(b, F, e.from, ReadHeaderAt(b, e.from)) BY <1>7, <2>1, HeadIsMark
  <2>3. ReadHeaderAt(F, e.from) = ReadHeaderAt(b, e.from) BY <2>2 DEF HeaderHere
  <2> QED BY <2>3 DEF HeadedBy
<1>9. At(F, e.from, u) BY <1>2
<1>10. PlacedSays(F, c, e, at, track, v) BY <1>1, <1>3, <1>4, <1>8, <1>9, BlockReads
<1>11. e.to - e.from = Len(u)
  <2>1. blockOf(F, c, e, payload(F, e).data).len = e.to - e.from BY DEF blockOf
  <2> QED BY <1>10, <2>1 DEF PlacedSays, BlockSays
<1> HIDE DEF u
<1>12. At(b, e.from, u)
  <2>1. Len(u) \in Nat BY <1>6
  <2>2. e.from + Len(u) <= Len(b) BY <1>4, <1>7, <1>11, <2>1
  <2> QED BY <1>6, <1>9, <2>2, PrefixAt
<1>13. PlacedSays(b, c, e, at, track, v) BY <1>1, <1>3, <1>4, <1>5, <1>12, BlockReads DEF u
<1>14. blockOf(b, c, e, payload(b, e).data).off = e.from BY DEF blockOf
<1> QED BY <1>2, <1>12, <1>13, <1>14 DEF PlacedSays, UnitSays, v, at, track

\* What is read from a cluster that carries some of the stored blocks is these, in their order.
LEMMA BlocksReadAs ==
  ASSUME NEW b, NEW F, NEW p, NEW rest, NEW t, NEW t0, NEW D, NEW c,
         SourceInv, Prefix(b, F), Small(F), p \in Nat, t \in Int, t0 \in Nat, rest \in Seq(Cell),
         Clear(rest, {"Timestamp"}), At(F, p, TimedElement(t0, rest)),
         Carries(rest, BlockIds, Units(t), D), Sayable(t, D), D # {} => t0 < Pow(UintBase, Wide),
         ClusterRead(b, c, p, t0, rest), c \in FileCluster(b), c.ok, readBlocks(b, c).ok
  PROVE  AllRead(b, readBlocks(b, c).blocks, t, t0, D)
<1> DEFINE blocks == readBlocks(b, c).blocks
           x == TimedElement(t0, rest)
           U == Units(t)
<1>0. b \in Seq(Cell) /\ F \in Seq(Cell) /\ Len(b) <= Len(F) /\ Len(b) \in Nat /\ Len(F) \in Nat
      /\ \A i \in 1..Len(b) : b[i] = F[i]
  BY DEF Prefix
<1>1. x \in Seq(Cell)
  <2>1. TimedMade(t0, rest) BY TimedMarks
  <2> QED BY <2>1 DEF TimedMade
<1>2. Carries(x, BlockIds, U, D) BY TimedCarries
<1>3. /\ c.end = p + Len(x) /\ p + Wide <= c.blocks /\ c.blocks \in Nat
      /\ c.blocks # c.end => Timely(c, t0)
  BY DEF ClusterRead
<1>4. Wide \in Nat BY EbmlAssumption
<1>5. (c.blocks = c.end \/ c.end <= Len(b)) /\ c.end \in Int
  <2>1. c.blocks = c.end \/ c.end <= Len(b) BY <1>0, ReadBlocksType
  <2> QED BY <2>1 DEF FileCluster
<1>6. BlocksIn(b, c, blocks) BY <1>0, ReadBlocksIn
<1> HIDE DEF x, U, blocks
<1>7. PICK g : Numbered(x, BlockIds, U, D, g) BY <1>2 DEF Carries
<1>8. PICK es : \A i \in 1..Len(blocks) :
                  /\ BlockIn(b, c, blocks[i], es[i])
                  /\ \A j \in 1..Len(blocks) : i < j => es[i].from < es[j].from
  BY <1>6 DEF BlocksIn
<1> DEFINE m == [j \in 1..Len(blocks) |-> g[es[j].from - p]]
<1>9. ASSUME NEW j \in 1..Len(blocks)
      PROVE  /\ es[j].from - p \in Marks(x, BlockIds) /\ es[j].from \in Nat /\ m[j] = g[es[j].from - p]
             /\ m[j] \in D /\ At(b, blocks[j].off, U[m[j]]) /\ UnitSays(b, blocks[j], m[j], t, t0)
  <2> DEFINE e == es[j]
             q == e.from
  <2>1. BlockIn(b, c, blocks[j], e) BY <1>8
  <2> HIDE DEF e
  <2>2. /\ e \in Elem /\ e.id \in BlockIds /\ HeadedBy(b, e) /\ q \in Marks(b, BlockIds)
        /\ c.blocks <= q /\ q < c.end /\ e.to <= c.end
        /\ blocks[j] = blockOf(b, c, e, payload(b, e).data)
    BY <2>1 DEF BlockIn
  <2>3. q \in Nat /\ e.to \in Nat BY <2>2 DEF Elem
  <2> HIDE DEF q
  <2>4. q \in Marks(F, BlockIds)
    <3>1. q \in 0..(Len(b) - 1) /\ b[q + 1].is = "head" /\ b[q + 1].id \in BlockIds BY <2>2 DEF Marks
    <3>2. q + 1 \in 1..Len(b) /\ q \in 0..(Len(F) - 1) BY <1>0, <3>1
    <3>3. b[q + 1] = F[q + 1] BY <1>0, <3>2
    <3> QED BY <3>1, <3>2, <3>3 DEF Marks
  <2>5. p <= q /\ q < p + Len(x) BY <1>3, <1>4, <2>2, <2>3
  <2>6. q - p \in Marks(x, BlockIds) BY <1>0, <1>1, <2>4, <2>5, MarkAt DEF x
  <2> DEFINE n == g[q - p]
  <2>7. n \in D /\ U[n] \in Seq(Cell) /\ At(x, q - p, U[n]) BY <1>7, <2>6 DEF Numbered
  <2> HIDE DEF n
  <2>8. At(F, q, U[n])
    <3> DEFINE u == U[n]
    <3>1. u \in Seq(Cell) /\ At(x, q - p, u) /\ At(F, p, x) BY <2>7 DEF x
    <3> HIDE DEF u
    <3>2. At(F, p + (q - p), u) BY <1>0, <1>1, <3>1, AtWithin
    <3>3. p + (q - p) = q BY <2>3
    <3> QED BY <3>2, <3>3 DEF u
  <2>9. n \in 1..Len(Stored) /\ FitsRel(Stored[n].time - t) /\ D # {} BY <2>7 DEF Sayable
  <2>10. c.timestamp = t0
    <3>1. c.blocks # c.end BY <1>3, <1>5, <2>2, <2>3
    <3> QED BY <1>3, <2>9, <3>1 DEF Timely
  <2>11. e.id # "bad" /\ e.to <= Len(b)
    <3>1. e.to <= Len(b) BY <1>0, <1>5, <2>2, <2>3
    <3> QED BY <2>2, <3>1 DEF BlockIds
  <2>12. /\ UnitSays(b, blockOf(b, c, e, payload(b, e).data), n, t, t0) /\ At(b, q, U[n])
         /\ blockOf(b, c, e, payload(b, e).data).off = q
    <3>1. At(F, e.from, Units(t)[n]) BY <2>8 DEF U, q
    <3>2. /\ UnitSays(b, blockOf(b, c, e, payload(b, e).data), n, t, t0)
          /\ At(b, e.from, Units(t)[n]) /\ blockOf(b, c, e, payload(b, e).data).off = e.from
      BY <2>2, <2>9, <2>10, <2>11, <3>1, UnitReads
    <3> QED BY <3>2 DEF q, U
  <2>13. m[j] = n /\ q = es[j].from BY DEF n, q, e
  <2> HIDE DEF m
  <2> QED BY <2>2, <2>3, <2>6, <2>7, <2>12, <2>13 DEF n
<1>10. ASSUME NEW j \in 1..Len(blocks), NEW i \in 1..Len(blocks), j < i PROVE m[j] < m[i]
  <2> HIDE DEF m
  <2>1. es[j].from < es[i].from BY <1>8, <1>10
  <2>2. es[j].from - p < es[i].from - p
    <3>1. es[j].from \in Nat /\ es[i].from \in Nat BY <1>9
    <3> QED BY <2>1, <3>1
  <2> QED BY <1>7, <1>9, <2>2 DEF Numbered
<1> HIDE DEF m
<1>11. ReadAs(b, blocks, t, t0, D, m) BY <1>9, <1>10 DEF ReadAs, U
<1> QED BY <1>11 DEF AllRead, blocks

-----------------------------------------------------------------------------
(* What a cluster has after its timestamp.                                    *)

BlockUnits == {Block(at, track, v) : at \in Nat \X Nat, track \in Nat, v \in Int}

BodyUnits == BlockUnits \cup Spares

\* A unit wherever it is.
UnitFacts(b, x) ==
  /\ x \in Seq(Cell) /\ Framed(b, x, HeadId(x)) /\ HeadId(x) \in BodyIds /\ Marks(x, BlockIds) \subseteq {0}
  /\ HeadId(x) \in BlockIds => x \in BlockUnits
  /\ Clear(x, {"Timestamp"}) /\ Clear(x, InCluster)

LEMMA BodyUnitFacts ==
  ASSUME NEW b, NEW x, b \in Seq(Cell), Small(b), x \in BodyUnits
  PROVE  UnitFacts(b, x)
<1>1. {"SimpleBlock", "Block", "BlockGroup", "BlockDuration", "PrevSize", "Void"} \subseteq Ids BY DEF Ids
<1>2. CASE x \in BlockUnits
  <2>1. PICK at \in Nat \X Nat, track \in Nat, v \in Int : x = Block(at, track, v) BY <1>2 DEF BlockUnits
  <2>2. BlockMarked(at, track, v) BY BlockMarks
  <2>3. BlockMade(at, track, v) BY BlockParts
  <2>4. x \in Seq(Cell) /\ Marks(x, BlockIds) \subseteq {0} BY <2>1, <2>2, <2>3 DEF BlockMade, BlockMarked
  <2>5. Clear(x, {"Timestamp"}) /\ Clear(x, InCluster)
    <3>1. {"Timestamp"} \cap InBlock = {} /\ InCluster \cap InBlock = {} BY DEF InBlock, InCluster
    <3> QED BY <2>1, <2>2, <3>1 DEF BlockMarked
  <2>6. Framed(b, x, HeadId(x)) /\ HeadId(x) \in BlockIds
    <3> DEFINE data == Payload(at, track, v)
    <3>1. data \in Seq(Cell) /\ Lasts \in Seq(Cell) BY <2>3 DEF BlockMade
    <3>2. CASE track = VideoTrack
      <4>1. x = AppendElement("SimpleBlock", data) BY <2>1, <3>2 DEF Block
      <4> HIDE DEF data
      <4>2. "SimpleBlock" \in Ids /\ "SimpleBlock" # "bad" BY <1>1
      <4> QED BY <3>1, <4>1, <4>2, UnitIsFramed DEF BlockIds
    <3>3. CASE track # VideoTrack
      <4> DEFINE z == AppendElement("Block", data)
                 inner == z \o Lasts
      <4>1. x = AppendElement("BlockGroup", inner) BY <2>1, <3>3 DEF Block
      <4>2. inner \in Seq(Cell)
        <5> HIDE DEF data
        <5>1. z \in Seq(Cell) BY <1>1, <3>1, ElementType
        <5> HIDE DEF z
        <5> QED BY <3>1, <5>1
      <4> HIDE DEF inner
      <4>3. "BlockGroup" \in Ids /\ "BlockGroup" # "bad" BY <1>1
      <4> QED BY <4>1, <4>2, <4>3, UnitIsFramed DEF BlockIds
    <3> QED BY <3>2, <3>3
  <2> QED BY <1>2, <2>4, <2>5, <2>6 DEF UnitFacts, BodyIds
<1>3. CASE x \in Spares
  <2>1. PICK id \in SpareIds : x = AppendElement(id, <<Num(1)>>) BY <1>3 DEF Spares
  <2> DEFINE data == <<Num(1)>>
  <2>2. id \in Ids /\ id # "bad" /\ id \notin BlockIds /\ id \notin {"Timestamp"} /\ id \notin InCluster
    BY <1>1 DEF SpareIds, BlockIds, InCluster
  <2>3. Num(1) \in Cell /\ Num(1).is # "head"
    <3>1. Num(1) \in Cell BY NewCells
    <3>2. Num(1).is = "num" BY DEF Num
    <3> QED BY <3>1, <3>2
  <2>4. data \in Seq(Cell) BY <2>3
  <2>5. \A ids : Clear(data, ids) BY <2>3, OneMark
  <2> HIDE DEF data
  <2>6. \A ids : id \notin ids => Clear(x, ids) BY <2>1, <2>2, <2>4, <2>5, ElementMarks DEF data
  <2>7. x \in Seq(Cell) BY <2>1, <2>2, <2>4, ElementMarks, <2>5 DEF data
  <2>8. Framed(b, x, HeadId(x)) /\ HeadId(x) = id BY <2>1, <2>2, <2>4, UnitIsFramed DEF data
  <2>9. Marks(x, BlockIds) \subseteq {0} BY <2>2, <2>6 DEF Clear
  <2> QED BY <2>2, <2>6, <2>7, <2>8, <2>9 DEF UnitFacts, BodyIds
<1> QED BY <1>2, <1>3 DEF BodyUnits

\* A block can be read from its element wherever it is.
LEMMA BlockReadable ==
  ASSUME NEW b, NEW e, NEW x, b \in Seq(Cell), Small(b), e \in Elem, HeadedBy(b, e), x \in BlockUnits, At(b, e.from, x)
  PROVE  ReadableBlock(b, e)
<1>0. PICK at \in Nat \X Nat, track \in Nat, v \in Int : x = Block(at, track, v) BY DEF BlockUnits
<1> DEFINE data == Payload(at, track, v)
<1>1. {"SimpleBlock", "Block", "BlockGroup", "BlockDuration"} \subseteq Ids BY DEF Ids
<1>2. data \in Seq(Cell) /\ Len(data) = 3 /\ Lasts \in Seq(Cell) BY BlockParts DEF BlockMade
<1>3. CASE track = VideoTrack
  <2>1. x = AppendElement("SimpleBlock", data) BY <1>0, <1>3 DEF Block
  <2> HIDE DEF data
  <2>2. PayloadIs(b, e, data) BY <1>1, <1>2, <2>1, PayloadPlaced
  <2>3. e.id = "SimpleBlock"
    <3> DEFINE z == AppendElement("SimpleBlock", data)
    <3>1. Reads(b, e.from, "SimpleBlock", data, e.from + Len(z)) BY <1>1, <1>2, <2>1, ElementAt
    <3> HIDE DEF z
    <3> QED BY <3>1 DEF Reads, HeadedBy
  <2>4. payload(b, e) = e BY <2>3 DEF payload
  <2>5. e.to = e.data + 3 /\ e.data \in Nat BY <1>2, <2>2 DEF PayloadIs
  <2>6. e.to - e.data >= 3 BY <2>5
  <2> QED BY <2>3, <2>4, <2>6 DEF ReadableBlock
<1>4. CASE track # VideoTrack
  <2> DEFINE z == AppendElement("Block", data)
             l == Lasts
             inner == z \o l
             ss == <<z, l>>
             ids == <<"Block", "BlockDuration">>
             kids == Children(b, e)
             U == Seq(Cell)
  <2>1. x = AppendElement("BlockGroup", inner) BY <1>0, <1>4 DEF Block
  <2>2. z \in U /\ l \in U
    <3> HIDE DEF data
    <3>1. z \in Seq(Cell) BY <1>1, <1>2, ElementType
    <3> QED BY <1>2, <3>1
  <2>3. inner \in U
    <3> HIDE DEF z
    <3> QED BY <2>2
  <2>4. Framed(b, z, "Block") /\ Framed(b, l, "BlockDuration")
    <3> HIDE DEF data
    <3>1. Framed(b, z, "Block")
      <4>1. "Block" \in Ids /\ "Block" # "bad" BY <1>1
      <4> QED BY <1>2, <4>1, FramedElement
    <3>2. Framed(b, l, "BlockDuration")
      <4>1. "BlockDuration" \in Ids /\ "BlockDuration" # "bad" /\ 1 \in Int BY <1>1
      <4>2. Says(Lasts, "BlockDuration", 1) BY <4>1, UintSays DEF Lasts
      <4>3. PICK u \in Nat, w \in 1..Wide : Lasts = AppendElement("BlockDuration", Cells(Num(u), w))
        BY <4>2 DEF Says
      <4> DEFINE k == Cells(Num(u), w)
      <4>4. k \in Seq(Cell)
        <5>1. Num(u) \in Cell /\ w \in Nat BY NewCells, EbmlAssumption
        <5> QED BY <5>1, CellsType
      <4> HIDE DEF k
      <4>5. Framed(b, AppendElement("BlockDuration", k), "BlockDuration") BY <4>1, <4>4, FramedElement
      <4> QED BY <4>3, <4>5 DEF k
    <3> QED BY <3>1, <3>2
  <2> HIDE DEF z, l, U
  <2>5. ss \in Seq(U) /\ Len(ss) = 2 /\ ss[1] = z /\ ss[2] = l BY <2>2
  <2>6. FlattenSeq(ss) = inner
    <3>1. <<z>> \in Seq(U) /\ ss = Append(<<z>>, l) BY <2>2
    <3>2. FlattenSeq(Append(<<z>>, l)) = FlattenSeq(<<z>>) \o l BY <2>2, <3>1, FlattenAppend DEF U
    <3>3. FlattenSeq(<<z>>) = z BY <2>2, FlattenSingle DEF U
    <3> QED BY <3>1, <3>2, <3>3
  <2>7. \A i \in 1..Len(ss) : Framed(b, ss[i], ids[i]) /\ ids[i] # "bad"
    <3>1. 1..Len(ss) = {1, 2} BY <2>5
    <3>2. ids[1] = "Block" /\ ids[2] = "BlockDuration" OBVIOUS
    <3> HIDE DEF ss, ids
    <3> QED BY <2>4, <2>5, <3>1, <3>2
  <2>8. ids[1] = "Block" /\ ids[2] = "BlockDuration" OBVIOUS
  <2> HIDE DEF ss, ids, inner, data
  <2>9. At(b, e.from, AppendElement("BlockGroup", inner)) BY <2>1
  <2>10. ss \in Seq(Seq(Cell)) /\ inner \in Seq(Cell) BY <2>3, <2>5 DEF U
  <2>12. Held(b, kids, ss, ids, e.to) /\ e.to <= Len(b)
    <3>1. At(b, e.from, AppendElement("BlockGroup", FlattenSeq(ss))) BY <2>6, <2>9
    <3> QED BY <1>1, <2>7, <2>10, <3>1, ChildrenHold
  <2> HIDE DEF kids
  <2>14. /\ Len(kids) = 2 /\ kids \in Seq(Elem)
         /\ kids[1] \in Elem /\ kids[1].id = "Block" /\ HeadedBy(b, kids[1]) /\ At(b, kids[1].from, z)
         /\ kids[2] \in Elem /\ kids[2].id = "BlockDuration" /\ kids[1].to <= e.to /\ kids[2].to <= e.to
    <3>1. 1 \in 1..Len(ss) /\ 2 \in 1..Len(ss) BY <2>5
    <3> QED BY <2>5, <2>8, <2>12, <3>1 DEF Held
  <2>16. DOMAIN kids = {1, 2}
    <3> DEFINE T == Elem
    <3>1. kids \in Seq(T) BY <2>14
    <3> HIDE DEF T
    <3>2. DOMAIN kids = 1..2 BY <2>14, <3>1
    <3> QED BY <3>2
  <2>17. LastOf(kids, "Block") = kids[1] /\ Has(kids, "Block")
    <3>1. Has(kids, "Block") BY <2>14, <2>16 DEF Has
    <3>2. LastFound(kids, "Block") BY <2>14, <3>1, LastIsOne
    <3>3. 1..Len(kids) = {1, 2} BY <2>14
    <3> QED BY <2>14, <3>1, <3>2, <3>3 DEF LastFound
  <2> DEFINE k == kids[1]
  <2>18. PayloadIs(b, k, data) BY <1>1, <1>2, <2>14, PayloadPlaced DEF z
  <2>19. e.id = "BlockGroup"
    <3> DEFINE q == AppendElement("BlockGroup", inner)
    <3>1. Reads(b, e.from, "BlockGroup", inner, e.from + Len(q)) BY <1>1, <2>9, <2>10, ElementAt
    <3> HIDE DEF q
    <3> QED BY <3>1 DEF Reads, HeadedBy
  <2>20. payload(b, e) = k BY <2>17, <2>19 DEF payload, kids
  <2> HIDE DEF k
  <2>21. k.to = k.data + 3 /\ k.data \in Nat BY <1>2, <2>18 DEF PayloadIs
  <2>22. k.to - k.data >= 3 BY <2>21
  <2>23. Intact(b, e)
    <3>1. /\ kids[1].id # "bad" /\ kids[2].id # "bad" BY <2>14
    <3>2. kids[1].to \in Nat /\ kids[2].to \in Nat /\ e.to \in Nat
      <4>1. kids[2] \in Elem BY <2>14
      <4> QED BY <2>14, <4>1 DEF Elem
    <3>3. ~(kids[1].to > e.to) /\ ~(kids[2].to > e.to) BY <2>14, <3>2
    <3>4. ~Malformed(kids, e.to) BY <2>16, <3>1, <3>3 DEF Malformed
    <3> QED BY <3>4 DEF Intact, kids
  <2> QED BY <2>17, <2>20, <2>22, <2>23 DEF ReadableBlock, kids
<1> QED BY <1>3, <1>4

\* The elements of a cluster: its timestamp and the units after it.
RowOf(b, row, t, rest) ==
  /\ row \in Seq(Seq(Cell)) /\ Len(row) \in Nat /\ Len(row) > 0
  /\ FlattenSeq(row) = TimedBody(t, rest) /\ row[1] = AppendUint("Timestamp", t)
  /\ HeadId(row[1]) = "Timestamp" /\ Framed(b, row[1], "Timestamp")
  /\ \A i \in 2..Len(row) : row[i] \in BodyUnits /\ UnitFacts(b, row[i])
  /\ rest \in Seq(Cell) /\ Clear(rest, {"Timestamp"})

HasRow(b, t, rest) == \E row : RowOf(b, row, t, rest)

LEMMA ClusterRow ==
  ASSUME NEW b, NEW t, NEW rest, b \in Seq(Cell), Small(b), t \in Int, rest \in Chains(BodyUnits)
  PROVE  HasRow(b, t, rest)
<1>1. PICK ss \in Seq(BodyUnits) : rest = FlattenSeq(ss) BY DEF Chains
<1> DEFINE W == BodyUnits
           U == Seq(Cell)
           ts == AppendUint("Timestamp", t)
           row == <<ts>> \o ss
<1>2. \A x \in W : UnitFacts(b, x) BY BodyUnitFacts
<1>3. W \subseteq U BY <1>2 DEF UnitFacts
<1>4. ts \in U /\ HeadId(ts) = "Timestamp" /\ Framed(b, ts, "Timestamp")
  <2>1. "Timestamp" \in Ids /\ "Timestamp" # "bad" BY DEF Ids
  <2> QED BY <2>1, UintType, UintFramed
<1> HIDE DEF U, W, ts
<1>5. ss \in Seq(W) BY DEF W
<1>6. ss \in Seq(U) /\ <<ts>> \in Seq(U) /\ Len(ss) \in Nat BY <1>3, <1>4, <1>5
<1>7. FlattenSeq(row) = ts \o rest
  <2>1. FlattenSeq(<<ts>>) = ts BY <1>4, FlattenSingle DEF U
  <2>3. ss \in Seq(Seq(Cell)) /\ <<ts>> \in Seq(Seq(Cell)) BY <1>6 DEF U
  <2> DEFINE one == <<ts>>
  <2>4. one \in Seq(Seq(Cell)) BY <2>3
  <2> HIDE DEF one
  <2>2. FlattenSeq(one \o ss) = FlattenSeq(one) \o FlattenSeq(ss) BY <2>3, <2>4, FlattenConcat
  <2> QED BY <1>1, <2>1, <2>2 DEF one
<1>8. row \in Seq(U) /\ Len(row) = 1 + Len(ss) /\ row[1] = ts /\ \A i \in 2..Len(row) : row[i] \in W
  <2>1. Joined(U, <<ts>>, ss) BY <1>6, ConcatJoins
  <2>2. Len(<<ts>>) = 1 OBVIOUS
  <2>3. /\ row \in Seq(U) /\ Len(row) = 1 + Len(ss) /\ (\A i \in 1..1 : row[i] = <<ts>>[i])
        /\ \A i \in 1..Len(ss) : row[1 + i] = ss[i]
    BY <2>1, <2>2 DEF Joined
  <2> HIDE DEF row
  <2>4. row[1] = ts BY <2>3
  <2>5. ASSUME NEW i \in 2..Len(row) PROVE row[i] \in W
    <3> DEFINE j == i - 1
    <3>1. j \in 1..Len(ss) /\ 1 + j = i BY <1>6, <2>3
    <3> HIDE DEF j
    <3>2. row[i] = ss[j] BY <2>3, <3>1
    <3>3. ss[j] \in W BY <1>5, <3>1
    <3> QED BY <3>2, <3>3
  <2> QED BY <2>3, <2>4, <2>5
<1>9. rest \in Seq(Cell) /\ Clear(rest, {"Timestamp"})
  <2>1. ss \in Seq(Seq(Cell)) BY <1>6 DEF U
  <2>2. \A i \in 1..Len(ss) : ss[i] \in W BY <1>5
  <2>3. \A i \in 1..Len(ss) : Clear(ss[i], {"Timestamp"}) BY <1>2, <2>2 DEF UnitFacts
  <2> QED BY <1>1, <2>1, <2>3, ClearFlatten, FlattenType
<1> HIDE DEF row
<1>10. RowOf(b, row, t, rest)
  <2>1. FlattenSeq(row) = TimedBody(t, rest) BY <1>7 DEF TimedBody, ts
  <2>2. Len(row) \in Nat /\ Len(row) > 0 BY <1>6, <1>8
  <2>3. row \in Seq(Seq(Cell)) BY <1>8 DEF U
  <2>4. \A i \in 2..Len(row) : row[i] \in BodyUnits /\ UnitFacts(b, row[i]) BY <1>2, <1>8 DEF W
  <2>5. row[1] = AppendUint("Timestamp", t) BY <1>8 DEF ts
  <2> QED BY <1>4, <1>8, <1>9, <2>1, <2>2, <2>3, <2>4, <2>5 DEF RowOf
<1> QED BY <1>10 DEF HasRow

LEMMA RowFirsts ==
  ASSUME NEW b, NEW t, NEW rest, NEW row, RowOf(b, row, t, rest)
  PROVE  /\ \E k : FirstsEnd(row, k)
         /\ \A i \in 1..Len(row) : Framed(b, row[i], RowIds(row)[i]) /\ RowIds(row)[i] \in BodyIds \cup {"Timestamp"}
         /\ RowIds(row)[1] = "Timestamp"
<1> DEFINE n == Len(row)
           ids == RowIds(row)
           stops == {i \in 1..n : ids[i] \in BlockIds}
<1>1. n \in Nat /\ n > 0 BY DEF RowOf
<1>2. \A i \in 1..n : ids[i] = HeadId(row[i]) BY DEF RowIds
<1> HIDE DEF ids
<1>3. ids[1] = "Timestamp" BY <1>1, <1>2 DEF RowOf
<1>4. ASSUME NEW i \in 1..n PROVE Framed(b, row[i], ids[i]) /\ ids[i] \in BodyIds \cup {"Timestamp"}
  <2>1. CASE i = 1 BY <1>3, <2>1 DEF RowOf
  <2>2. CASE i # 1
    <3>1. i \in 2..n BY <1>1, <2>2
    <3>2. UnitFacts(b, row[i]) BY <3>1 DEF RowOf
    <3> QED BY <1>2, <3>2 DEF UnitFacts
  <2> QED BY <2>1, <2>2
<1>5. \E k : FirstsEnd(row, k)
  <2>1. CASE stops = {}
    <3>1. FirstsEnd(row, n) BY <1>1, <2>1 DEF FirstsEnd, ids
    <3> QED BY <3>1
  <2>2. CASE stops # {}
    <3> DEFINE m == Min(stops)
    <3>1. stops \subseteq Nat BY <1>1
    <3> HIDE DEF stops
    <3>2. m \in stops /\ \A j \in stops : m <= j BY <2>2, <3>1, SmallestNumber
    <3> HIDE DEF m
    <3>3. m \in 1..n /\ ids[m] \in BlockIds BY <3>2 DEF stops
    <3>4. m # 1 BY <1>3, <3>3 DEF BlockIds
    <3> DEFINE k == m - 1
    <3>5. k \in 1..n /\ k + 1 = m /\ k < n /\ k \in Nat BY <1>1, <3>3, <3>4
    <3>6. ASSUME NEW i \in 1..k PROVE ids[i] \notin BlockIds
      <4>1. i \in 1..n /\ ~(m <= i) BY <1>1, <3>3, <3>5
      <4> QED BY <3>2, <4>1 DEF stops
    <3> HIDE DEF k
    <3>7. FirstsEnd(row, k) BY <3>3, <3>5, <3>6 DEF FirstsEnd, ids
    <3> QED BY <3>7
  <2> QED BY <2>1, <2>2
<1> QED BY <1>3, <1>4, <1>5 DEF ids

LEMMA TimedKids ==
  ASSUME NEW b, NEW p, NEW t, NEW rest, NEW row, NEW k, b \in Seq(Cell), Small(b), p \in Nat, t \in Nat,
         t < Pow(UintBase, Wide), TimedHere(b, p, t, rest), RowOf(b, row, t, rest), FirstsEnd(row, k)
  PROVE  KidsRead(b, p, t, rest, row, k)
<1> DEFINE body == TimedBody(t, rest)
           n == Len(body)
           d == p + Wide
           end == p + Wide + n
           ids == RowIds(row)
           l == Len(row)
           h == ReadHeaderAt(b, p)
           kids == Walk(b, d, end, BlockIds)
           at == {i \in DOMAIN kids : kids[i].id \in BlockIds}
<1>1. /\ n \in Nat /\ HeadIs(b, p, "Cluster", Wide, n) /\ At(b, d, body)
      /\ p + Len(TimedElement(t, rest)) = end /\ d \in Nat /\ end <= Len(b) /\ end \in Nat
  BY DEF TimedHere
<1>2. /\ row \in Seq(Seq(Cell)) /\ l \in Nat /\ l > 0 /\ FlattenSeq(row) = body
      /\ row[1] = AppendUint("Timestamp", t)
  BY DEF RowOf
<1>3. /\ \A i \in 1..l : Framed(b, row[i], ids[i]) /\ ids[i] \in BodyIds \cup {"Timestamp"}
      /\ ids[1] = "Timestamp"
  BY RowFirsts
<1>4. k \in 1..l /\ (\A i \in 1..k : ids[i] \notin BlockIds) /\ (k < l => ids[k + 1] \in BlockIds) BY DEF FirstsEnd
<1>5. h = [id |-> "Cluster", w |-> Wide, size |-> n] BY <1>1 DEF HeadIs
<1>6. readCluster(b, p) = clusterOf(b, p, h, kids)
  <2>1. p + h.w = d /\ p + h.w + h.size = end BY <1>5
  <2> HIDE DEF d, end, n
  <2> QED BY <2>1 DEF readCluster
<1>7. RowAt(b, d, row, end)
  <2> HIDE DEF d
  <2>1. RowAt(b, d, row, d + Len(FlattenSeq(row))) BY <1>1, <1>2, RowPlaces
  <2>2. d + Len(FlattenSeq(row)) = end BY <1>2 DEF d
  <2> QED BY <2>1, <2>2
<1> HIDE DEF ids, d, end, h, body
<1>8. RowWalk(b, kids, d, row, ids, k, BlockIds)
  <2>1. k \in 0..Len(row) BY <1>4
  <2>2. \A i \in 1..Len(row) : Framed(b, row[i], ids[i]) BY <1>3
  <2> HIDE DEF kids
  <2> QED BY <1>4, <1>7, <2>1, <2>2, WalkRow DEF kids
<1> HIDE DEF kids
<1> DEFINE v == SubSeq(kids, 1, k)
<1>9. /\ kids \in Seq(Elem) /\ StopsAt(b, kids, d, row, ids, k, BlockIds)
      /\ \A i \in 1..k : kids[i] = v[i]
  BY <1>8 DEF RowWalk
<1>10. ASSUME NEW i \in 1..k
       PROVE  /\ kids[i] \in Elem /\ kids[i].id = ids[i] /\ HeadedBy(b, kids[i])
              /\ kids[i].from = d + Start(row, i) /\ kids[i].to = d + Start(row, i + 1)
  BY <1>8, <1>9 DEF RowWalk, Firsts
<1> HIDE DEF v
<1>11. /\ k = l => Len(kids) = k
       /\ k # l => /\ Len(kids) = k + 1 /\ kids[k + 1].id = ids[k + 1] /\ kids[k + 1] \in Elem
                   /\ kids[k + 1].from = d + Start(row, k + 1) /\ kids[k + 1].to = kids[k + 1].from
  BY <1>9 DEF StopsAt
<1>12. DOMAIN kids = 1..Len(kids) /\ k \in Nat /\ 1 \in 1..k /\ Len(kids) \in Nat BY <1>2, <1>4, <1>9
<1>13. \A i \in 1..l : (d + Start(row, i)) + Len(row[i]) <= end /\ d + Start(row, i + 1) = (d + Start(row, i)) + Len(row[i])
  BY <1>7 DEF RowAt
<1>14. \A i \in DOMAIN kids : i \in 1..k \/ (k # l /\ i = k + 1) BY <1>11, <1>12
<1>15. \A i \in DOMAIN kids : kids[i].id \notin {"bad", "EncryptedBlock"}
  <2>1. \A i \in 1..l : ids[i] \notin {"bad", "EncryptedBlock"} BY <1>3 DEF BodyIds, BlockIds, SpareIds
  <2>2. \A i \in 1..k : i \in 1..l BY <1>2, <1>4
  <2>3. k # l => k + 1 \in 1..l BY <1>2, <1>4
  <2> QED BY <1>10, <1>11, <1>14, <2>1, <2>2, <2>3
<1>16. \A i \in DOMAIN kids : kids[i].id = "Timestamp" => kids[i].to <= Len(b) /\ i = 1
  <2> SUFFICES ASSUME NEW i \in DOMAIN kids, kids[i].id = "Timestamp" PROVE kids[i].to <= Len(b) /\ i = 1 OBVIOUS
  <2>1. i \in 1..k
    <3>1. k # l => ids[k + 1] # "Timestamp" BY <1>2, <1>4 DEF BlockIds
    <3> QED BY <1>11, <1>14, <3>1
  <2>2. i \in 1..l BY <1>2, <1>4, <2>1
  <2>3. kids[i].to <= end BY <1>10, <1>13, <2>1, <2>2
  <2>4. kids[i].to <= Len(b)
    <3>1. kids[i].to \in Nat /\ Len(b) \in Nat BY <1>10, <2>1 DEF Elem
    <3> QED BY <1>1, <2>3, <3>1
  <2>5. i = 1
    <3> SUFFICES ASSUME i # 1 PROVE FALSE OBVIOUS
    <3>1. i \in 2..l BY <2>2
    <3>2. UnitFacts(b, row[i]) BY <3>1 DEF RowOf
    <3>3. ids[i] = HeadId(row[i]) BY <2>2 DEF ids, RowIds
    <3>4. ids[i] \in BodyIds BY <3>2, <3>3 DEF UnitFacts
    <3>5. kids[i].id = ids[i] BY <1>10, <2>1
    <3>6. "Timestamp" \notin BodyIds BY DEF BodyIds, BlockIds, SpareIds
    <3> QED BY <3>4, <3>5, <3>6
  <2> QED BY <2>4, <2>5
<1>17. 1 \in DOMAIN kids /\ Has(kids, "Timestamp") /\ LastOf(kids, "Timestamp") = kids[1]
  <2>0. 1 \in DOMAIN kids
    <3>1. Len(kids) = k \/ Len(kids) = k + 1 BY <1>11
    <3>2. 1 <= k /\ k \in Nat BY <1>12
    <3>3. 1 <= Len(kids) BY <3>1, <3>2
    <3>4. Len(kids) \in Nat /\ DOMAIN kids = 1..Len(kids) BY <1>12
    <3> QED BY <3>3, <3>4
  <2>1. 1 \in DOMAIN kids /\ kids[1].id = "Timestamp" BY <1>3, <1>10, <1>12, <2>0
  <2>2. Has(kids, "Timestamp") BY <2>1 DEF Has
  <2>3. LastFound(kids, "Timestamp") BY <1>9, <2>2, LastIsOne
  <2>4. PICK i \in 1..Len(kids) : LastOf(kids, "Timestamp") = kids[i] /\ kids[i].id = "Timestamp"
    BY <2>3 DEF LastFound
  <2>5. i = 1 BY <1>12, <1>16, <2>4
  <2> QED BY <2>0, <2>2, <2>4, <2>5
<1>18. Value(b, kids, "Timestamp") = t
  <2> DEFINE e == kids[1]
  <2>1. e \in Elem /\ e.id = "Timestamp" /\ HeadedBy(b, e) /\ e.from = d + Start(row, 1) /\ e.to <= Len(b)
    <3>1. 1 \in DOMAIN kids BY <1>17
    <3>2. e.id = "Timestamp" BY <1>3, <1>10, <1>12
    <3> QED BY <1>10, <1>12, <1>16, <3>1, <3>2
  <2>2. At(b, e.from, AppendUint("Timestamp", t))
    <3>1. 1 \in 1..Len(row) BY <1>2
    <3>2. At(b, d + Start(row, 1), row[1]) BY <1>7, <3>1 DEF RowAt
    <3> QED BY <1>2, <2>1, <3>2
  <2>3. "Timestamp" \in Ids /\ "Timestamp" # "bad" BY DEF Ids
  <2>4. Prefix(b, b) BY PrefixWhole
  <2> HIDE DEF e
  <2>5. Uint(b, e) = t BY <2>1, <2>2, <2>3, <2>4, NumberReads
  <2> QED BY <1>17, <2>5 DEF Value, e
<1>19. \A i \in at : ReadHeaderAt(b, kids[i].from).size # UnknownSize
  <2> SUFFICES ASSUME NEW i \in at PROVE ReadHeaderAt(b, kids[i].from).size # UnknownSize OBVIOUS
  <2>1. k # l /\ i = k + 1
    <3>1. i \in DOMAIN kids /\ kids[i].id \in BlockIds OBVIOUS
    <3>2. i \notin 1..k BY <1>4, <1>10, <3>1
    <3> QED BY <1>14, <3>1, <3>2
  <2>2. i \in 1..l BY <1>2, <1>4, <2>1
  <2>3. kids[i].from = d + Start(row, i) BY <1>11, <2>1
  <2>4. At(b, d + Start(row, i), row[i]) /\ d + Start(row, i) \in Nat BY <1>7, <2>2 DEF RowAt
  <2>5. Framed(b, row[i], ids[i]) BY <1>3, <2>2
  <2> DEFINE q == d + Start(row, i)
  <2> HIDE DEF q
  <2>6. PICK w \in Nat : HeadIs(b, q, ids[i], w, Len(row[i]) - w) BY <2>4, <2>5 DEF Framed, q
  <2>7. ReadHeaderAt(b, q).size \in Nat BY <2>6 DEF HeadIs
  <2> QED BY <2>3, <2>7 DEF q, UnknownSize
<1>20. at = IF k = l THEN {} ELSE {k + 1}
  <2>1. \A i \in 1..k : kids[i].id \notin BlockIds BY <1>4, <1>10
  <2>2. k # l => kids[k + 1].id \in BlockIds /\ k + 1 \in DOMAIN kids BY <1>2, <1>4, <1>11, <1>12
  <2> QED BY <1>14, <2>1, <2>2
<1>21. k # l => Min(at) = k + 1
  <2> SUFFICES ASSUME k # l PROVE Min(at) = k + 1 OBVIOUS
  <2>1. at = {k + 1} /\ k + 1 \in Nat BY <1>12, <1>20
  <2> HIDE DEF at
  <2>2. at \subseteq Nat /\ at # {} BY <2>1
  <2>3. Min(at) \in at BY <2>2, SmallestNumber
  <2> QED BY <2>1, <2>3
<1>22. \A i \in DOMAIN kids : /\ kids[i].id \notin {"bad", "EncryptedBlock"}
                              /\ kids[i].id = "Timestamp" => kids[i].to <= Len(b)
  BY <1>15, <1>16
<1> DEFINE c == clusterOf(b, p, h, kids)
<1>23. /\ c.ok /\ c.off = p /\ c.end = end /\ c.timestamp = t
       /\ c.blocks = IF at = {} THEN end ELSE kids[Min(at)].from
  <2>1. h.id = "Cluster" /\ h.size # UnknownSize /\ p + h.w + h.size = end
    <3> HIDE DEF n
    <3> QED BY <1>1, <1>5 DEF UnknownSize, end
  <2> HIDE DEF at
  <2>2. \A i \in at : Has(kids, "Timestamp") /\ ReadHeaderAt(b, kids[i].from).size # UnknownSize
    BY <1>17, <1>19
  <2> QED BY <1>18, <1>22, <2>1, <2>2 DEF clusterOf, at
<1>24. c.blocks = IF k = l THEN end ELSE d + Start(row, k + 1)
  <2> HIDE DEF c, at
  <2>1. k = l => at = {} BY <1>20
  <2>2. k # l => at # {} /\ Min(at) = k + 1 BY <1>20, <1>21
  <2> QED BY <1>11, <1>23, <2>1, <2>2
<1> HIDE DEF c
<1> QED BY <1>1, <1>6, <1>23, <1>24 DEF KidsRead, c, d

LEMMA ReadableAll ==
  ASSUME NEW b, NEW c, NEW kids, NEW ss, NEW ids, b \in Seq(Cell), Small(b),
         Held(b, kids, ss, ids, c.end), c.end \in Nat, c.end <= Len(b),
         kids = Walk(b, c.blocks, c.end, {}),
         \A i \in 1..Len(ss) : ss[i] \in BodyUnits /\ UnitFacts(b, ss[i]) /\ ids[i] = HeadId(ss[i])
  PROVE  readBlocks(b, c).ok
<1> DEFINE I == {i \in DOMAIN kids : kids[i].id \in BlockIds}
           found == Where(kids, I)
           W == {e \in Elem : ReadableBlock(b, e)}
<1>1. readBlocks(b, c) = blocksOf(b, c, kids, found) BY DEF readBlocks
<1>2. /\ Len(kids) = Len(ss) /\ kids \in Seq(Elem)
      /\ \A i \in 1..Len(ss) : /\ kids[i] \in Elem /\ kids[i].id = ids[i] /\ HeadedBy(b, kids[i])
                               /\ At(b, kids[i].from, ss[i]) /\ kids[i].to <= c.end
  BY DEF Held
<1>3. DOMAIN kids = 1..Len(ss)
  <2> DEFINE T == Elem
  <2>1. kids \in Seq(T) BY <1>2
  <2> HIDE DEF T
  <2> QED BY <1>2, <2>1
<1> HIDE DEF found
<1>4. ASSUME NEW i \in 1..Len(kids), i \in I PROVE kids[i] \in W
  <2>1. i \in 1..Len(ss) /\ kids[i].id \in BlockIds BY <1>2, <1>4
  <2>2. HeadId(ss[i]) \in BlockIds BY <1>2, <2>1
  <2>3. ss[i] \in BlockUnits BY <2>1, <2>2 DEF UnitFacts
  <2> DEFINE e == kids[i]
             x == ss[i]
  <2>4. e \in Elem /\ HeadedBy(b, e) /\ At(b, e.from, x) /\ x \in BlockUnits BY <1>2, <2>1, <2>3
  <2> HIDE DEF e, x
  <2>5. ReadableBlock(b, e) BY <2>4, BlockReadable
  <2> QED BY <2>4, <2>5 DEF e
<1>5. found \in Seq(W)
  <2> HIDE DEF I, W
  <2>1. \A i \in 1..Len(kids) : i \in I => kids[i] \in W BY <1>4
  <2> QED BY <1>2, <2>1, WhereType DEF found
<1>6. \A i \in DOMAIN found : ReadableBlock(b, found[i])
  <2>1. \A i \in DOMAIN found : found[i] \in W
    <3> HIDE DEF W
    <3> QED BY <1>5
  <2> QED BY <2>1
<1>7. ~Malformed(kids, c.end) /\ ~Has(kids, "EncryptedBlock")
  <2>1. \A i \in 1..Len(ss) : ids[i] \in BodyIds BY DEF UnitFacts
  <2>2. "bad" \notin BodyIds /\ "EncryptedBlock" \notin BodyIds BY DEF BodyIds, BlockIds, SpareIds
  <2>3. \A i \in DOMAIN kids : kids[i].id # "bad" /\ kids[i].id # "EncryptedBlock" BY <1>2, <1>3, <2>1, <2>2
  <2>4. ASSUME NEW i \in DOMAIN kids PROVE ~(kids[i].to > c.end)
    <3>1. kids[i] \in Elem /\ kids[i].to <= c.end BY <1>2, <1>3
    <3>2. kids[i].to \in Nat BY <3>1 DEF Elem
    <3> QED BY <3>1, <3>2
  <2> QED BY <2>3, <2>4 DEF Malformed, Has
<1>8. AllThere(b, c) BY DEF AllThere
<1> HIDE DEF I, W
<1> QED BY <1>1, <1>6, <1>7, <1>8 DEF blocksOf

LEMMA TimedBlocks ==
  ASSUME NEW b, NEW p, NEW t, NEW rest, NEW row, NEW k, b \in Seq(Cell), Small(b), p \in Nat, t \in Nat,
         TimedHere(b, p, t, rest), RowOf(b, row, t, rest), FirstsEnd(row, k),
         KidsRead(b, p, t, rest, row, k)
  PROVE  readBlocks(b, readCluster(b, p)).ok
<1> DEFINE body == TimedBody(t, rest)
           n == Len(body)
           d == p + Wide
           end == p + Wide + n
           l == Len(row)
           c == readCluster(b, p)
           kids == Walk(b, c.blocks, c.end, {})
<1>1. /\ n \in Nat /\ At(b, d, body)
      /\ p + Len(TimedElement(t, rest)) = end /\ d \in Nat /\ end <= Len(b) /\ end \in Nat
  BY DEF TimedHere
<1>2. /\ row \in Seq(Seq(Cell)) /\ l \in Nat /\ l > 0 /\ FlattenSeq(row) = body
      /\ \A i \in 2..l : row[i] \in BodyUnits /\ UnitFacts(b, row[i])
  BY DEF RowOf
<1>3. k \in 1..l BY DEF FirstsEnd
<1>4. c.end = end /\ c.blocks = IF k = l THEN end ELSE d + Start(row, k + 1) BY <1>1 DEF KidsRead
<1> HIDE DEF c, body
<1>5. CASE k = l
  <2>1. kids = <<>>
    <3>1. c.blocks = c.end /\ c.end \in Nat BY <1>1, <1>4, <1>5
    <3>2. ~(c.blocks < c.end) BY <3>1
    <3> QED BY <3>2 DEF Walk
  <2>2. Held(b, <<>>, <<>>, <<>>, c.end) BY DEF Held
  <2> DEFINE s == <<>>
  <2>3. \A i \in 1..Len(s) : s[i] \in BodyUnits /\ UnitFacts(b, s[i]) /\ s[i] = HeadId(s[i]) OBVIOUS
  <2>4. kids = s /\ Held(b, kids, s, s, c.end) /\ c.end \in Nat /\ c.end <= Len(b) BY <1>1, <1>4, <2>1, <2>2
  <2> HIDE DEF s, end, d
  <2>5. readBlocks(b, c).ok BY <2>3, <2>4, ReadableAll
  <2> QED BY <2>5 DEF c
<1>6. CASE k # l
  <2> DEFINE U == Seq(Cell)
             a == SubSeq(row, 1, k)
             tt == SubSeq(row, k + 1, l)
             m == l - k
             q == d + Start(row, k + 1)
             idt == [i \in 1..Len(tt) |-> HeadId(tt[i])]
  <2>1. row \in Seq(U) /\ k \in Nat /\ k + 1 \in 1..l /\ m \in Nat /\ k + m = l /\ l - (k + 1) + 1 = m BY <1>2, <1>3, <1>6
  <2> HIDE DEF U
  <2>2. a \in Seq(U) /\ tt \in Seq(U) /\ Len(tt) = m /\ \A i \in 1..m : tt[i] = row[k + i]
    <3>1. tt \in Seq(U) /\ Len(tt) = m
      <4> HIDE DEF m
      <4> QED BY <1>2, <2>1, SliceType
    <3>2. a \in Seq(U) BY <1>2, <1>3, <2>1, SliceType
    <3>3. ASSUME NEW i \in 1..m PROVE tt[i] = row[k + i]
      <4>1. i \in 1..(l - (k + 1) + 1) /\ (k + 1) + i - 1 = k + i BY <2>1
      <4> QED BY <1>2, <2>1, <4>1
    <3> QED BY <3>1, <3>2, <3>3
  <2> HIDE DEF tt, a
  <2>3. body = FlattenSeq(a) \o FlattenSeq(tt)
    <3>1. row \in Seq(Seq(Cell)) /\ tt \in Seq(Seq(Cell)) BY <1>2, <2>2 DEF U
    <3>2. Len(row) = k + Len(tt) /\ Len(tt) \in Nat BY <2>1, <2>2
    <3>3. \A i \in 1..Len(tt) : row[k + i] = tt[i] BY <2>2
    <3>4. FlattenSeq(row) = FlattenSeq(SubSeq(row, 1, k)) \o FlattenSeq(tt)
      <4> HIDE DEF m
      <4> QED BY <2>1, <3>1, <3>2, <3>3, LastParts
    <3> QED BY <1>2, <3>4 DEF a
  <2>4. FlattenSeq(a) \in Seq(Cell) /\ FlattenSeq(tt) \in Seq(Cell) BY <2>2, FlattenType DEF U
  <2>5. AtParted(b, d, FlattenSeq(a), FlattenSeq(tt))
    <3> HIDE DEF d
    <3> QED BY <1>1, <2>3, <2>4, AtTwo
  <2>6. Len(FlattenSeq(a)) = Start(row, k + 1)
    <3>1. (k + 1) - 1 = k BY <2>1
    <3> QED BY <3>1 DEF Start, a
  <2>7. At(b, q, FlattenSeq(tt)) /\ q + Len(FlattenSeq(tt)) = end
    <3>1. At(b, q, FlattenSeq(tt)) /\ n = Start(row, k + 1) + Len(FlattenSeq(tt)) BY <2>3, <2>5, <2>6 DEF AtParted
    <3>2. Start(row, k + 1) \in Nat /\ Len(FlattenSeq(tt)) \in Nat BY <2>4, <2>6
    <3> HIDE DEF n
    <3> QED BY <1>1, <3>1, <3>2
  <2>8. ASSUME NEW i \in 1..Len(tt)
        PROVE  tt[i] \in BodyUnits /\ UnitFacts(b, tt[i]) /\ idt[i] = HeadId(tt[i]) /\ Framed(b, tt[i], idt[i]) /\ idt[i] # "bad"
    <3>1. k + i \in 2..l
      <4>1. i \in 1..m /\ k \in Nat /\ k > 0 /\ l \in Nat BY <1>2, <1>3, <2>2
      <4> HIDE DEF m, l
      <4> QED BY <2>1, <4>1
    <3>2. tt[i] = row[k + i] BY <2>2
    <3>3. tt[i] \in BodyUnits /\ UnitFacts(b, tt[i]) BY <1>2, <3>1, <3>2
    <3>4. idt[i] = HeadId(tt[i]) OBVIOUS
    <3>5. "bad" \notin BodyIds BY DEF BodyIds, BlockIds, SpareIds
    <3> HIDE DEF idt
    <3> QED BY <3>3, <3>4, <3>5 DEF UnitFacts
  <2> HIDE DEF idt, q, end, d, n
  <2>9. Held(b, Walk(b, q, q + Len(FlattenSeq(tt)), {}), tt, idt, q + Len(FlattenSeq(tt)))
    <3>1. tt \in Seq(Seq(Cell)) BY <2>2 DEF U
    <3> QED BY <2>7, <2>8, <3>1, WalkHolds
  <2>10. Held(b, kids, tt, idt, c.end) /\ c.end \in Nat /\ c.end <= Len(b)
    <3>1. c.blocks = q BY <1>4, <1>6 DEF q
    <3> QED BY <1>1, <1>4, <2>7, <2>9, <3>1
  <2>11. \A i \in 1..Len(tt) : tt[i] \in BodyUnits /\ UnitFacts(b, tt[i]) /\ idt[i] = HeadId(tt[i]) BY <2>8
  <2>12. kids = Walk(b, c.blocks, c.end, {}) OBVIOUS
  <2> HIDE DEF kids
  <2>13. readBlocks(b, c).ok BY <2>10, <2>11, <2>12, ReadableAll
  <2> QED BY <2>13 DEF c
<1> QED BY <1>5, <1>6

LEMMA ClusterReadable ==
  ASSUME NEW b, NEW p, NEW t, NEW rest, b \in Seq(Cell), Small(b), t \in Nat, t < Pow(UintBase, Wide),
         rest \in Chains(BodyUnits), At(b, p, TimedElement(t, rest))
  PROVE  ClusterFine(b, p, t, rest)
<1>1. HasRow(b, t, rest) BY ClusterRow
<1>2. PICK row : RowOf(b, row, t, rest) BY <1>1 DEF HasRow
<1>3. rest \in Seq(Cell) BY <1>2 DEF RowOf
<1>4. p \in Nat BY DEF At
<1>5. TimedHere(b, p, t, rest) BY <1>3, TimedPlaced
<1>6. PICK k : FirstsEnd(row, k) BY <1>2, RowFirsts
<1>7. KidsRead(b, p, t, rest, row, k) BY <1>2, <1>4, <1>5, <1>6, TimedKids
<1>8. readBlocks(b, readCluster(b, p)).ok BY <1>2, <1>4, <1>5, <1>6, <1>7, TimedBlocks
<1>9. ReadHeaderAt(b, p).id = "Cluster" BY <1>5 DEF TimedHere, HeadIs
<1>10. p + Len(TimedElement(t, rest)) \in Nat /\ p + Len(TimedElement(t, rest)) <= Len(b) BY <1>5 DEF TimedHere
<1> QED BY <1>7, <1>8, <1>9, <1>10 DEF KidsRead, ClusterFine

\* Clusters of units that follow each other, each with its timestamp.
CellRow(cells, T, R) ==
  /\ cells \in Seq(Seq(Cell)) /\ Len(cells) > 0
  /\ \A i \in 1..Len(cells) : /\ cells[i] = TimedElement(T[i], R[i])
                              /\ T[i] \in Nat /\ T[i] < Pow(UintBase, Wide) /\ R[i] \in Chains(BodyUnits)

LEMMA RowCollects ==
  ASSUME NEW b, NEW q, NEW cells, NEW T, NEW R, NEW src, NEW endT, b \in Seq(Cell), Small(b),
         CellRow(cells, T, R), At(b, q, FlattenSeq(cells)), src.segEnd = q + Len(FlattenSeq(cells))
  PROVE  FineClusters(b, collectClusters(b, src, q, endT), T[1])
<1> DEFINE n == Len(cells)
           end == src.segEnd
           p(i) == q + Start(cells, i)
           c(i) == readCluster(b, p(i))
<1>1. cells \in Seq(Seq(Cell)) /\ n > 0 BY DEF CellRow
<1>2. RowAt(b, q, cells, end) BY <1>1, RowPlaces
<1>3. /\ q \in Nat /\ end \in Nat /\ end <= Len(b) /\ n \in Nat /\ p(1) = q /\ p(n + 1) = end
      /\ \A i \in 1..n : /\ p(i) \in Nat /\ Len(cells[i]) \in Nat /\ At(b, p(i), cells[i])
                         /\ p(i + 1) = p(i) + Len(cells[i]) /\ p(i) + Len(cells[i]) <= end
  BY <1>2 DEF RowAt
<1>4. ASSUME NEW i \in 1..n
      PROVE  /\ c(i).ok /\ c(i).timestamp = T[i] /\ c(i).end = p(i + 1) /\ readBlocks(b, c(i)).ok
             /\ ReadHeaderAt(b, p(i)).id = "Cluster" /\ p(i) \in q..end /\ p(i) < end
             /\ c(i) \in FileCluster(b)
  <2>1. /\ cells[i] = TimedElement(T[i], R[i]) /\ T[i] \in Nat /\ T[i] < Pow(UintBase, Wide)
        /\ R[i] \in Chains(BodyUnits)
    BY DEF CellRow
  <2>2. At(b, p(i), TimedElement(T[i], R[i])) /\ p(i) \in Nat BY <1>3, <2>1
  <2> HIDE DEF p, end
  <2>3. ClusterFine(b, p(i), T[i], R[i]) BY <2>1, <2>2, ClusterReadable
  <2>4. c(i) \in FileCluster(b) BY <2>2, ReadClusterType
  <2>5. c(i).end = p(i + 1)
    <3>1. c(i).end = p(i) + Len(TimedElement(T[i], R[i])) BY <2>3 DEF ClusterFine
    <3>2. p(i + 1) = p(i) + Len(cells[i]) BY <1>3
    <3> QED BY <2>1, <3>1, <3>2
  <2>6. p(i) < end
    <3>1. c(i).ok => p(i) < c(i).end
      <4>1. c(i).off = p(i) BY <2>3 DEF ClusterFine
      <4> QED BY <2>4, <4>1 DEF FileCluster
    <3>2. c(i).ok /\ c(i).end \in Nat BY <2>3 DEF ClusterFine
    <3>3. c(i).end <= end BY <1>3, <2>5
    <3> HIDE DEF c
    <3> QED BY <1>3, <2>2, <3>1, <3>2, <3>3
  <2>7. q <= p(i)
    <3>1. Starts(cells, i) BY <1>1, StartStep
    <3>2. Start(cells, i) \in Nat BY <3>1 DEF Starts
    <3> QED BY <1>3, <3>2 DEF p
  <2>8. p(i) \in q..end BY <1>3, <2>2, <2>6, <2>7
  <2> HIDE DEF c
  <2> QED BY <2>3, <2>4, <2>5, <2>6, <2>8 DEF ClusterFine, c
<1>5. CollectGoes(b, src, q, endT) BY <1>3, CollectRecursion
<1>6. PICK g : CollectedBy(b, src, q, endT, g) BY <1>5 DEF CollectGoes
<1> DEFINE S == {i \in 1..n : FineClusters(b, g[p(i)], T[i])}
<1>7. ASSUME NEW i \in 1..n, (i + 1)..n \subseteq S PROVE i \in S
  <2> DEFINE v == Later(g, p(i + 1), end)
  <2>1. g[p(i)] = <<c(i)>> \o v
    <3>1. g[p(i)] = CollectStep(b, p(i), end, g) BY <1>4, <1>6 DEF CollectedBy
    <3> HIDE DEF p, end
    <3>2. CollectStep(b, p(i), end, g) = <<c(i)>> \o Later(g, p(i + 1), end) BY <1>4 DEF CollectStep
    <3> QED BY <3>1, <3>2
  <2>2. v = <<>> \/ FineClusters(b, v, T[i + 1])
    <3>1. CASE i = n
      <4>1. p(i + 1) = end /\ ~(end < end) BY <1>3, <3>1
      <4> HIDE DEF p, end
      <4> QED BY <4>1 DEF Later
    <3>2. CASE i # n
      <4>1. i + 1 \in 1..n /\ i + 1 \in (i + 1)..n BY <1>3, <3>2
      <4>2. i + 1 \in S
        <5> HIDE DEF S
        <5> QED BY <1>7, <4>1
      <4>3. p(i + 1) < end BY <1>4, <4>1
      <4> HIDE DEF p, end
      <4>4. v = g[p(i + 1)] BY <4>3 DEF Later
      <4> QED BY <4>2, <4>4
    <3> QED BY <3>1, <3>2
  <2> HIDE DEF v, c, p
  <2>3. c(i) \in FileCluster(b) /\ c(i).ok /\ c(i).timestamp = T[i] /\ readBlocks(b, c(i)).ok BY <1>4
  <2> DEFINE x == c(i)
  <2> HIDE DEF x
  <2>4. FineClusters(b, <<x>> \o v, T[i]) BY <2>2, <2>3, FineMore DEF x
  <2>5. FineClusters(b, g[p(i)], T[i]) BY <2>1, <2>4 DEF x
  <2> QED BY <2>5
<1>8. 1..n \subseteq S
  <2>1. 1 \in Int /\ n \in Int BY <1>3
  <2> HIDE DEF S, n
  <2> QED BY <1>7, <2>1, DownwardInduction
<1>9. FineClusters(b, g[q], T[1])
  <2>1. 1 \in S
    <3>1. 1 \in 1..n BY <1>1, <1>3
    <3> HIDE DEF S, n
    <3> QED BY <1>8, <3>1
  <2>2. p(1) = q BY <1>3
  <2> HIDE DEF p
  <2> QED BY <2>1, <2>2
<1>10. collectClusters(b, src, q, endT) = upTo(g[q], endT)
  <2>1. q < end
    <3>1. 1 \in 1..n BY <1>1, <1>3
    <3>2. p(1) < end BY <1>4, <3>1
    <3> HIDE DEF p, end
    <3>3. p(1) = q BY <1>3
    <3> QED BY <3>2, <3>3
  <2> QED BY <1>6, <2>1 DEF CollectedBy, Later
<1> QED BY <1>9, <1>10, UpToFine

-----------------------------------------------------------------------------
(* What stands in the file at the headers with some ids.                      *)

\* What a cluster has after its timestamp are units, which have no other headers.
LEMMA UnitClear ==
  ASSUME NEW x, NEW ids, x \in BodyUnits, ids \cap (InBlock \cup SpareIds) = {}
  PROVE  Clear(x, ids) /\ x \in Seq(Cell)
<1>1. CASE x \in BlockUnits
  <2>1. PICK at \in Nat \X Nat, track \in Nat, v \in Int : x = Block(at, track, v) BY <1>1 DEF BlockUnits
  <2>2. BlockMarked(at, track, v) BY BlockMarks
  <2>3. BlockMade(at, track, v) BY BlockParts
  <2>4. ids \cap InBlock = {} OBVIOUS
  <2> QED BY <2>1, <2>2, <2>3, <2>4 DEF BlockMade, BlockMarked
<1>2. CASE x \in Spares
  <2>1. PICK id \in SpareIds : x = AppendElement(id, <<Num(1)>>) BY <1>2 DEF Spares
  <2> DEFINE data == <<Num(1)>>
  <2>2. id \in Ids /\ id \notin ids BY <2>1 DEF SpareIds, Ids
  <2>3. Num(1) \in Cell /\ Num(1).is # "head"
    <3>1. Num(1) \in Cell BY NewCells
    <3>2. Num(1).is = "num" BY DEF Num
    <3> QED BY <3>1, <3>2
  <2>4. data \in Seq(Cell) BY <2>3
  <2>5. Clear(data, ids) BY <2>3, OneMark
  <2> HIDE DEF data
  <2> QED BY <2>1, <2>2, <2>4, <2>5, ElementMarks DEF data
<1> QED BY <1>1, <1>2 DEF BodyUnits

LEMMA ChainClear ==
  ASSUME NEW x, NEW ids, x \in Chains(BodyUnits), ids \cap (InBlock \cup SpareIds) = {}
  PROVE  x \in Plain(ids)
<1> DEFINE B == BodyUnits
           P == Plain(ids)
<1>1. PICK ss \in Seq(B) : x = FlattenSeq(ss) BY DEF Chains
<1>2. \A u \in B : u \in P BY UnitClear DEF Plain
<1>3. PlainMade(ids) BY PlainCells
<1> HIDE DEF B
<1>4. ss \in Seq(P)
  <2> HIDE DEF P
  <2> QED BY <1>2
<1> QED BY <1>1, <1>3, <1>4 DEF PlainMade

LEMMA JunkUnits ==
  ASSUME NEW id, id \in SpareIds
  PROVE  Junk(id) \in Chains(BodyUnits)
<1>1. BodyUnits \subseteq Seq(Cell)
  <2>1. {} \cap (InBlock \cup SpareIds) = {} OBVIOUS
  <2> QED BY <2>1, UnitClear
<1>2. ChainsMade(BodyUnits) BY <1>1, ChainCells
<1>3. AppendElement(id, <<Num(1)>>) \in BodyUnits BY DEF BodyUnits, Spares
<1>4. Junk(id) = AppendElement(id, <<Num(1)>>) \/ Junk(id) = <<>> BY DEF Junk
<1> QED BY <1>2, <1>3, <1>4 DEF ChainsMade

LEMMA RestUnits ==
  ASSUME NEW k, SourceInv, k \in 1..Len(source)
  PROVE  RestOf(k) \in Chains(BodyUnits)
<1> DEFINE C == Chains(BodyUnits)
           blocks == source[k].blocks
           one(i) == BlockElement(k, i) \o Junk("Void")
           ss == [i \in DOMAIN blocks |-> one(i)]
<1>1. BodyUnits \subseteq Seq(Cell)
  <2>1. {} \cap (InBlock \cup SpareIds) = {} OBVIOUS
  <2> QED BY <2>1, UnitClear
<1>2. ChainsMade(BodyUnits) BY <1>1, ChainCells
<1>3. (\A x, y \in C : x \o y \in C) /\ (\A s \in Seq(C) : FlattenSeq(s) \in C) BY <1>2 DEF ChainsMade
<1>4. Junk("Void") \in C /\ Junk("PrevSize") \in C
  <2>1. "Void" \in SpareIds /\ "PrevSize" \in SpareIds BY DEF SpareIds
  <2> QED BY <2>1, JunkUnits
<1>5. DOMAIN blocks = 1..Len(blocks) /\ Len(blocks) \in Nat
  <2> DEFINE W == BlockKinds
  <2>1. blocks \in Seq(W) BY SourceTypes
  <2> HIDE DEF W, blocks
  <2> QED BY <2>1
<1>6. ASSUME NEW i \in 1..Len(blocks) PROVE one(i) \in C
  <2>1. BlockHere(k, i) BY DEF BlockHere
  <2>2. BlockElement(k, i) = Block(<<k, i>>, source[k].blocks[i].track, source[k].blocks[i].rel)
        /\ source[k].blocks[i].track \in Nat /\ source[k].blocks[i].rel \in Int /\ <<k, i>> \in Nat \X Nat
    BY <2>1, UnitIs
  <2>3. BlockElement(k, i) \in BodyUnits BY <2>2 DEF BodyUnits, BlockUnits
  <2>4. BlockElement(k, i) \in C BY <1>2, <2>3 DEF ChainsMade
  <2> HIDE DEF C
  <2> QED BY <1>3, <1>4, <2>4
<1> HIDE DEF C, one, blocks
<1>7. ss \in [1..Len(blocks) -> C] BY <1>5, <1>6
<1> HIDE DEF ss
<1>8. ss \in Seq(C) BY <1>5, <1>7, FunctionIsSequence
<1>9. RestOf(k) = Junk("PrevSize") \o FlattenSeq(ss) BY DEF RestOf, ss, one, blocks
<1> QED BY <1>3, <1>4, <1>8, <1>9 DEF C

\* The clusters of the file have none of the headers of its top.
LEMMA ClustersPlain ==
  ASSUME NEW ids, SourceInv, ids \cap (InBlock \cup SpareIds \cup {"Cluster", "Timestamp"}) = {}
  PROVE  FileClusters \in Plain(ids)
<1> DEFINE P == Plain(ids)
           ss == [k \in DOMAIN source |-> ClusterElement(k)]
<1>1. PlainMade(ids) BY PlainCells
<1>2. "Cluster" \in Ids /\ "Cluster" \notin ids /\ "Timestamp" \in Ids /\ "Timestamp" \notin ids BY DEF Ids
<1>3. /\ \A x, y \in P : x \o y \in P
      /\ \A v \in Int : AppendUint("Timestamp", v) \in P
      /\ \A n \in Int : \A w \in Nat : w > 0 => AppendSizeWidth("Cluster", n, w) \in P
      /\ \A s \in Seq(P) : FlattenSeq(s) \in P
  BY <1>1, <1>2 DEF PlainMade
<1>4. P \subseteq Seq(Cell) BY DEF Plain
<1>5. Wide \in Nat /\ Wide > 0 /\ Pow(SizeBase, Wide) - 1 \in Int
  <2>1. SizeBase \in Nat /\ SizeBase > 0 /\ Wide \in Nat /\ Wide > 0 BY EbmlAssumption
  <2>2. Pow(SizeBase, Wide) \in Nat BY <2>1, PowNat
  <2> QED BY <2>1, <2>2
<1>6. ASSUME NEW k \in 1..Len(source) PROVE ClusterElement(k) \in P
  <2> DEFINE body == TimedBody(source[k].ts, RestOf(k))
  <2>1. ClusterMade(k) BY ClusterElementMade
  <2>2. source[k].ts \in Int BY SourceTypes
  <2>3. RestOf(k) \in P
    <3>1. RestOf(k) \in Chains(BodyUnits) BY RestUnits
    <3>2. ids \cap (InBlock \cup SpareIds) = {} OBVIOUS
    <3> QED BY <3>1, <3>2, ChainClear
  <2> HIDE DEF P
  <2>4. body \in P BY <1>3, <2>2, <2>3 DEF TimedBody
  <2>5. ClusterElement(k) = AppendSizeWidth("Cluster", Pow(SizeBase, Wide) - 1, Wide) \o body
        \/ ClusterElement(k) = AppendSizeWidth("Cluster", Len(body), Wide) \o body
    BY <2>1 DEF ClusterMade, TimedElement
  <2>6. Len(body) \in Int BY <1>4, <2>4
  <2> HIDE DEF body
  <2> QED BY <1>3, <1>5, <2>4, <2>5, <2>6
<1>7. ss \in Seq(P)
  <2>1. Len(ss) = Len(source) /\ \A k \in 1..Len(source) : ss[k] = ClusterElement(k) BY ClustersMade
  <2>2. ss \in Seq(Seq(Cell)) BY ClustersMade
  <2> DEFINE U == Seq(Cell)
  <2>3. ss \in Seq(U) BY <2>2
  <2> HIDE DEF U, P, ss
  <2>4. ss \in [1..Len(ss) -> P] BY <1>6, <2>1, <2>3
  <2>5. Len(ss) \in Nat BY <2>3
  <2> QED BY <2>4, <2>5, FunctionIsSequence
<1> QED BY <1>3, <1>7 DEF FileClusters

LEMMA UnitStarts ==
  BodyUnits \subseteq Seq(Cell) /\ \A u \in BodyUnits : Marks(u, BlockIds) \subseteq {0}
<1> SUFFICES ASSUME NEW u \in BodyUnits PROVE u \in Seq(Cell) /\ Marks(u, BlockIds) \subseteq {0} OBVIOUS
<1>1. u \in Seq(Cell)
  <2>1. {} \cap (InBlock \cup SpareIds) = {} OBVIOUS
  <2> QED BY <2>1, UnitClear
<1>2. CASE u \in BlockUnits
  <2>1. PICK at \in Nat \X Nat, track \in Nat, v \in Int : u = Block(at, track, v) BY <1>2 DEF BlockUnits
  <2>2. BlockMarked(at, track, v) BY BlockMarks
  <2> QED BY <1>1, <2>1, <2>2 DEF BlockMarked
<1>3. CASE u \in Spares
  <2>1. PICK id \in SpareIds : u = AppendElement(id, <<Num(1)>>) BY <1>3 DEF Spares
  <2> DEFINE data == <<Num(1)>>
  <2>2. id \in Ids BY DEF SpareIds, Ids
  <2>3. Num(1) \in Cell /\ Num(1).is # "head"
    <3>1. Num(1) \in Cell BY NewCells
    <3>2. Num(1).is = "num" BY DEF Num
    <3> QED BY <3>1, <3>2
  <2>4. data \in Seq(Cell) BY <2>3
  <2>5. Clear(data, BlockIds) BY <2>3, OneMark
  <2> HIDE DEF data
  <2>6. Marks(AppendElement(id, data), BlockIds) \subseteq {0} BY <2>2, <2>4, <2>5, ElementMarks
  <2> QED BY <1>1, <2>1, <2>6 DEF data
<1> QED BY <1>1, <1>2, <1>3 DEF BodyUnits

\* From a block on, the rest of a cluster of units is a chain of them.
LEMMA ClusterChain ==
  ASSUME NEW t, NEW rest, NEW a, t \in Int, rest \in Chains(BodyUnits), a \in Marks(TimedElement(t, rest), BlockIds)
  PROVE  Slice(TimedElement(t, rest), a, Len(TimedElement(t, rest))) \in Chains(BodyUnits)
<1> DEFINE ts == AppendUint("Timestamp", t)
           size == Len(ts \o rest)
           head == AppendSizeWidth("Cluster", size, Wide)
           h == head \o ts
           x == TimedElement(t, rest)
<1>0. BodyUnits \subseteq Seq(Cell) /\ \A u \in BodyUnits : Marks(u, BlockIds) \subseteq {0} BY UnitStarts
<1>1. rest \in Seq(Cell) BY <1>0, ChainCells DEF ChainsMade
<1>2. "Timestamp" \in Ids /\ "Timestamp" \notin BlockIds /\ "Cluster" \in Ids /\ "Cluster" \notin BlockIds
  BY DEF Ids, BlockIds
<1>3. ts \in Seq(Cell) /\ Clear(ts, BlockIds) BY <1>2, UintMarks
<1>4. size \in Int
  <2> HIDE DEF ts
  <2>1. Joined(Cell, ts, rest) BY <1>1, <1>3, ConcatJoins
  <2> QED BY <2>1 DEF Joined
<1> HIDE DEF size
<1>5. head \in Seq(Cell) /\ Clear(head, BlockIds)
  <2>1. Wide \in Nat /\ Wide > 0 BY EbmlAssumption
  <2> QED BY <1>2, <1>4, <2>1, HeaderMarks
<1>6. x = head \o (ts \o rest) BY DEF TimedElement, TimedBody, size
<1> HIDE DEF x, head, ts
<1>7. Regrouping(head, ts, rest) BY <1>1, <1>3, <1>5, Associated
<1>8. x = h \o rest BY <1>6, <1>7 DEF Regrouping
<1>9. h \in Seq(Cell) /\ Clear(h, BlockIds) BY <1>3, <1>5, ClearConcat
<1> HIDE DEF h
<1>10. Sides(h, rest, BlockIds) BY <1>1, <1>9, MarkSides
<1>11. a \in Marks(h \o rest, BlockIds) BY <1>8 DEF x
<1>12. Len(h) \in Nat /\ IF a < Len(h) THEN a \in Marks(h, BlockIds) ELSE a - Len(h) \in Marks(rest, BlockIds)
  BY <1>10, <1>11 DEF Sides
<1>13. ~(a < Len(h)) /\ a - Len(h) \in Marks(rest, BlockIds) BY <1>9, <1>12 DEF Clear
<1>14. a \in Nat /\ a < Len(h \o rest) BY <1>11 DEF Marks
<1>15. Len(h) <= a /\ a <= Len(h \o rest)
  <2>1. Joined(Cell, h, rest) BY <1>1, <1>9, ConcatJoins
  <2>2. Len(h \o rest) \in Nat BY <2>1 DEF Joined
  <2> QED BY <1>12, <1>13, <1>14, <2>2
<1>16. Slice(h \o rest, a, Len(h \o rest)) = Slice(rest, a - Len(h), Len(rest))
  BY <1>1, <1>9, <1>14, <1>15, SuffixOfSecond
<1>17. Parted(BodyUnits, rest, BlockIds) BY <1>0, ChainParted
<1>18. Slice(rest, a - Len(h), Len(rest)) \in Chains(BodyUnits) BY <1>13, <1>17 DEF Parted
<1> QED BY <1>8, <1>16, <1>18 DEF x

-----------------------------------------------------------------------------
(* The clusters of a clip, and what they carry of the source's.               *)

\* What a cluster of a clip has after its timestamp t, or t - origin as it is in the clip: some
\* blocks of the k-th cluster of the source.
CarriesSome(x, t, k, origin, D) ==
  /\ D \subseteq Places(k) /\ Sayable(t, D) /\ Carries(x, BlockIds, Units(t), D)
  /\ D # {} => t - origin < Pow(UintBase, Wide)

Carried(x, t, k, origin) ==
  /\ x \in Seq(Cell) /\ Clear(x, InCluster) /\ Clear(x, {"Timestamp"}) /\ x \in Chains(BodyUnits)
  /\ \E D : CarriesSome(x, t, k, origin, D)

LEMMA PlacesStored ==
  ASSUME SourceInv, NEW k, k \in 1..Len(source)
  PROVE  /\ Places(k) \subseteq 1..Len(Stored)
         /\ \A n \in Places(k) : FitsRel(Stored[n].time - source[k].ts)
         /\ \A l \in 1..Len(source) : k < l => Before(Places(k), Places(l))
<1>1. Indexed BY SourceIndexed
<1>2. ASSUME NEW i \in 1..Len(source[k].blocks)
      PROVE  Index(<<k, i>>) \in 1..Len(Stored) /\ FitsRel(Stored[Index(<<k, i>>)].time - source[k].ts)
  <2> DEFINE n == Index(<<k, i>>)
             r == source[k].blocks[i].rel
             t == source[k].ts
  <2>1. n \in 1..Len(Stored) /\ Stored[n] = StoredBlock(k, i) BY <1>1 DEF Indexed, BlockHere
  <2>2. Stored[n].time = t + r BY <2>1 DEF StoredBlock
  <2>3. source[k].blocks[i] \in BlockKinds BY BlockTypes
  <2>4. r \in Int /\ -RelRange <= r /\ r < RelRange /\ RelRange \in Nat
    BY <2>3, CutAssumption, MkvAssumption
  <2>5. t \in Int BY SourceTypes
  <2> HIDE DEF n, r, t
  <2>6. Stored[n].time - t = r BY <2>2, <2>4, <2>5
  <2>7. FitsRel(Stored[n].time - t) BY <2>4, <2>6 DEF FitsRel
  <2> QED BY <2>1, <2>7 DEF n, t
<1>3. ASSUME NEW l \in 1..Len(source), k < l PROVE Before(Places(k), Places(l))
  <2> SUFFICES ASSUME NEW m \in Places(k), NEW n \in Places(l) PROVE m < n BY DEF Before
  <2>1. PICK i \in 1..Len(source[k].blocks) : m = Index(<<k, i>>) BY DEF Places
  <2>2. PICK j \in 1..Len(source[l].blocks) : n = Index(<<l, j>>) BY DEF Places
  <2>3. BlockHere(k, i) /\ BlockHere(l, j) BY <2>1, <2>2 DEF BlockHere
  <2>4. Index(<<k, i>>) < Index(<<l, j>>) BY <1>1, <1>3, <2>3 DEF Indexed
  <2> QED BY <2>1, <2>2, <2>4
<1> QED BY <1>2, <1>3 DEF Places

LEMMA UnitMarks ==
  ASSUME SourceInv, NEW n, NEW t, n \in 1..Len(Stored), t \in Int
  PROVE  /\ Units(t)[n] \in Seq(Cell) /\ Marks(Units(t)[n], BlockIds) \subseteq {0}
         /\ Clear(Units(t)[n], InCluster) /\ Clear(Units(t)[n], {"Timestamp"})
<1> DEFINE v == Stored[n].time - t
           at == Stored[n].at
           track == Stored[n].track
<1>1. at \in Nat \X Nat /\ track \in Nat /\ v \in Int
  <2>1. Stored[n].time \in Int BY StoredTypes
  <2> QED BY <2>1, StoredTypes
<1>2. Units(t)[n] = Block(at, track, v) BY DEF Units
<1> HIDE DEF at, track, v
<1>3. BlockMarked(at, track, v) BY <1>1, BlockMarks
<1>4. BlockMade(at, track, v) BY <1>1, BlockParts
<1>5. InCluster \cap InBlock = {} /\ {"Timestamp"} \cap InBlock = {} BY DEF InCluster, InBlock
<1> QED BY <1>2, <1>3, <1>4, <1>5 DEF BlockMarked, BlockMade

\* Some of the stored blocks one after the other.
UnitsBy(ss, t, D, m) ==
  /\ ss \in Seq(Seq(Cell))
  /\ \A j \in 1..Len(ss) : /\ m[j] \in D /\ ss[j] = Units(t)[m[j]]
                           /\ \A i \in 1..Len(ss) : j < i => m[j] < m[i]

LEMMA UnitIsOne ==
  ASSUME SourceInv, NEW n, NEW t, n \in 1..Len(Stored), t \in Int
  PROVE  Units(t)[n] \in BodyUnits
<1>1. Stored[n].at \in Nat \X Nat /\ Stored[n].track \in Nat /\ Stored[n].time \in Nat BY StoredTypes
<1>2. Stored[n].time - t \in Int BY <1>1
<1>3. Units(t)[n] = Block(Stored[n].at, Stored[n].track, Stored[n].time - t) BY DEF Units
<1> QED BY <1>1, <1>2, <1>3 DEF BodyUnits, BlockUnits

LEMMA UnitsCarried ==
  ASSUME SourceInv, NEW ss, NEW t, NEW k, NEW origin, NEW D, NEW m, t \in Int, k \in 1..Len(source),
         UnitsBy(ss, t, D, m), D \subseteq Places(k), Sayable(t, D), D # {} => t - origin < Pow(UintBase, Wide)
  PROVE  Carried(FlattenSeq(ss), t, k, origin)
<1> DEFINE E == [j \in 1..Len(ss) |-> {m[j]}]
           U == Units(t)
<1>1. ss \in Seq(Seq(Cell)) BY DEF UnitsBy
<1>2. ASSUME NEW j \in 1..Len(ss)
      PROVE  /\ Carries(ss[j], BlockIds, U, E[j]) /\ E[j] \subseteq D
             /\ Clear(ss[j], InCluster) /\ Clear(ss[j], {"Timestamp"})
  <2> DEFINE n == m[j]
  <2>1. n \in D /\ ss[j] = U[n] BY DEF UnitsBy
  <2>2. n \in 1..Len(Stored) BY <2>1 DEF Sayable
  <2> HIDE DEF n
  <2>3. /\ U[n] \in Seq(Cell) /\ Marks(U[n], BlockIds) \subseteq {0}
        /\ Clear(U[n], InCluster) /\ Clear(U[n], {"Timestamp"})
    BY <2>2, UnitMarks
  <2>4. E[j] = {n} BY DEF n
  <2> HIDE DEF E, U
  <2>5. Carries(ss[j], BlockIds, U, {n}) BY <2>1, <2>3, CarriesUnit
  <2> QED BY <2>1, <2>3, <2>4, <2>5
<1>3. ASSUME NEW j \in 1..Len(ss), NEW i \in 1..Len(ss), j < i PROVE Before(E[j], E[i])
  BY <1>3 DEF UnitsBy, Before
<1> HIDE DEF E, U
<1>4. InOrder(ss, BlockIds, U, E, D) BY <1>2, <1>3 DEF InOrder
<1>5. Carries(FlattenSeq(ss), BlockIds, U, D) BY <1>1, <1>4, CarriesFlatten
<1>6. Clear(FlattenSeq(ss), InCluster) /\ Clear(FlattenSeq(ss), {"Timestamp"})
  BY <1>1, <1>2, ClearFlatten
<1>7. FlattenSeq(ss) \in Seq(Cell) BY <1>1, FlattenType
<1>8. CarriesSome(FlattenSeq(ss), t, k, origin, D) BY <1>5 DEF CarriesSome, U
<1>9. FlattenSeq(ss) \in Chains(BodyUnits)
  <2> DEFINE W == BodyUnits
  <2>1. ASSUME NEW j \in 1..Len(ss) PROVE ss[j] \in W
    <3> DEFINE n == m[j]
    <3>1. n \in D /\ ss[j] = Units(t)[n] BY DEF UnitsBy
    <3>2. n \in 1..Len(Stored) BY <3>1 DEF Sayable
    <3> HIDE DEF n, W
    <3>3. Units(t)[n] \in W BY <3>2, UnitIsOne DEF W
    <3> QED BY <3>1, <3>3
  <2> HIDE DEF W
  <2>2. ss \in Seq(W) BY <1>1, <2>1
  <2> QED BY <2>2 DEF Chains, W
<1> QED BY <1>6, <1>7, <1>8, <1>9 DEF Carried

\* Some of the blocks that are read are read the same.
LEMMA PickedRead ==
  ASSUME NEW b, NEW blocks, NEW kept, NEW I, NEW t, NEW t0, NEW D,
         AllRead(b, blocks, t, t0, D), Picked(kept, blocks, I)
  PROVE  AllRead(b, kept, t, t0, D)
<1>1. PICK m : ReadAs(b, blocks, t, t0, D, m) BY DEF AllRead
<1>2. PICK p : PickedBy(kept, blocks, I, p) BY DEF Picked
<1> DEFINE q == [j \in 1..Len(kept) |-> m[p[j]]]
<1>3. \A j \in 1..Len(kept) : p[j] \in 1..Len(blocks) /\ kept[j] = blocks[p[j]] /\ q[j] = m[p[j]]
  BY <1>2 DEF PickedBy
<1>4. ASSUME NEW j \in 1..Len(kept), NEW i \in 1..Len(kept), j < i PROVE p[j] < p[i]
  BY <1>2, <1>4 DEF PickedBy
<1> HIDE DEF q
<1>5. ReadAs(b, kept, t, t0, D, q) BY <1>1, <1>3, <1>4 DEF ReadAs
<1> QED BY <1>5 DEF AllRead

\* What of a block is at its place and on both sides of its relative timestamp.
UnitSliced(b, blk, n, t) ==
  /\ SubSeq(b, blk.off + 1, blk.off + blk.len) = Units(t)[n]
  /\ SubSeq(b, blk.off + 1, blk.off + blk.ts) = Lead(Stored[n].track)
  /\ SubSeq(b, (blk.off + blk.ts + 1) + 1, (blk.off + blk.ts + 1) + (blk.len - blk.ts - 1))
       = Rest(Stored[n].at, Stored[n].track)

LEMMA UnitSlices ==
  ASSUME SourceInv, NEW b, NEW blk, NEW n, NEW t, NEW t0, b \in Seq(Cell), t \in Int, n \in 1..Len(Stored),
         UnitSays(b, blk, n, t, t0), At(b, blk.off, Units(t)[n])
  PROVE  UnitSliced(b, blk, n, t)
<1> DEFINE v == Stored[n].time - t
           at == Stored[n].at
           track == Stored[n].track
           u == Block(at, track, v)
           lead == Lead(track)
           rest == Rest(at, track)
           rel == <<Rel(v)>>
           p == blk.off
           d == lead \o rel
<1>1. at \in Nat \X Nat /\ track \in Nat /\ v \in Int
  <2>1. Stored[n].time \in Int BY StoredTypes
  <2> QED BY <2>1, StoredTypes
<1>2. Units(t)[n] = u BY DEF Units
<1>3. blk.len = Len(u) /\ blk.ts = Len(lead) BY DEF UnitSays, BlockSays
<1> HIDE DEF v, at, track
<1>4. /\ u = d \o rest /\ lead \in Seq(Cell) /\ rest \in Seq(Cell) /\ rel \in Seq(Cell) /\ u \in Seq(Cell)
      /\ Len(rel) = 1
  <2>1. BlockMade(at, track, v) BY <1>1, BlockParts
  <2> QED BY <2>1 DEF BlockMade
<1> HIDE DEF u, lead, rest, rel
<1>5. d \in Seq(Cell) BY <1>4, ConcatProperties
<1>6. At(b, p, u) BY <1>2
<1>7. At(b, p, d) /\ At(b, p + Len(d), rest) /\ Len(u) = Len(d) + Len(rest) /\ At(b, p, d \o rest)
  <2> HIDE DEF d
  <2> QED BY <1>4, <1>5, <1>6, AtParts
<1>8. At(b, p, lead) /\ Len(d) = Len(lead) + 1
  <2>1. At(b, p, d) BY <1>7
  <2>2. lead \in Seq(Cell) /\ rel \in Seq(Cell) /\ Len(rel) = 1 BY <1>4
  <2>3. AtParted(b, p, lead, rel) BY <2>1, <2>2, AtTwo
  <2> QED BY <2>2, <2>3 DEF AtParted
<1>9. p \in Nat /\ Len(lead) \in Nat /\ Len(rest) \in Nat BY <1>4, <1>6 DEF At
<1>10. SubSeq(b, p + 1, p + Len(u)) = u BY <1>4, <1>6, AtSlice
<1>11. SubSeq(b, p + 1, p + Len(lead)) = lead BY <1>4, <1>8, AtSlice
<1> DEFINE q == p + Len(d)
           w == Len(rest)
<1>12. SubSeq(b, q + 1, q + w) = rest
  <2>1. At(b, q, rest) BY <1>7
  <2> HIDE DEF q
  <2> QED BY <1>4, <2>1, AtSlice
<1>13. q = p + blk.ts + 1 /\ w = blk.len - blk.ts - 1
  <2> HIDE DEF d, p
  <2> QED BY <1>3, <1>7, <1>8, <1>9
<1> HIDE DEF q, w, d
<1> QED BY <1>2, <1>3, <1>10, <1>11, <1>12, <1>13 DEF UnitSliced, at, track, lead, rest

\* Blocks of the k-th cluster of the source, as they are read from a file with a timestamp that
\* is read as it is.
Read(f, blocks, k) ==
  /\ blocks \in Blocks(f)
  /\ AllRead(f, blocks, source[k].ts, source[k].ts, Places(k))

ReadIs(f, blk, n, k) ==
  /\ blk \in FileBlock(f) /\ n \in Places(k) /\ n \in 1..Len(Stored)
  /\ UnitSliced(f, blk, n, source[k].ts) /\ blk.time = Stored[n].time

LEMMA ReadBlock ==
  ASSUME SourceInv, NEW f, NEW blocks, NEW k, NEW m, NEW j, f \in Seq(Cell), k \in 1..Len(source),
         blocks \in Blocks(f), ReadAs(f, blocks, source[k].ts, source[k].ts, Places(k), m), j \in 1..Len(blocks)
  PROVE  ReadIs(f, blocks[j], m[j], k)
<1> DEFINE t == source[k].ts
           n == m[j]
           T == FileBlock(f)
<1>1. blocks[j] \in T
  <2>1. blocks \in Seq(T) BY DEF Blocks
  <2> HIDE DEF T
  <2> QED BY <2>1
<1>2. n \in Places(k) /\ At(f, blocks[j].off, Units(t)[n]) /\ UnitSays(f, blocks[j], n, t, t)
  BY DEF ReadAs
<1>3. n \in 1..Len(Stored) BY <1>2, PlacesStored
<1>4. t \in Int BY SourceTypes
<1>5. UnitSliced(f, blocks[j], n, t)
  <2> HIDE DEF n, t
  <2> QED BY <1>2, <1>3, <1>4, UnitSlices
<1>6. blocks[j].time = Stored[n].time
  <2>1. blocks[j].time = t + (Stored[n].time - t) BY <1>2 DEF UnitSays, BlockSays
  <2>2. Stored[n].time \in Int BY <1>3, StoredTypes
  <2> HIDE DEF n, t
  <2> QED BY <1>4, <2>1, <2>2
<1> QED BY <1>1, <1>2, <1>3, <1>5, <1>6 DEF ReadIs

\* Blocks that are taken over as they are.
LEMMA PartsCarried ==
  ASSUME SourceInv, NEW f, NEW blocks, NEW k, NEW origin, f \in Seq(Cell), k \in 1..Len(source),
         Read(f, blocks, k), origin \in Nat
  PROVE  Carried(Content(blockParts(blocks), f), source[k].ts, k, origin)
<1> DEFINE t == source[k].ts
           D == Places(k)
           T == FileBlock(f)
           g == [i \in DOMAIN blocks |-> RangeOf(blocks[i].off, blocks[i].len)]
           ss == CellsOf(g, f)
<1>1. blocks \in Blocks(f) /\ blocks \in Seq(T) BY DEF Read, Blocks
<1>2. PICK m : ReadAs(f, blocks, t, t, D, m) BY DEF Read, AllRead
<1>3. g \in FileParts(f)
  <2>1. ASSUME NEW b \in T PROVE RangeOf(b.off, b.len) \in FilePart(f)
    <3> DEFINE o == b.off
               n == b.len
    <3>1. o \in Nat /\ n \in Nat /\ o + n <= Len(f) BY DEF FileBlock
    <3> HIDE DEF o, n
    <3>2. RangeOf(o, n) \in FilePart(f) BY <3>1, RangeType
    <3> QED BY <3>2 DEF o, n
  <2>2. \A i \in 1..Len(blocks) : blocks[i] \in T /\ i \in DOMAIN blocks
    <3> HIDE DEF T
    <3> QED BY <1>1
  <2>3. \A i \in 1..Len(blocks) : g[i] \in FilePart(f)
    <3> HIDE DEF T
    <3> QED BY <2>1, <2>2
  <2>4. DOMAIN g = DOMAIN blocks /\ g = [i \in DOMAIN g |-> g[i]] OBVIOUS
  <2> HIDE DEF g, T
  <2>5. g \in Seq(FilePart(f)) BY <1>1, <2>3, <2>4, EachOf
  <2> QED BY <2>5 DEF FileParts
<1>4. Content(blockParts(blocks), f) = FlattenSeq(ss)
  <2>1. blockParts(blocks) = AppendAll(<<>>, g) BY DEF blockParts
  <2> HIDE DEF g
  <2> QED BY <1>3, <2>1, AddedContent, ContentIsFlat
<1>5. ss \in Seq(Seq(Cell))
  <2> HIDE DEF g
  <2> QED BY <1>3, CellsOfType DEF FileParts, FilePart
<1>6. Len(ss) = Len(blocks)
  <2>1. DOMAIN ss = DOMAIN blocks BY DEF CellsOf
  <2> HIDE DEF ss, T
  <2> QED BY <1>1, <1>5, <2>1
<1>7. ASSUME NEW j \in 1..Len(blocks) PROVE ss[j] = Units(t)[m[j]] /\ m[j] \in D
  <2>1. j \in DOMAIN blocks
    <3> HIDE DEF T
    <3> QED BY <1>1
  <2>2. ss[j] = SubSeq(f, blocks[j].off + 1, blocks[j].off + blocks[j].len)
    BY <2>1 DEF CellsOf, PartCells, RangeOf
  <2>4. ReadIs(f, blocks[j], m[j], k) BY <1>1, <1>2, ReadBlock
  <2>3. m[j] \in D /\ UnitSliced(f, blocks[j], m[j], t) BY <2>4 DEF ReadIs
  <2> HIDE DEF ss
  <2> QED BY <2>2, <2>3 DEF UnitSliced
<1> HIDE DEF ss, g
<1>8. UnitsBy(ss, t, D, m) BY <1>2, <1>5, <1>6, <1>7 DEF UnitsBy, ReadAs
<1>9. Sayable(t, D) BY PlacesStored DEF Sayable
<1>10. t \in Nat /\ t < MaxTime BY SourceTypes DEF Timed
<1>11. t - origin < Pow(UintBase, Wide)
  <2> DEFINE x == Pow(UintBase, Wide)
  <2>1. MaxTime \in Nat /\ MaxTime < x BY CutAssumption
  <2>2. x \in Nat
    <3>1. UintBase \in Nat /\ UintBase > 0 /\ Wide \in Nat BY EbmlAssumption
    <3> QED BY <3>1, PowNat
  <2> HIDE DEF x, t
  <2>3. t - origin < x BY <1>10, <2>1, <2>2
  <2> QED BY <2>3 DEF x
<1> HIDE DEF t, D
<1>12. D \subseteq Places(k) BY DEF D
<1>13. Carried(FlattenSeq(ss), t, k, origin) BY <1>8, <1>9, <1>10, <1>11, <1>12, UnitsCarried
<1> QED BY <1>4, <1>13 DEF t

\* Its cells are those of the block in a cluster with the timestamp base.
RebasedIs(f, blk, n, base) ==
  /\ RebasedBlock(f, blk, base) \in FileParts(f)
  /\ Content(RebasedBlock(f, blk, base), f) = Units(base)[n]

LEMMA BlockRebased ==
  ASSUME SourceInv, NEW f, NEW blk, NEW n, NEW t, NEW base, f \in Seq(Cell), blk \in FileBlock(f), base \in Int,
         n \in 1..Len(Stored), UnitSliced(f, blk, n, t), blk.time = Stored[n].time
  PROVE  RebasedIs(f, blk, n, base)
<1> DEFINE v == Stored[n].time - base
           at == Stored[n].at
           track == Stored[n].track
           u == Block(at, track, v)
           lead == Lead(track)
           rest == Rest(at, track)
           rel == <<Rel(v)>>
           d == lead \o rel
           q == blk.off + blk.ts + 1
           w == blk.len - blk.ts - 1
           lit == Literal(d)
           range == RangeOf(q, w)
<1>1. at \in Nat \X Nat /\ track \in Nat /\ v \in Int
  <2>1. Stored[n].time \in Int BY StoredTypes
  <2> QED BY <2>1, StoredTypes
<1>2. Units(base)[n] = u BY DEF Units
<1>3. q \in Nat /\ w \in Nat /\ q + w <= Len(f)
  <2>1. blk.off \in Nat /\ blk.len \in Nat /\ blk.ts \in Nat /\ blk.ts + 1 <= blk.len
        /\ blk.off + blk.len <= Len(f)
    BY DEF FileBlock
  <2>2. Len(f) \in Nat OBVIOUS
  <2> QED BY <2>1, <2>2
<1>4. SubSeq(f, blk.off + 1, blk.off + blk.ts) = lead /\ SubSeq(f, q + 1, q + w) = rest
  BY DEF UnitSliced
<1>5. RebasedBlock(f, blk, base) = <<lit, range>> BY <1>4 DEF RebasedBlock
<1> HIDE DEF v, at, track
<1>6. u = d \o rest /\ lead \in Seq(Cell) /\ rest \in Seq(Cell) /\ rel \in Seq(Cell)
  <2>1. BlockMade(at, track, v) BY <1>1, BlockParts
  <2> QED BY <2>1 DEF BlockMade
<1> HIDE DEF u, lead, rest, rel, q, w
<1>7. d \in Seq(Cell) BY <1>6, ConcatProperties
<1> HIDE DEF d
<1>8. Content(<<lit>>, f) = d /\ <<lit>> \in FileParts(f) BY <1>7, LiteralContent
<1>9. Content(<<range>>, f) = rest /\ <<range>> \in FileParts(f) BY <1>3, <1>4, RangeContent
<1> HIDE DEF lit, range
<1>10. Content(<<lit>> \o <<range>>, f) = d \o rest /\ <<lit>> \o <<range>> \in FileParts(f)
  BY <1>8, <1>9, ContentConcat
<1>11. <<lit>> \o <<range>> = <<lit, range>>
  <2> DEFINE T == FilePart(f)
  <2>1. <<lit>> \in Seq(T) /\ <<range>> \in Seq(T) BY <1>8, <1>9 DEF FileParts
  <2> HIDE DEF T
  <2>2. lit \in T /\ range \in T BY <2>1
  <2>3. <<lit>> \o <<range>> = <<lit, range>> /\ <<lit>> \o <<lit, range>> = <<lit, lit, range>>
    BY <2>2, TwoAndThree
  <2> QED BY <2>3
<1> QED BY <1>2, <1>5, <1>6, <1>10, <1>11 DEF RebasedIs, d

\* Blocks that are taken over with the relative timestamps they have in the first cluster.
LEMMA RebasedCarried ==
  ASSUME SourceInv, NEW f, NEW blocks, NEW k, NEW base, f \in Seq(Cell), k \in 1..Len(source),
         Read(f, blocks, k), base \in Nat, rebasedParts(f, blocks, base).ok
  PROVE  Carried(Content(rebasedParts(f, blocks, base).parts, f), base, k, base)
<1> DEFINE t == source[k].ts
           T == FileBlock(f)
           g == [i \in DOMAIN blocks |-> RebasedBlock(f, blocks[i], base)]
           ss == [i \in DOMAIN g |-> Content(g[i], f)]
<1>1. blocks \in Blocks(f) /\ blocks \in Seq(T) BY DEF Read, Blocks
<1>2. PICK m : ReadAs(f, blocks, t, t, Places(k), m) BY DEF Read, AllRead
<1> DEFINE D == {m[j] : j \in 1..Len(blocks)}
<1>3. rebasedParts(f, blocks, base).parts = AppendAll(<<>>, FlattenSeq(g)) BY DEF rebasedParts, RebasedBlock
<1>4. \A j \in 1..Len(blocks) : FitsRel(blocks[j].time - base)
  <2>1. \A i \in DOMAIN blocks : FitsRel(blocks[i].time - base) BY DEF rebasedParts
  <2> HIDE DEF T
  <2> QED BY <1>1, <2>1
<1>5. ASSUME NEW j \in 1..Len(blocks)
      PROVE  /\ m[j] \in Places(k) /\ m[j] \in 1..Len(Stored) /\ FitsRel(Stored[m[j]].time - base)
             /\ RebasedIs(f, blocks[j], m[j], base) /\ j \in DOMAIN blocks
  <2> DEFINE n == m[j]
  <2>0. blocks \in Blocks(f) /\ ReadAs(f, blocks, source[k].ts, source[k].ts, Places(k), m) BY <1>1, <1>2
  <2> HIDE DEF D, g, ss, T
  <2>1. /\ blocks[j] \in FileBlock(f) /\ n \in Places(k) /\ n \in 1..Len(Stored)
        /\ UnitSliced(f, blocks[j], n, t) /\ blocks[j].time = Stored[n].time
    <3>1. ReadIs(f, blocks[j], m[j], k) BY <2>0, ReadBlock
    <3> QED BY <3>1 DEF ReadIs
  <2> HIDE DEF n, t
  <2>2. RebasedIs(f, blocks[j], n, base) BY <2>1, BlockRebased
  <2>3. j \in DOMAIN blocks BY <1>1
  <2> QED BY <1>4, <2>1, <2>2, <2>3 DEF n
<1>6. g \in Seq(FileParts(f)) /\ Len(g) = Len(blocks)
  <2>1. \A i \in 1..Len(blocks) : g[i] \in FileParts(f) BY <1>5 DEF RebasedIs
  <2>2. DOMAIN g = DOMAIN blocks /\ g = [i \in DOMAIN g |-> g[i]] OBVIOUS
  <2> HIDE DEF g, T
  <2>3. g \in Seq(FileParts(f)) BY <1>1, <2>1, <2>2, EachOf
  <2> DEFINE W == FileParts(f)
  <2>4. g \in Seq(W) BY <2>3
  <2> HIDE DEF W
  <2>5. Len(g) = Len(blocks) BY <1>1, <2>2, <2>4
  <2> QED BY <2>3, <2>5
<1>7. \A j \in 1..Len(blocks) : g[j] = RebasedBlock(f, blocks[j], base) BY <1>5
<1> HIDE DEF g
<1>8. Content(FlattenSeq(g), f) = FlattenSeq(ss)
  <2>1. ContentEach(f, g) BY <1>6, ContentFlatten
  <2> QED BY <2>1 DEF ContentEach
<1>9. Content(rebasedParts(f, blocks, base).parts, f) = FlattenSeq(ss)
  <2>1. FlattenSeq(g) \in FileParts(f) BY <1>6, FlattenType DEF FileParts
  <2> HIDE DEF ss
  <2> QED BY <1>3, <1>8, <2>1, AddedContent
<1>10. ss \in Seq(Seq(Cell)) /\ Len(ss) = Len(blocks) /\ \A j \in 1..Len(blocks) : ss[j] = Units(base)[m[j]]
  <2> DEFINE U == Seq(Cell)
             W == FileParts(f)
  <2>1. \A j \in 1..Len(blocks) : j \in DOMAIN g
    <3>1. g \in Seq(W) BY <1>6
    <3> HIDE DEF W
    <3> QED BY <1>6, <3>1
  <2>2. \A j \in 1..Len(blocks) : ss[j] = Units(base)[m[j]] BY <1>5, <1>7, <2>1 DEF RebasedIs
  <2>3. \A j \in 1..Len(blocks) : Units(base)[m[j]] \in U BY <1>5, UnitMarks
  <2>4. \A j \in 1..Len(g) : ss[j] \in U BY <1>6, <2>2, <2>3
  <2>5. DOMAIN ss = DOMAIN g /\ ss = [i \in DOMAIN ss |-> ss[i]] OBVIOUS
  <2>6. g \in Seq(W) BY <1>6
  <2> HIDE DEF ss, U, W
  <2>7. ss \in Seq(U) BY <2>4, <2>5, <2>6, EachOf
  <2>8. Len(ss) = Len(g) BY <2>5, <2>6, <2>7
  <2> QED BY <1>6, <2>2, <2>7, <2>8 DEF U
<1> HIDE DEF ss
<1>11. UnitsBy(ss, base, D, m) BY <1>2, <1>10 DEF UnitsBy, ReadAs
<1>12. D \subseteq Places(k) /\ Sayable(base, D) BY <1>5 DEF Sayable
<1>13. base - base < Pow(UintBase, Wide) /\ base \in Int
  <2>1. Pow(UintBase, Wide) > 0
    <3>1. UintBase \in Nat /\ UintBase > 0 /\ Wide \in Nat BY EbmlAssumption
    <3> QED BY <3>1, PowNat
  <2>2. base - base = 0 OBVIOUS
  <2> QED BY <2>1, <2>2
<1> HIDE DEF D
<1>14. Carried(FlattenSeq(ss), base, k, base) BY <1>11, <1>12, <1>13, UnitsCarried
<1> QED BY <1>9, <1>14

LEMMA MaxTimeSaid ==
  ASSUME NEW t, NEW origin, t \in Nat, t < MaxTime, origin \in Nat
  PROVE  t < Pow(UintBase, Wide) /\ t - origin < Pow(UintBase, Wide)
<1> DEFINE x == Pow(UintBase, Wide)
<1>1. MaxTime \in Nat /\ MaxTime < x BY CutAssumption
<1>2. x \in Nat
  <2>1. UintBase \in Nat /\ UintBase > 0 /\ Wide \in Nat BY EbmlAssumption
  <2> QED BY <2>1, PowNat
<1> HIDE DEF x
<1>3. t < x /\ t - origin < x BY <1>1, <1>2
<1> QED BY <1>3 DEF x

\* A cluster that is referenced whole.
LEMMA MiddleCarried ==
  ASSUME SourceInv, NEW f, NEW c, NEW k, NEW origin, Prefix(f, File), SourceCluster(f, c, k),
         c.end <= Len(f), origin \in Nat
  PROVE  Carried(Slice(f, c.blocks, c.end), c.timestamp, k, origin)
<1> DEFINE t == source[k].ts
           rest == RestOf(k)
           x == TimedElement(t, rest)
           p == c.off
           a == c.blocks - p
           n == Len(x)
           y == Slice(f, c.blocks, c.end)
           z == Slice(x, a, n)
           F == File
<1>0. f \in Seq(Cell) /\ F \in Seq(Cell) BY DEF Prefix
<1>1. /\ k \in 1..Len(source) /\ ClusterMade(k) /\ p \in Nat /\ At(F, p, x) /\ ClusterElement(k) = x
      /\ c.end = p + n /\ c.end \in Nat
      /\ c.blocks \in Nat /\ p + Wide <= c.blocks /\ c.blocks <= c.end
      /\ c.blocks # c.end => c.blocks \in Marks(f, BlockIds) /\ Timely(c, t)
  BY DEF SourceCluster, ClusterRead
<1>2. /\ t \in Nat /\ rest \in Seq(Cell) /\ Clear(rest, {"Timestamp"})
      /\ Carries(rest, BlockIds, Units(t), Places(k)) /\ Marks(x, HeadIds) \subseteq {0}
  BY <1>1 DEF ClusterMade, RestMade
<1>3. TimedMade(t, rest) BY <1>2, TimedMarks
<1>4. x \in Seq(Cell) /\ \A q \in Marks(x, {"Timestamp"}) : q = Wide BY <1>3 DEF TimedMade
<1>5. t < MaxTime BY <1>1, SourceTypes DEF Timed
<1>6. Wide \in Nat /\ Wide > 0 BY EbmlAssumption
<1>7. Carries(x, BlockIds, Units(t), Places(k)) BY <1>2, TimedCarries
<1>8. CASE c.blocks = c.end
  <2>1. y = <<>>
    <3> DEFINE m == c.end
    <3>1. m \in Nat /\ m <= Len(f) BY <1>1
    <3> HIDE DEF m
    <3>2. Sliced(f, m, m, {}) BY <1>0, <3>1, SliceMarks
    <3>3. Slice(f, m, m) \in Seq(Cell) /\ Len(Slice(f, m, m)) = m - m BY <3>2 DEF Sliced
    <3>4. m - m = 0 BY <3>1
    <3>5. \A s \in Seq(Cell) : Len(s) = 0 => s = <<>> OBVIOUS
    <3>6. Slice(f, m, m) = <<>> BY <3>3, <3>4, <3>5
    <3> QED BY <1>8, <3>6 DEF m
  <2>2. Clear(<<>>, InCluster) /\ Clear(<<>>, {"Timestamp"}) /\ Clear(<<>>, BlockIds) BY MarksOfNone
  <2>3. CarriesSome(<<>>, c.timestamp, k, origin, {})
    <3>1. Carries(<<>>, BlockIds, Units(c.timestamp), {}) BY <2>2, CarriesClear
    <3> QED BY <3>1 DEF CarriesSome, Sayable
  <2>4. <<>> \in Seq(Cell) /\ <<>> \in Chains(BodyUnits) BY UnitStarts, ChainCells DEF ChainsMade
  <2> HIDE DEF y
  <2>5. Carried(y, c.timestamp, k, origin) BY <2>1, <2>2, <2>3, <2>4 DEF Carried
  <2> QED BY <2>5 DEF y
<1>9. CASE c.blocks # c.end
  <2> HIDE DEF F
  <2>1. a \in Nat /\ a <= n /\ n \in Nat /\ Wide <= a /\ c.end - c.blocks = n - a
    <3>1. n \in Nat BY <1>4
    <3> HIDE DEF n, p
    <3> QED BY <1>1, <1>6, <3>1
  <2>2. At(f, p, x)
    <3> HIDE DEF x, p
    <3> QED BY <1>1, <1>4, PrefixAt DEF F
  <2> HIDE DEF x, a
  <2>3. \A ids : Sliced(f, c.blocks, c.end, ids) BY <1>0, <1>1, SliceMarks
  <2>4. \A ids : Sliced(x, a, n, ids) BY <1>4, <2>1, SliceMarks
  <2>5. y = z
    <3>1. /\ y \in Seq(Cell) /\ Len(y) = c.end - c.blocks
          /\ \A i \in 1..(c.end - c.blocks) : y[i] = f[c.blocks + i]
      BY <2>3 DEF Sliced
    <3>2. z \in Seq(Cell) /\ Len(z) = n - a /\ \A i \in 1..(n - a) : z[i] = x[a + i] BY <2>4 DEF Sliced
    <3> HIDE DEF y, z, n, p
    <3>3. ASSUME NEW i \in 1..(n - a) PROVE f[c.blocks + i] = x[a + i]
      <4>1. a + i \in 1..n BY <2>1
      <4>2. p + (a + i) = c.blocks + i BY <1>1, <2>1 DEF a
      <4>3. f[p + (a + i)] = x[a + i] BY <2>2, <4>1 DEF At, n
      <4> QED BY <4>2, <4>3
    <3> DEFINE w == n - a
    <3>4. Len(y) = w /\ Len(z) = w /\ y \in Seq(Cell) /\ z \in Seq(Cell) BY <2>1, <3>1, <3>2
    <3>5. \A i \in 1..w : y[i] = z[i] BY <2>1, <3>1, <3>2, <3>3
    <3> HIDE DEF w
    <3> QED BY <3>4, <3>5
  <2>6. Carries(z, BlockIds, Units(t), Places(k))
    <3> HIDE DEF z
    <3> QED BY <1>4, <1>7, <2>1, CarriesSuffix DEF z
  <2>7. Clear(z, InCluster)
    <3>1. ASSUME NEW q \in Marks(z, InCluster) PROVE FALSE
      <4>1. q \in Nat /\ a + q \in Marks(x, InCluster) BY <2>4 DEF Sliced
      <4>2. a + q \in Marks(x, HeadIds) BY <4>1 DEF Marks, InCluster, HeadIds
      <4>3. a + q = 0 BY <1>2, <4>2 DEF x
      <4> QED BY <1>6, <2>1, <4>1, <4>3
    <3> QED BY <3>1 DEF Clear
  <2>8. Clear(z, {"Timestamp"})
    <3>1. ASSUME NEW q \in Marks(z, {"Timestamp"}) PROVE FALSE
      <4>1. q \in Nat /\ q < n - a /\ a + q \in Marks(x, {"Timestamp"}) BY <2>4 DEF Sliced
      <4>2. a + q = Wide BY <1>4, <4>1 DEF x
      <4>3. q = 0 BY <1>6, <2>1, <4>1, <4>2
      <4>4. z[1].id = "Timestamp" BY <4>3 DEF Marks
      <4>5. f[c.blocks + 1].id \in BlockIds BY <1>1, <1>9 DEF Marks
      <4>6. y[1] = f[c.blocks + 1]
        <5>1. 1 \in 1..(c.end - c.blocks) BY <2>1, <4>1, <4>3
        <5> QED BY <2>3, <5>1 DEF Sliced
      <4> QED BY <2>5, <4>4, <4>5, <4>6 DEF BlockIds
    <3> QED BY <3>1 DEF Clear
  <2>9. z \in Seq(Cell) BY <2>4 DEF Sliced
  <2>10. c.timestamp = t BY <1>1, <1>2, <1>5, <1>9, MaxTimeSaid DEF Timely
  <2>11. CarriesSome(z, t, k, origin, Places(k))
    <3>1. Sayable(t, Places(k)) BY <1>1, PlacesStored DEF Sayable
    <3>2. t - origin < Pow(UintBase, Wide) BY <1>2, <1>5, MaxTimeSaid
    <3> HIDE DEF z, t
    <3> QED BY <2>6, <3>1, <3>2 DEF CarriesSome
  <2>12. z \in Chains(BodyUnits)
    <3>1. 0 \in Marks(z, BlockIds)
      <4>1. Len(z) = n - a /\ n - a \in Nat /\ n - a > 0 BY <1>1, <1>9, <2>1, <2>4 DEF Sliced
      <4>2. z[0 + 1] = f[c.blocks + 1]
        <5>1. 1 \in 1..(c.end - c.blocks) BY <2>1, <4>1
        <5>2. y[1] = f[c.blocks + 1] BY <2>3, <5>1 DEF Sliced
        <5> HIDE DEF y, z
        <5> QED BY <2>5, <5>2
      <4> HIDE DEF z
      <4> QED BY <1>1, <1>9, <4>1, <4>2 DEF Marks
    <3>2. a \in Marks(x, BlockIds)
      <4> HIDE DEF z
      <4>1. a + 0 \in Marks(x, BlockIds) BY <2>4, <3>1 DEF Sliced, z
      <4> QED BY <2>1, <4>1
    <3>3. rest \in Chains(BodyUnits) BY <1>1, RestUnits
    <3>4. t \in Int BY <1>2
    <3> HIDE DEF t, rest
    <3> QED BY <3>2, <3>3, <3>4, ClusterChain DEF x
  <2> HIDE DEF y, z, t
  <2>13. Carried(y, c.timestamp, k, origin) BY <2>5, <2>7, <2>8, <2>9, <2>10, <2>11, <2>12 DEF Carried
  <2> QED BY <2>13 DEF y
<1> QED BY <1>8, <1>9

LEMMA NothingCarried ==
  ASSUME NEW t, NEW k, NEW origin
  PROVE  Carried(<<>>, t, k, origin)
<1>1. Clear(<<>>, InCluster) /\ Clear(<<>>, {"Timestamp"}) /\ Clear(<<>>, BlockIds) BY MarksOfNone
<1>2. CarriesSome(<<>>, t, k, origin, {})
  <2>1. Carries(<<>>, BlockIds, Units(t), {}) BY <1>1, CarriesClear
  <2> QED BY <2>1 DEF CarriesSome, Sayable
<1>3. <<>> \in Seq(Cell) /\ <<>> \in Chains(BodyUnits) BY UnitStarts, ChainCells DEF ChainsMade
<1> QED BY <1>1, <1>2, <1>3 DEF Carried

\* The blocks that are read from a cluster of the source, and its timestamp.
BlocksRead(f, c, k, blocks) ==
  Read(f, blocks, k) /\ (blocks # <<>> => c.timestamp = source[k].ts)

LEMMA SourceBlocksRead ==
  ASSUME SourceInv, NEW f, NEW c, NEW k, Prefix(f, File), Small(File), SourceCluster(f, c, k),
         c \in FileCluster(f), c.ok, readBlocks(f, c).ok
  PROVE  BlocksRead(f, c, k, readBlocks(f, c).blocks)
<1> DEFINE t == source[k].ts
           rest == RestOf(k)
           blocks == readBlocks(f, c).blocks
           p == c.off
           D == Places(k)
<1>0. f \in Seq(Cell) BY DEF Prefix
<1>1. /\ k \in 1..Len(source) /\ ClusterMade(k) /\ p \in Nat /\ At(File, p, TimedElement(t, rest))
      /\ ClusterRead(f, c, p, t, rest)
  BY DEF SourceCluster
<1>2. /\ t \in Nat /\ rest \in Seq(Cell) /\ Clear(rest, {"Timestamp"})
      /\ Carries(rest, BlockIds, Units(t), D)
  BY <1>1 DEF ClusterMade, RestMade
<1>3. t < Pow(UintBase, Wide)
  <2>1. t < MaxTime BY <1>1, SourceTypes DEF Timed
  <2> QED BY <1>2, <2>1, MaxTimeSaid
<1>4. Sayable(t, D) BY <1>1, PlacesStored DEF Sayable
<1>5. blocks \in Blocks(f) BY <1>0, ReadBlocksType DEF Blocks
<1>6. t \in Int BY <1>2
<1>7. blocks # <<>> => c.timestamp = t
  <2>1. SUFFICES ASSUME blocks # <<>> PROVE c.timestamp = t OBVIOUS
  <2>2. BlocksIn(f, c, blocks) BY <1>0, ReadBlocksIn
  <2>3. 1 \in 1..Len(blocks) BY <1>5, <2>1 DEF Blocks
  <2>4. PICK es : BlockIn(f, c, blocks[1], es[1]) BY <2>2, <2>3 DEF BlocksIn
  <2>5. es[1] \in Elem /\ c.blocks <= es[1].from /\ es[1].from < c.end BY <2>4 DEF BlockIn
  <2>6. es[1].from \in Nat BY <2>5 DEF Elem
  <2>7. c.blocks \in Nat /\ c.end \in Nat BY <1>1 DEF ClusterRead
  <2>8. c.blocks # c.end BY <2>5, <2>6, <2>7
  <2> QED BY <1>1, <1>3, <2>8 DEF ClusterRead, Timely
<1> HIDE DEF t, rest, D, blocks, p
<1>8. AllRead(f, readBlocks(f, c).blocks, t, t, D) BY <1>1, <1>2, <1>3, <1>4, <1>6, BlocksReadAs
<1>9. Read(f, blocks, k) BY <1>5, <1>8 DEF Read, blocks, t, D
<1> QED BY <1>7, <1>9 DEF BlocksRead, blocks, t

\* What is kept of the blocks of a cluster.
LEMMA KeptRead ==
  ASSUME SourceInv, NEW f, NEW blocks, NEW c, NEW k, NEW video, NEW time, BlocksRead(f, c, k, blocks)
  PROVE  /\ BlocksRead(f, c, k, keepFrom(blocks, video, time))
         /\ BlocksRead(f, c, k, keepUntil(blocks, video, time))
<1> DEFINE U == FileBlock(f)
           t == source[k].ts
           D == Places(k)
<1>1. blocks \in Seq(U) /\ AllRead(f, blocks, t, t, D) /\ blocks \in Blocks(f) BY DEF BlocksRead, Read, Blocks
<1> HIDE DEF U
<1>2. ASSUME NEW kept, NEW I, kept = Where(blocks, I), kept \in Blocks(f)
      PROVE  BlocksRead(f, c, k, kept)
  <2>1. Picked(Where(blocks, I), blocks, I) BY <1>1, WherePicks
  <2>2. Picked(kept, blocks, I) BY <1>2, <2>1
  <2>3. AllRead(f, kept, t, t, D)
    <3> HIDE DEF t, D
    <3> QED BY <1>1, <2>2, PickedRead
  <2>4. kept # <<>> => blocks # <<>>
    <3>1. SUFFICES ASSUME kept # <<>> PROVE blocks # <<>> OBVIOUS
    <3>2. PICK m : PickedBy(kept, blocks, I, m) BY <2>2 DEF Picked
    <3>3. 1 \in 1..Len(kept) BY <1>2, <3>1 DEF Blocks
    <3>4. m[1] \in 1..Len(blocks) BY <3>2, <3>3 DEF PickedBy
    <3> QED BY <3>4
  <2>5. Read(f, kept, k) BY <1>2, <2>3 DEF Read
  <2> QED BY <2>4, <2>5 DEF BlocksRead
<1>3. keepFrom(blocks, video, time) \in Blocks(f) /\ keepUntil(blocks, video, time) \in Blocks(f)
  BY <1>1, KeptType
<1>4. \E I : keepFrom(blocks, video, time) = Where(blocks, I) BY DEF keepFrom
<1>5. \E I : keepUntil(blocks, video, time) = Where(blocks, I) BY DEF keepUntil
<1> QED BY <1>2, <1>3, <1>4, <1>5

\* The clusters that are collected from the source are some of it, in their order.
SourceClusters(f, clusters, ks) ==
  \A i \in 1..Len(clusters) :
    /\ ks[i] \in 1..Len(source) /\ SourceCluster(f, clusters[i], ks[i])
    /\ \A j \in 1..Len(clusters) : i < j => ks[i] < ks[j]

FromSource(f, clusters) == \E ks : SourceClusters(f, clusters, ks)

LEMMA CollectedSource ==
  ASSUME SourceInv, NEW f, NEW clusters, NEW p, Prefix(f, File), Small(File), Lined(f, clusters, p),
         Intactly(f, clusters)
  PROVE  FromSource(f, clusters)
<1> DEFINE S == 1..Len(source)
           n == Len(clusters)
           off(i) == clusters[i].off
<1>1. Carries(File, InCluster, ClusterUnits, S) BY FileCarries
<1>2. PICK g : Numbered(File, InCluster, ClusterUnits, S, g) BY <1>1 DEF Carries
<1> DEFINE ks == [i \in 1..n |-> g[off(i)]]
<1>3. ASSUME NEW i \in 1..n
      PROVE  /\ off(i) \in Marks(File, InCluster) /\ SourceCluster(f, clusters[i], g[off(i)])
             /\ off(i) \in Nat /\ clusters[i].end \in Int /\ off(i) < clusters[i].end
  <2>1. clusters[i] \in FileCluster(f) /\ clusters[i].ok BY <1>3 DEF Intactly
  <2>2. clusters[i] = readCluster(f, off(i)) BY DEF Lined
  <2>3. off(i) \in Nat /\ clusters[i].end \in Int /\ off(i) < clusters[i].end BY <2>1 DEF FileCluster
  <2>4. readCluster(f, off(i)).ok BY <2>1, <2>2
  <2> HIDE DEF off
  <2>5. off(i) \in Marks(File, InCluster) /\ SourceCluster(f, readCluster(f, off(i)), g[off(i)])
    BY <1>2, <2>3, <2>4, SourceClusterRead
  <2> QED BY <2>2, <2>3, <2>5
<1>4. ASSUME NEW i \in 1..n, NEW j \in 1..n, i < j PROVE g[off(i)] < g[off(j)]
  <2>1. clusters[i].end <= off(j) BY <1>4 DEF Lined
  <2>2. off(i) < off(j)
    <3> HIDE DEF off
    <3> QED BY <1>3, <2>1
  <2>3. off(i) \in Marks(File, InCluster) /\ off(j) \in Marks(File, InCluster) BY <1>3
  <2> HIDE DEF off
  <2> QED BY <1>2, <2>2, <2>3 DEF Numbered
<1>5. \A i \in 1..n : g[off(i)] \in S BY <1>2, <1>3 DEF Numbered
<1> HIDE DEF off
<1>6. SourceClusters(f, clusters, ks)
  <2>1. \A i \in 1..n : ks[i] = g[off(i)] OBVIOUS
  <2> HIDE DEF ks
  <2> QED BY <1>3, <1>4, <1>5, <2>1 DEF SourceClusters
<1> QED BY <1>6 DEF FromSource

\* The blocks of the last cluster, and those of the first one in the time base of the clip.
LEMMA LastCarried ==
  ASSUME SourceInv, NEW f, NEW c, NEW k, NEW blocks, NEW origin, f \in Seq(Cell), k \in 1..Len(source),
         BlocksRead(f, c, k, blocks), origin \in Nat
  PROVE  Carried(Content(blockParts(blocks), f), c.timestamp, k, origin)
<1> DEFINE x == Content(blockParts(blocks), f)
<1>1. Read(f, blocks, k) /\ (blocks # <<>> => c.timestamp = source[k].ts) BY DEF BlocksRead
<1>2. CASE blocks = <<>>
  <2> DEFINE g == [i \in DOMAIN blocks |-> RangeOf(blocks[i].off, blocks[i].len)]
  <2>1. g = <<>> BY <1>2
  <2>2. blockParts(blocks) = AppendAll(<<>>, g) BY DEF blockParts
  <2> HIDE DEF g
  <2>3. <<>> \in FileParts(f) BY NothingLaid
  <2>4. Content(AppendAll(<<>>, <<>>), f) = Content(<<>>, f) BY <2>3, AddedContent
  <2>5. x = <<>> BY <2>1, <2>2, <2>4, ContentEmpty
  <2> HIDE DEF x
  <2>6. Carried(<<>>, c.timestamp, k, origin) BY NothingCarried
  <2> QED BY <2>5, <2>6 DEF x
<1>3. CASE blocks # <<>>
  <2>1. Carried(x, source[k].ts, k, origin) BY <1>1, PartsCarried
  <2> HIDE DEF x
  <2> QED BY <1>1, <1>3, <2>1 DEF x
<1> QED BY <1>2, <1>3

LEMMA FirstCarried ==
  ASSUME SourceInv, NEW f, NEW c, NEW k, NEW blocks, NEW base, f \in Seq(Cell), k \in 1..Len(source),
         BlocksRead(f, c, k, blocks), base \in Nat, rebased(f, c, blocks, base).ok
  PROVE  Carried(Content(rebased(f, c, blocks, base).parts, f), base, k, base)
<1> DEFINE r == rebased(f, c, blocks, base)
           q == rebasedParts(f, blocks, base)
<1>1. CASE c.timestamp = base
  <2>1. r.parts = blockParts(blocks) BY <1>1 DEF rebased
  <2>2. Carried(Content(blockParts(blocks), f), base, k, base) BY <1>1, LastCarried
  <2> HIDE DEF r
  <2>3. Carried(Content(r.parts, f), base, k, base) BY <2>1, <2>2
  <2> QED BY <2>3 DEF r
<1>2. CASE c.timestamp # base
  <2>1. r = q BY <1>2 DEF rebased
  <2>2. Read(f, blocks, k) BY DEF BlocksRead
  <2> HIDE DEF r
  <2>3. q.ok BY <2>1 DEF r
  <2>4. Carried(Content(q.parts, f), base, k, base) BY <2>2, <2>3, RebasedCarried
  <2> HIDE DEF q
  <2>5. Carried(Content(r.parts, f), base, k, base) BY <2>1, <2>4
  <2> QED BY <2>5 DEF r
<1> QED BY <1>1, <1>2

\* What the clusters of a clip carry of the source's.
CutCarries(f, cs, base, ks) ==
  \A i \in 1..Len(cs) :
    /\ ks[i] \in 1..Len(source) /\ cs[i].timestamp \in Nat /\ base <= cs[i].timestamp
    /\ Carried(Content(cs[i].body, f), cs[i].timestamp, ks[i], base)
    /\ \A j \in 1..Len(cs) : i < j => ks[i] < ks[j]

\* The cells of a cluster in the middle.
LEMMA WholeCarried ==
  ASSUME SourceInv, NEW f, NEW c, NEW k, NEW origin, Prefix(f, File), SourceCluster(f, c, k),
         c \in FileCluster(f), c.ok, c.end <= Len(f), origin \in Nat
  PROVE  Carried(Content(<<RangeOf(c.blocks, c.end - c.blocks)>>, f), c.timestamp, k, origin)
<1> DEFINE o == c.blocks
           m == c.end - c.blocks
<1>1. f \in Seq(Cell) BY DEF Prefix
<1>2. c.blocks \in Int /\ c.end \in Int /\ 0 <= c.blocks /\ c.blocks <= c.end BY DEF FileCluster
<1>3. o \in Nat /\ m \in Nat /\ o + m <= Len(f) /\ o + m = c.end
  <2>1. Len(f) \in Nat BY <1>1
  <2> QED BY <1>2, <2>1
<1>4. Carried(Slice(f, c.blocks, c.end), c.timestamp, k, origin) BY MiddleCarried
<1> HIDE DEF m
<1>5. Content(<<RangeOf(o, m)>>, f) = SubSeq(f, o + 1, o + m) BY <1>1, <1>3, RangeContent
<1>6. Slice(f, c.blocks, c.end) = SubSeq(f, o + 1, o + m) BY <1>3 DEF Slice
<1>7. Carried(Content(<<RangeOf(o, m)>>, f), c.timestamp, k, origin) BY <1>4, <1>5, <1>6
<1> QED BY <1>7 DEF m

LEMMA CutCarried ==
  ASSUME SourceInv, NEW f, NEW src, NEW clusters, NEW firstParts, NEW lastBlocks, NEW base, NEW endT, NEW ks,
         Prefix(f, File), Intactly(f, clusters), clusters \in Seq(FileCluster(f)),
         SourceClusters(f, clusters, ks), base \in Nat,
         \A i \in 2..Len(clusters) : base <= clusters[i].timestamp,
         Carried(Content(firstParts, f), base, ks[1], base),
         BlocksRead(f, Last(clusters), ks[Len(clusters)], lastBlocks)
  PROVE  CutCarries(f, cutClusters(clusters, firstParts, lastBlocks, src, base, endT), base, ks)
<1> DEFINE n == Len(clusters)
           last == blockParts(keepUntil(lastBlocks, src.video, endT))
           whole(c) == <<RangeOf(c.blocks, c.end - c.blocks)>>
           cut(i) == [off |-> clusters[i].off, timestamp |-> IF i = 1 THEN base ELSE clusters[i].timestamp,
                      body |-> IF i = 1 THEN firstParts ELSE IF i = n THEN last ELSE whole(clusters[i])]
           g == [i \in 1..n |-> cut(i)]
<1>0. f \in Seq(Cell) BY DEF Prefix
<1>1. n \in Nat
  <2> DEFINE T == FileCluster(f)
  <2>1. clusters \in Seq(T) OBVIOUS
  <2> HIDE DEF T
  <2> QED BY <2>1
<1>2. cutClusters(clusters, firstParts, lastBlocks, src, base, endT) = g BY DEF cutClusters
<1>3. \A i \in 1..n : /\ clusters[i] \in FileCluster(f) /\ clusters[i].ok
                      /\ i < n => clusters[i].end <= Len(f)
  BY DEF Intactly
<1>4. \A i \in 1..n : ks[i] \in 1..Len(source) /\ SourceCluster(f, clusters[i], ks[i])
  BY DEF SourceClusters
<1>5. \A i, j \in 1..n : i < j => ks[i] < ks[j] BY DEF SourceClusters
<1>6. ASSUME NEW i \in 1..n, i = n PROVE Carried(Content(last, f), clusters[i].timestamp, ks[i], base)
  <2> DEFINE c == clusters[i]
             k == ks[i]
             kept == keepUntil(lastBlocks, src.video, endT)
  <2>1. Last(clusters) = c BY <1>6 DEF Last
  <2>2. BlocksRead(f, c, k, lastBlocks) BY <1>6, <2>1
  <2>3. k \in 1..Len(source) BY <1>4
  <2> HIDE DEF c, k
  <2>4. BlocksRead(f, c, k, kept) BY <2>2, KeptRead
  <2> HIDE DEF kept
  <2>5. Carried(Content(blockParts(kept), f), c.timestamp, k, base) BY <1>0, <2>3, <2>4, LastCarried
  <2> QED BY <2>5 DEF c, k, kept
<1>7. ASSUME NEW i \in 1..n, i # n PROVE Carried(Content(whole(clusters[i]), f), clusters[i].timestamp, ks[i], base)
  <2> DEFINE c == clusters[i]
             k == ks[i]
  <2>1. i < n BY <1>1, <1>7
  <2>2. c \in FileCluster(f) /\ c.ok /\ c.end <= Len(f) /\ SourceCluster(f, c, k) BY <1>3, <1>4, <2>1
  <2> HIDE DEF c, k
  <2>3. Carried(Content(<<RangeOf(c.blocks, c.end - c.blocks)>>, f), c.timestamp, k, base)
    BY <2>2, WholeCarried
  <2> QED BY <2>3 DEF c, k
<1>8. \A c \in FileCluster(f) : c.timestamp \in Nat BY DEF FileCluster
<1>9. \A i \in 1..n : clusters[i].timestamp \in Nat BY <1>3, <1>8
<1> HIDE DEF last, whole
<1>10. ASSUME NEW i \in 1..n
       PROVE  /\ cut(i).timestamp \in Nat /\ base <= cut(i).timestamp
              /\ Carried(Content(cut(i).body, f), cut(i).timestamp, ks[i], base)
  <2>1. CASE i = 1
    <3>1. cut(i).timestamp = base /\ cut(i).body = firstParts BY <2>1
    <3> HIDE DEF cut
    <3>2. base <= base OBVIOUS
    <3> QED BY <2>1, <3>1, <3>2
  <2>2. CASE i # 1
    <3>1. /\ cut(i).timestamp = clusters[i].timestamp
          /\ cut(i).body = IF i = n THEN last ELSE whole(clusters[i])
      BY <2>2
    <3> HIDE DEF cut
    <3>2. i \in 2..n BY <1>1, <2>2
    <3>3. base <= clusters[i].timestamp BY <3>2
    <3> HIDE DEF n
    <3> QED BY <1>6, <1>7, <1>9, <3>1, <3>3
  <2> QED BY <2>1, <2>2
<1> DEFINE cs == g
<1>11. Len(cs) = n /\ \A i \in 1..n : cs[i] = cut(i)
  <2>1. n \in Nat BY <1>1
  <2> HIDE DEF cut, n
  <2> QED BY <2>1
<1> HIDE DEF cs, cut
<1>12. CutCarries(f, cs, base, ks)
  <2> HIDE DEF n
  <2> QED BY <1>4, <1>5, <1>10, <1>11 DEF CutCarries
<1> QED BY <1>2, <1>12 DEF cs

\* A clip that is built is put together of clusters that carry some of the source's.
BuiltBy(f, src, built, cs, endT, ks) ==
  /\ cs \in Seq(CutCluster(f)) /\ cs # <<>> /\ endT \in Int /\ built.start \in Nat
  /\ built.end = endT /\ cs[1].timestamp = built.start
  /\ Titled(f, src, cs, built.start, endT, built.parts)
  /\ Keyed(f, src, cs, built.start, endT)
  /\ CutCarries(f, cs, built.start, ks)

BuiltAs(f, src, built) ==
  built.ok => SourceOf(f, src) /\ \E cs, endT, ks : BuiltBy(f, src, built, cs, endT, ks)

LEMMA FailedBuilt ==
  ASSUME NEW f, NEW src
  PROVE  BuiltAs(f, src, Failed)
BY DEF BuiltAs, Failed

LEMMA AssembledBuilt ==
  ASSUME SourceInv, NEW f, NEW src, NEW clusters, NEW first, NEW lastBlocks, NEW base, NEW endT, NEW title, NEW ks,
         Prefix(f, File), SourceOf(f, src), clusters \in Seq(FileCluster(f)), Intactly(f, clusters),
         clusters # <<>>, SourceClusters(f, clusters, ks), first.parts \in FileParts(f), lastBlocks \in Blocks(f),
         base \in Nat, endT \in Int, title \in Cell,
         first.ok => Carried(Content(first.parts, f), base, ks[1], base),
         BlocksRead(f, Last(clusters), ks[Len(clusters)], lastBlocks), Keyed(f, src, clusters, base, endT)
  PROVE  BuiltAs(f, src, assembledClip(f, src, clusters, first, lastBlocks, base, endT, title))
<1> DEFINE cs == cutClusters(clusters, first.parts, lastBlocks, src, base, endT)
           parts == assemble(f, src, cs, base, endT, title)
           built == assembledClip(f, src, clusters, first, lastBlocks, base, endT, title)
           late == \E i \in 2..Len(clusters) : clusters[i].timestamp < base
<1>0. f \in Seq(Cell) /\ base \in Int BY DEF Prefix
<1>1. cs \in Seq(CutCluster(f)) BY <1>0, CutClustersType
<1>2. cs # <<>>
  <2>1. DOMAIN cs = 1..Len(clusters) BY DEF cutClusters
  <2>2. 1 \in 1..Len(clusters)
    <3> DEFINE T == FileCluster(f)
    <3>1. clusters \in Seq(T) /\ clusters # <<>> OBVIOUS
    <3> HIDE DEF T, cs
    <3> QED BY <3>1
  <2> HIDE DEF cs
  <2> QED BY <2>1, <2>2
<1>6. cs[1].timestamp = base /\ Keyed(f, src, cs, base, endT)
  <2> DEFINE n == Len(clusters)
             T == FileCluster(f)
  <2>1. n \in Nat /\ n >= 1
    <3>1. clusters \in Seq(T) /\ clusters # <<>> OBVIOUS
    <3> HIDE DEF T
    <3> QED BY <3>1
  <2>2. \A i \in 1..n : cs[i].off = clusters[i].off /\ cs[i].timestamp = IF i = 1 THEN base ELSE clusters[i].timestamp
    BY DEF cutClusters
  <2>3. Len(cs) = n /\ 1 \in 1..n
    <3>1. DOMAIN cs = 1..n BY DEF cutClusters
    <3>2. cs \in Seq(CutCluster(f)) BY <1>1
    <3> DEFINE U == CutCluster(f)
    <3> HIDE DEF cs, n, U
    <3> QED BY <2>1, <3>1, <3>2 DEF U
  <2> HIDE DEF cs
  <2>4. cs[1].off = clusters[1].off /\ cs[1].timestamp = base BY <2>2, <2>3
  <2>5. \A i \in 2..n : cs[i].timestamp = clusters[i].timestamp
    <3>1. \A i \in 2..n : i \in 1..n /\ i # 1 BY <2>1
    <3> HIDE DEF n
    <3> QED BY <2>2, <3>1
  <2> QED BY <2>3, <2>4, <2>5 DEF Keyed
<1>3. built = IF ~first.ok \/ late THEN Failed
              ELSE [ok |-> TRUE, start |-> base, end |-> endT, parts |-> parts]
  BY DEF assembledClip
<1>4. CASE ~first.ok \/ late
  <2> HIDE DEF built
  <2>1. BuiltAs(f, src, built) BY <1>3, <1>4, FailedBuilt
  <2> QED BY <2>1 DEF built
<1>5. CASE ~(~first.ok \/ late)
  <2>1. ASSUME NEW i \in 2..Len(clusters) PROVE base <= clusters[i].timestamp
    <3>1. ~(clusters[i].timestamp < base) BY <1>5
    <3>2. Len(clusters) \in Nat
      <4> DEFINE T == FileCluster(f)
      <4>1. clusters \in Seq(T) OBVIOUS
      <4> HIDE DEF T
      <4> QED BY <4>1
    <3>3. i \in 1..Len(clusters) BY <3>2
    <3>4. clusters[i] \in FileCluster(f) BY <3>3 DEF Intactly
    <3>5. clusters[i].timestamp \in Nat BY <3>4 DEF FileCluster
    <3> QED BY <3>1, <3>5
  <2> DEFINE fp == first.parts
  <2>2. Carried(Content(fp, f), base, ks[1], base) BY <1>5
  <2>3. cs = cutClusters(clusters, fp, lastBlocks, src, base, endT) OBVIOUS
  <2> HIDE DEF fp, cs
  <2>4. CutCarries(f, cs, base, ks) BY <2>1, <2>2, <2>3, CutCarried
  <2>5. Titled(f, src, cs, base, endT, parts)
    <3>1. AssembledAs(f, src, cs, base, endT, title, parts) BY <1>0, <1>1, AssembledShaped
    <3> HIDE DEF parts
    <3> QED BY <3>1 DEF Titled
  <2>6. built.ok /\ built.start = base /\ built.end = endT /\ built.parts = parts BY <1>3, <1>5
  <2>8. cs[1].timestamp = base /\ Keyed(f, src, cs, base, endT) BY <1>6
  <2> HIDE DEF built, parts
  <2>7. BuiltBy(f, src, built, cs, endT, ks) BY <1>1, <1>2, <2>4, <2>5, <2>6, <2>8 DEF BuiltBy
  <2>9. BuiltAs(f, src, built) BY <2>7 DEF BuiltAs
  <2> QED BY <2>9 DEF built
<1> QED BY <1>4, <1>5

LEMMA FilteredBuilt ==
  ASSUME SourceInv, NEW f, NEW src, NEW clusters, NEW firstBlocks, NEW lastBlocks, NEW base, NEW endT, NEW title,
         NEW ks, Prefix(f, File), SourceOf(f, src), clusters \in Seq(FileCluster(f)), Intactly(f, clusters),
         clusters # <<>>, SourceClusters(f, clusters, ks), firstBlocks \in Blocks(f), lastBlocks \in Blocks(f),
         base \in Nat, endT \in Int, title \in Cell,
         BlocksRead(f, clusters[1], ks[1], firstBlocks),
         BlocksRead(f, Last(clusters), ks[Len(clusters)], lastBlocks), Keyed(f, src, clusters, base, endT)
  PROVE  BuiltAs(f, src, filteredClip(f, src, clusters, firstBlocks, lastBlocks, base, endT, title))
<1> DEFINE c == clusters[1]
           k == ks[1]
           kept == keepFrom(firstBlocks, src.video, base)
           keep == IF Len(clusters) = 1 THEN keepUntil(kept, src.video, endT) ELSE kept
           first == rebased(f, c, keep, base)
<1>0. f \in Seq(Cell) /\ base \in Int BY DEF Prefix
<1>1. k \in 1..Len(source)
  <2>1. 1 \in 1..Len(clusters)
    <3> DEFINE T == FileCluster(f)
    <3>1. clusters \in Seq(T) /\ clusters # <<>> OBVIOUS
    <3> HIDE DEF T
    <3> QED BY <3>1
  <2> QED BY <2>1 DEF SourceClusters
<1>2. BlocksRead(f, c, k, firstBlocks) OBVIOUS
<1>3. filteredClip(f, src, clusters, firstBlocks, lastBlocks, base, endT, title)
        = assembledClip(f, src, clusters, first, lastBlocks, base, endT, title)
  BY DEF filteredClip
<1> HIDE DEF c, k
<1>4. kept \in Blocks(f) BY KeptType
<1>5. BlocksRead(f, c, k, kept) BY <1>2, KeptRead
<1> HIDE DEF kept
<1>6. keepUntil(kept, src.video, endT) \in Blocks(f) BY <1>4, KeptType
<1>7. BlocksRead(f, c, k, keepUntil(kept, src.video, endT)) BY <1>5, KeptRead
<1>8. keep \in Blocks(f) /\ BlocksRead(f, c, k, keep) BY <1>4, <1>5, <1>6, <1>7
<1> HIDE DEF keep
<1>9. first.parts \in FileParts(f) BY <1>0, <1>8, RebasedType
<1>10. first.ok => Carried(Content(first.parts, f), base, k, base) BY <1>0, <1>1, <1>8, FirstCarried
<1> HIDE DEF first
<1>11. first.ok => Carried(Content(first.parts, f), base, ks[1], base) BY <1>10 DEF k
<1>12. BuiltAs(f, src, assembledClip(f, src, clusters, first, lastBlocks, base, endT, title))
  BY <1>9, <1>11, AssembledBuilt
<1> QED BY <1>3, <1>12

LEMMA ClipFromBuilt ==
  ASSUME SourceInv, NEW f, NEW src, NEW clusters, NEW p, NEW base, NEW endT, NEW title,
         Prefix(f, File), Small(File), SourceOf(f, src), Lined(f, clusters, p), base \in Nat, endT \in Int,
         title \in Cell, clusters # <<>> /\ Intactly(f, clusters) => Keyed(f, src, clusters, base, endT)
  PROVE  BuiltAs(f, src, clipFrom(f, src, clusters, base, endT, title))
<1> DEFINE first == readBlocks(f, clusters[1])
           last == readBlocks(f, Last(clusters))
           built == clipFrom(f, src, clusters, base, endT, title)
<1>0. f \in Seq(Cell) BY DEF Prefix
<1>1. CASE clusters = <<>> \/ (\E i \in DOMAIN clusters : ~clusters[i].ok) \/ ~first.ok \/ ~last.ok
  <2>1. built = Failed BY <1>1 DEF clipFrom
  <2> HIDE DEF built
  <2>2. BuiltAs(f, src, built) BY <2>1, FailedBuilt
  <2> QED BY <2>2 DEF built
<1>2. CASE ~(clusters = <<>> \/ (\E i \in DOMAIN clusters : ~clusters[i].ok) \/ ~first.ok \/ ~last.ok)
  <2>1. built = filteredClip(f, src, clusters, first.blocks, last.blocks, base, endT, title)
    BY <1>2 DEF clipFrom
  <2>2. Intactly(f, clusters) /\ clusters \in Seq(FileCluster(f)) BY <1>0, <1>2, LinedIntactly
  <2>a. FromSource(f, clusters) BY <2>2, CollectedSource
  <2>b. PICK ks : SourceClusters(f, clusters, ks) BY <2>a DEF FromSource
  <2> DEFINE T == FileCluster(f)
             a == clusters[1]
             z == Last(clusters)
             k == ks[1]
             l == ks[Len(clusters)]
  <2>3. clusters \in Seq(T) /\ clusters # <<>> BY <1>2, <2>2
  <2> HIDE DEF T
  <2>4. 1 \in 1..Len(clusters) /\ Len(clusters) \in 1..Len(clusters) BY <2>3
  <2>5. z = clusters[Len(clusters)] BY DEF Last
  <2>6. a \in FileCluster(f) /\ a.ok /\ z \in FileCluster(f) /\ z.ok BY <2>2, <2>4, <2>5 DEF Intactly
  <2>c. SourceCluster(f, a, k) /\ SourceCluster(f, z, l) BY <2>b, <2>4, <2>5 DEF SourceClusters
  <2>7. first = readBlocks(f, a) /\ last = readBlocks(f, z) OBVIOUS
  <2>8. first.ok /\ last.ok BY <1>2
  <2> HIDE DEF a, z, first, last, built, k, l
  <2>9. first.blocks \in Blocks(f) /\ last.blocks \in Blocks(f)
    BY <1>0, <2>6, <2>7, <2>8, ReadBlocksType DEF Blocks
  <2>d. BlocksRead(f, a, k, readBlocks(f, a).blocks) BY <2>6, <2>7, <2>8, <2>c, SourceBlocksRead
  <2>e. BlocksRead(f, z, l, readBlocks(f, z).blocks) BY <2>6, <2>7, <2>8, <2>c, SourceBlocksRead
  <2> DEFINE fb == first.blocks
             lb == last.blocks
  <2>10. fb \in Blocks(f) /\ lb \in Blocks(f) BY <2>9
  <2>f. BlocksRead(f, a, k, fb) /\ BlocksRead(f, z, l, lb) BY <2>7, <2>d, <2>e
  <2> HIDE DEF fb, lb
  <2>g. BlocksRead(f, clusters[1], ks[1], fb) /\ BlocksRead(f, Last(clusters), ks[Len(clusters)], lb)
    BY <2>f DEF a, z, k, l
  <2>11. BuiltAs(f, src, filteredClip(f, src, clusters, fb, lb, base, endT, title))
    BY <2>2, <2>3, <2>10, <2>b, <2>g, FilteredBuilt
  <2>12. BuiltAs(f, src, built) BY <2>1, <2>11 DEF fb, lb
  <2> QED BY <2>12 DEF built
<1> QED BY <1>1, <1>2

\* Whatever is asked for, a clip is put together of clusters that carry some of the source's.
LEMMA BuildBuilt ==
  ASSUME SourceInv, NEW f, NEW src, NEW start, NEW end, NEW title, Prefix(f, File), Small(File),
         SourceOf(f, src), end \in Nat, title \in Cell
  PROVE  BuiltAs(f, src, BuildClip(f, src, start, end, title))
<1> DEFINE endT == IF src.duration > 0 /\ src.duration < end THEN src.duration ELSE end
           key == keyCue(src.cues, start)
           clusters == collectClusters(f, src, key.off, endT)
           built == BuildClip(f, src, start, end, title)
<1>0. f \in Seq(Cell) BY DEF Prefix
<1>1. /\ src.duration \in Nat /\ src.cues \in Seq(Cue) /\ src.cues # <<>> /\ src.segEnd \in Nat
  BY DEF SourceOf
<1>2. key \in Cue BY <1>1, KeyCueType
<1>3. built = Failed \/ (built = clipFrom(f, src, clusters, key.time, endT, title) /\ ~(key.time >= endT))
  BY DEF BuildClip
<1>4. endT \in Int BY <1>1
<1>11. \E i \in 1..Len(src.cues) : key = src.cues[i] BY <1>1, KeyCueOf
<1> HIDE DEF key, endT, built
<1>5. key.off \in Nat /\ key.time \in Nat BY <1>2 DEF Cue
<1> DEFINE o == key.off
           t == key.time
<1>6. o \in Nat /\ t \in Nat BY <1>5
<1>7. clusters = collectClusters(f, src, o, endT) OBVIOUS
<1> HIDE DEF o, clusters
<1>8. Lined(f, clusters, o) BY <1>0, <1>1, <1>6, <1>7, CollectedLined
<1>12. CollectedFrom(f, o, clusters, endT) BY <1>0, <1>1, <1>4, <1>6, <1>7, CollectedIsFrom
<1>13. ASSUME clusters # <<>>, Intactly(f, clusters), ~(t >= endT) PROVE Keyed(f, src, clusters, t, endT)
  <2>1. t < endT BY <1>4, <1>6, <1>13
  <2>2. PICK i \in 1..Len(src.cues) : key = src.cues[i] BY <1>11
  <2>3. src.cues[i].time = t /\ src.cues[i].off = o BY <2>2 DEF o
  <2>4. Cued(f, src) => ReadHeaderAt(f, o).id \in {"Cluster", "bad"} BY <2>3 DEF Cued
  <2>5. Cued(f, src) => clusters[1].off = o BY <1>12, <1>13, <2>4 DEF CollectedFrom
  <2>6. \A j \in 2..Len(clusters) : clusters[j].timestamp < endT
    <3>1. Len(clusters) \in Nat
      <4> DEFINE T == FileCluster(f)
      <4>1. clusters \in Seq(T) BY <1>8 DEF Lined
      <4> HIDE DEF T
      <4> QED BY <4>1
    <3>2. \A j \in 2..Len(clusters) : j \in 1..Len(clusters) BY <3>1
    <3>3. \A j \in 1..Len(clusters) : clusters[j].ok BY <1>13 DEF Intactly
    <3> QED BY <1>12, <3>2, <3>3 DEF CollectedFrom
  <2> HIDE DEF t
  <2> QED BY <2>1, <2>3, <2>5, <2>6 DEF Keyed
<1> HIDE DEF t
<1>9. ~(t >= endT) => BuiltAs(f, src, clipFrom(f, src, clusters, t, endT, title))
  BY <1>4, <1>6, <1>8, <1>13, ClipFromBuilt
<1>10. BuiltAs(f, src, built) BY <1>3, <1>9, FailedBuilt DEF t
<1> QED BY <1>10 DEF built

LEMMA MkvBuilt ==
  ASSUME SourceInv, NEW f, NEW start, NEW end, Prefix(f, File), Small(File), end \in Nat
  PROVE  BuiltAs(f, Open(f), buildMKV(f, Open(f), start, end))
<1> DEFINE src == Open(f)
           title == [is |-> "text"]
<1>0. f \in Seq(Cell) BY DEF Prefix
<1>1. title \in Cell BY NewCells
<1>2. src.ok => SourceOf(f, src) BY <1>0, OpenType
<1>3. buildMKV(f, src, start, end) = IF src.ok THEN BuildClip(f, src, start, end, title) ELSE Failed
  BY DEF buildMKV
<1> HIDE DEF src, title
<1>4. src.ok => BuiltAs(f, src, BuildClip(f, src, start, end, title)) BY <1>1, <1>2, BuildBuilt
<1>5. BuiltAs(f, src, buildMKV(f, src, start, end)) BY <1>3, <1>4, FailedBuilt
<1> QED BY <1>5 DEF src
=============================================================================
