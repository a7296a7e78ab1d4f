-------------------------------- MODULE Mkv --------------------------------
(***************************************************************************)
(* internal/mkv: a clip of a Matroska file f as a layout of new headers    *)
(* and ranges of f.  Times are in ticks.  An operator that may fail gives  *)
(* a record with ok; whether it is "unsupported" or another error makes no *)
(* difference here.                                                        *)
(***************************************************************************)
EXTENDS Ebml, Layout

CONSTANTS RelRange  \* relative timestamps are in -RelRange..(RelRange - 1) (32768)

ASSUME MkvAssumption == RelRange \in Nat \ {0}

Failed == [ok |-> FALSE]

\* A relative timestamp in a file, which wraps around.
Rel(v) == [is |-> "rel", v |-> ((v + RelRange) % (2 * RelRange)) - RelRange]

FitsRel(v) == -RelRange <= v /\ v < RelRange

-----------------------------------------------------------------------------
\* What is at the indices I of s.
Where(s, I) == FlattenSeq([i \in DOMAIN s |-> IF i \in I THEN <<s[i]>> ELSE <<>>])

\* The element at off, which has the id "bad" unless it has this id and is inside the file.
readElement(f, off, id) ==
  LET element(h) == IF h.id = id /\ h.size # UnknownSize /\ off + h.w + h.size <= Len(f)
                    THEN Element(id, off, off + h.w, off + h.w + h.size)
                    ELSE Element("bad", off, off, off)
  IN  element(ReadHeaderAt(f, off))

\* Whether these are the children of a Seek that says where the element with an id is.
SeeksFor(f, kids, end, id) ==
  /\ ~Malformed(kids, end) /\ Has(kids, "SeekID") /\ Has(kids, "SeekPosition")
  /\ HoldsId(f, LastOf(kids, "SeekID"), id)

\* The position the first such Seek has, or -1.
seekPosition(f, seekHead, id) ==
  LET position(seeks) ==
        LET found == {i \in DOMAIN seeks : /\ seeks[i].id = "Seek"
                                           /\ SeeksFor(f, Children(f, seeks[i]), seeks[i].to, id)}
        IN  IF Malformed(seeks, seekHead.to) \/ found = {} THEN -1
            ELSE Value(f, Children(f, seeks[Min(found)]), "SeekPosition")
  IN  position(Children(f, seekHead))

\* The number of a video track, or 0.
videoNumber(f, kids) == IF Value(f, kids, "TrackType") = 1 THEN Value(f, kids, "TrackNumber") ELSE 0

\* Mutant: the first track is taken for the video.
parseFirstTrack(f, entries) == Value(f, Children(f, entries[1]), "TrackNumber")

\* The number of the first video track, or 0.
parseTracks(f, entries) ==
  LET video == {i \in DOMAIN entries : videoNumber(f, Children(f, entries[i])) # 0}
  IN  IF video = {} \/ \E i \in DOMAIN entries : ~Intact(f, entries[i]) THEN 0
      ELSE videoNumber(f, Children(f, entries[Min(video)]))

Named(es, id) == Where(es, {i \in DOMAIN es : es[i].id = id})

\* The cue with these positions, if it is one of the video track and inside the file.
cueAt(f, time, pos, video, segData) ==
  IF /\ Has(pos, "CueClusterPosition") /\ Value(f, pos, "CueClusterPosition") < Len(f)
     /\ Value(f, pos, "CueTrack") = video
  THEN <<[time |-> time, off |-> segData + Value(f, pos, "CueClusterPosition")]>>
  ELSE <<>>

\* The cues of a cue point with these children.
cuesOf(f, kids, video, segData) ==
  LET at == Named(kids, "CueTrackPositions")
  IN  FlattenSeq([i \in DOMAIN at |->
        cueAt(f, Value(f, kids, "CueTime"), Children(f, at[i]), video, segData)])

\* Cues by time.  The order of two of one time, which sort.Slice leaves open, is kept, as it
\* keeps it in short slices.
SortByTime(cues) ==
  LET sorted[n \in 0..Len(cues)] ==
        LET insert(s, c) == LET upTo == {i \in DOMAIN s : s[i].time <= c.time}
                            IN  Where(s, upTo) \o <<c>> \o Where(s, DOMAIN s \ upTo)
        IN  IF n = 0 THEN <<>> ELSE insert(sorted[n - 1], cues[n])
  IN  sorted[Len(cues)]

\* The cues of the video track by time; none when one of these cue points cannot be read.
parseCues(f, points, video, segData) ==
  LET broken(p) == ~Intact(f, p) \/ \E i \in DOMAIN Children(f, p) :
                     Children(f, p)[i].id = "CueTrackPositions" /\ ~Intact(f, Children(f, p)[i])
  IN  IF \E i \in DOMAIN points : broken(points[i]) THEN <<>>
      ELSE SortByTime(FlattenSeq([i \in DOMAIN points |->
             cuesOf(f, Children(f, points[i]), video, segData)]))

\* The segment after the EBML header, with what is around its contents.
segment(f, ebml, seg) ==
  LET data == ebml.w + ebml.size + seg.w
  IN  [ok |-> ebml.id = "EBML" /\ ebml.size # UnknownSize /\ seg.id = "Segment",
       header |-> ebml.w + ebml.size, data |-> data,
       end |-> IF seg.size # UnknownSize /\ data + seg.size < Len(f) THEN data + seg.size ELSE Len(f)]

\* Where the cues are, by themselves or by the first seek head that knows; else past the end.
cuesOffset(f, seg, top) ==
  LET known == {i \in DOMAIN top : top[i].id = "SeekHead" /\ seekPosition(f, top[i], "Cues") >= 0}
  IN  IF Has(top, "Cues") THEN LastOf(top, "Cues").from
      ELSE IF known = {} THEN Len(f) ELSE seg.data + seekPosition(f, top[Min(known)], "Cues")

\* The source, of which these elements and cues are known.
sourceOf(f, seg, top, info, tracks, video, cues) ==
  IF video = 0 \/ cues = <<>> THEN Failed
  ELSE [ok |-> TRUE, ebmlHeader |-> SubSeq(f, 1, seg.header),
        segData |-> seg.data, segEnd |-> seg.end, video |-> video, cues |-> cues,
        duration |-> Value(f, info, "Duration"), info |-> info, tracks |-> tracks,
        attachments |-> IF Has(top, "Attachments") THEN <<LastOf(top, "Attachments")>> ELSE <<>>,
        first |-> LastOf(top, "Cluster").from]

\* The source with these infos and tracks, whose cues start with cuesEl.
indexedSource(f, seg, top, info, tracks, video, cuesEl) ==
  IF cuesEl.id = "bad" \/ ~Intact(f, cuesEl) THEN Failed
  ELSE sourceOf(f, seg, top, info, tracks, video,
                parseCues(f, Named(Children(f, cuesEl), "CuePoint"), video, seg.data))

describedSource(f, seg, top, infoEl, tracksEl) ==
  IF ~Intact(f, infoEl) \/ ~Intact(f, tracksEl) THEN Failed
  ELSE indexedSource(f, seg, top, Children(f, infoEl), Children(f, tracksEl),
                     parseTracks(f, Named(Children(f, tracksEl), "TrackEntry")),
                     readElement(f, cuesOffset(f, seg, top), "Cues"))

\* The source with these elements up to the first cluster.
segmentSource(f, seg, top) ==
  IF \E id \in {"Cluster", "Info", "Tracks"} : ~Has(top, id) THEN Failed
  ELSE describedSource(f, seg, top, LastOf(top, "Info"), LastOf(top, "Tracks"))

inSegment(f, seg) ==
  IF seg.ok THEN segmentSource(f, seg, Walk(f, seg.data, seg.end, {"Cluster"})) ELSE Failed

\* Walks the top level up to the first cluster and reads what cutting needs.
Open(f) ==
  LET ebml == ReadHeaderAt(f, 0)
  IN  inSegment(f, segment(f, ebml, ReadHeaderAt(f, ebml.w + ebml.size)))

-----------------------------------------------------------------------------
BlockIds == {"SimpleBlock", "BlockGroup"}

\* The cluster at off, with a header h and children up to its first block; blocks is
\* where that is, or the cluster's end.
clusterOf(f, off, h, kids) ==
  LET at == {i \in DOMAIN kids : kids[i].id \in BlockIds}
      end == off + h.w + h.size
  IN  [ok |-> /\ h.id = "Cluster" /\ h.size # UnknownSize
              /\ \A i \in DOMAIN kids : /\ kids[i].id \notin {"bad", "EncryptedBlock"}
                                        /\ kids[i].id = "Timestamp" => kids[i].to <= Len(f)
              /\ \A i \in at : Has(kids, "Timestamp") /\ ReadHeaderAt(f, kids[i].from).size # UnknownSize,
       off |-> off, end |-> end, timestamp |-> Value(f, kids, "Timestamp"),
       blocks |-> IF at = {} THEN end ELSE kids[Min(at)].from]

readCluster(f, off) ==
  LET cluster(h) == clusterOf(f, off, h, Walk(f, off + h.w, off + h.w + h.size, BlockIds))
  IN  cluster(ReadHeaderAt(f, off))

\* Mutant: that the file ends before the cluster does goes unnoticed.
AnyThere(f, c) == c.blocks < Len(f)

\* Whether the blocks of a cluster are in the file; reading nothing never fails.
AllThere(f, c) == c.blocks = c.end \/ c.end <= Len(f)

\* The element a block's payload is in.
payload(f, e) == IF e.id = "BlockGroup" THEN LastOf(Children(f, e), "Block") ELSE e

\* A payload has a track, a relative timestamp and more.
ReadableBlock(f, e) ==
  /\ e.id = "BlockGroup" => Intact(f, e) /\ Has(Children(f, e), "Block")
  /\ payload(f, e).to - payload(f, e).data >= 3

RelValue(b, off) == IF b[off + 1].is = "rel" THEN b[off + 1].v ELSE 0

\* ts is where the relative timestamp of a block is, from its start.
blockOf(f, c, e, data) ==
  [off |-> e.from, len |-> e.to - e.from, track |-> CellValue(f, data),
   time |-> c.timestamp + RelValue(f, data + 1), ts |-> data + 1 - e.from]

\* The blocks of a cluster with these children from the first block on.
blocksOf(f, c, kids, found) ==
  IF \/ ~AllThere(f, c) \/ Malformed(kids, c.end) \/ Has(kids, "EncryptedBlock")
     \/ \E i \in DOMAIN found : ~ReadableBlock(f, found[i])
  THEN Failed
  ELSE [ok |-> TRUE, blocks |-> [i \in DOMAIN found |-> blockOf(f, c, found[i], payload(f, found[i]).data)]]

readBlocks(f, c) ==
  LET blocks(kids) == blocksOf(f, c, kids, Where(kids, {i \in DOMAIN kids : kids[i].id \in BlockIds}))
  IN  blocks(Walk(f, c.blocks, c.end, {}))

\* The clusters before the first but one that starts at endT or later.
upTo(clusters, endT) ==
  LET late == {i \in DOMAIN clusters : i > 1 /\ clusters[i].ok /\ clusters[i].timestamp >= endT}
  IN  IF late = {} THEN clusters ELSE SubSeq(clusters, 1, Min(late) - 1)

\* The clusters from off to the one that contains endT; other elements are skipped.
collectClusters(f, src, off, endT) ==
  LET from[p \in off..src.segEnd] ==
        LET later(q) == IF q < src.segEnd THEN from[q] ELSE <<>>
            rest(h, c) ==
              IF h.id \notin {"Cluster", "bad"}
              THEN IF h.size = UnknownSize THEN <<>> ELSE later(p + h.w + h.size)
              ELSE <<c>> \o IF c.ok THEN later(c.end) ELSE <<>>
        IN  rest(ReadHeaderAt(f, p), readCluster(f, p))
  IN  upTo(IF off < src.segEnd THEN from[off] ELSE <<>>, endT)

-----------------------------------------------------------------------------
\* Where the keyframe is stored among the blocks.
keyAt(blocks, video, key) == {i \in DOMAIN blocks : blocks[i].track = video /\ blocks[i].time = key}

\* Mutant: what is shown before the keyframe is kept.
keepStoredFrom(blocks, video, key) ==
  LET at == keyAt(blocks, video, key)
  IN  Where(blocks, {i \in DOMAIN blocks : at # {} => \E k \in at : k <= i})

\* The blocks from the keyframe on, without those shown before it.
keepFrom(blocks, video, key) ==
  LET at == keyAt(blocks, video, key)
  IN  Where(blocks, {i \in DOMAIN blocks : blocks[i].time >= key /\ (at # {} => \E k \in at : k <= i)})

\* The blocks before endT; video ends for good at its first frame that is not.
keepUntil(blocks, video, endT) ==
  LET late == {i \in DOMAIN blocks : blocks[i].track = video /\ blocks[i].time >= endT}
  IN  Where(blocks, {i \in DOMAIN blocks : /\ blocks[i].time < endT
                                           /\ blocks[i].track = video => \A k \in late : i < k})

blockParts(blocks) == AppendAll(<<>>, [i \in DOMAIN blocks |-> RangeOf(blocks[i].off, blocks[i].len)])

\* Mutant: the timestamps stay relative to the old cluster.
notRebased(f, blocks, base) == [ok |-> TRUE, parts |-> blockParts(blocks)]

\* The blocks with only their relative timestamps replaced.
rebasedParts(f, blocks, base) ==
  LET head(b) == SubSeq(f, b.off + 1, b.off + b.ts) \o <<Rel(b.time - base)>>
      parts(b) == <<Literal(head(b)), RangeOf(b.off + b.ts + 1, b.len - b.ts - 1)>>
  IN  [ok |-> \A i \in DOMAIN blocks : FitsRel(blocks[i].time - base),
       parts |-> AppendAll(<<>>, FlattenSeq([i \in DOMAIN blocks |-> parts(blocks[i])]))]

-----------------------------------------------------------------------------
Dropped == {"CRC-32", "Void", "Duration", "Title", "SegmentUID"}

\* The raw elements that are kept, one after the other.
Copied(f, es, dropped) ==
  FlattenSeq([i \in DOMAIN es |-> IF es[i].id \in dropped THEN <<>> ELSE Raw(f, es[i])])

\* Mutant: the clusters keep the times they have in the source.
newHeaderLate(c, origin) ==
  LET ts == AppendUint("Timestamp", c.timestamp)
  IN  AppendSizeWidth("Cluster", Len(ts) + PartsLen(c.body), Wide) \o ts

newHeader(c, origin) ==
  LET ts == AppendUint("Timestamp", c.timestamp - origin)
  IN  AppendSizeWidth("Cluster", Len(ts) + PartsLen(c.body), Wide) \o ts

\* Mutant: the first cluster's cues are all taken.
InsideClusters(src, clusters, origin, endT) ==
  Where(src.cues, {j \in DOMAIN src.cues : \E i \in DOMAIN clusters : clusters[i].off = src.cues[j].off})

\* The cues inside the clip are those of the clusters taken along, from the start to the end.
Inside(src, clusters, origin, endT) ==
  LET offs == {clusters[i].off : i \in DOMAIN clusters}
  IN  Where(src.cues, {j \in DOMAIN src.cues : /\ src.cues[j].off \in offs
                                                /\ origin <= src.cues[j].time /\ src.cues[j].time < endT})

\* The new index, for clusters that are at these offsets now.
cuesElement(src, clusters, offs, origin, endT) ==
  LET at(cue) == CHOOSE i \in DOMAIN clusters : clusters[i].off = cue.off
      inside == Inside(src, clusters, origin, endT)
      pos(cue) == AppendUint("CueTrack", src.video)
                    \o AppendUintWidth("CueClusterPosition", offs[at(cue)], Wide)
      point(cue) == AppendElement("CuePoint", AppendUint("CueTime", cue.time - origin)
                                                \o AppendElement("CueTrackPositions", pos(cue)))
  IN  AppendElement("Cues", FlattenSeq([i \in DOMAIN inside |-> point(inside[i])]))

\* Mutant: a position is as wide as it needs to be.
seekHeadNarrow(positions) ==
  LET seek(p) == AppendElement("Seek", AppendElement("SeekID", <<Id(p[1])>>) \o AppendUint("SeekPosition", p[2]))
  IN  AppendElement("SeekHead", FlattenSeq([i \in DOMAIN positions |-> seek(positions[i])]))

seekHead(positions) ==
  LET seek(p) == AppendElement("Seek", AppendElement("SeekID", <<Id(p[1])>>)
                                         \o AppendUintWidth("SeekPosition", p[2], Wide))
  IN  AppendElement("SeekHead", FlattenSeq([i \in DOMAIN positions |-> seek(positions[i])]))

\* All sizes are known before any position: positions have a fixed width.
assemble(f, src, clusters, origin, endT, title) ==
  LET infoEl == AppendElement("Info", Copied(f, src.info, Dropped)
                  \o AppendUintWidth("Duration", endT - origin, Wide)
                  \o AppendElement("Title", <<title>>))
      tracksEl == AppendElement("Tracks", Copied(f, src.tracks, {"CRC-32", "Void"}))
      att == src.attachments
      attLen == IF att = <<>> THEN 0 ELSE att[1].to - att[1].from
      headers == [i \in DOMAIN clusters |-> newHeader(clusters[i], origin)]
      len(i) == Len(headers[i]) + PartsLen(clusters[i].body)
      cuesEl(offs) == cuesElement(src, clusters, offs, origin, endT)
      seeks(info, tracks, cues, atts) ==
        seekHead(<<<<"Info", info>>, <<"Tracks", tracks>>>>
                   \o (IF att = <<>> THEN <<>> ELSE <<<<"Attachments", atts>>>>)
                   \o <<<<"Cues", cues>>>>)
      infoPos == Len(seeks(0, 0, 0, 0))
      tracksPos == infoPos + Len(infoEl)
      attPos == tracksPos + Len(tracksEl)
      cuesPos == attPos + attLen
      firstPos == cuesPos + Len(cuesEl([i \in DOMAIN clusters |-> 0]))
      pos[i \in 1..(Len(clusters) + 1)] == IF i = 1 THEN firstPos ELSE pos[i - 1] + len(i - 1)
      head == src.ebmlHeader \o AppendSizeWidth("Segment", pos[Len(clusters) + 1], Wide)
                \o seeks(infoPos, tracksPos, cuesPos, attPos) \o infoEl \o tracksEl
      attachments == IF att = <<>> THEN <<>> ELSE <<RangeOf(att[1].from, attLen)>>
      bodies == FlattenSeq([i \in DOMAIN clusters |-> <<Literal(headers[i])>> \o clusters[i].body])
  IN  AppendAll(<<Literal(head)>>, attachments \o <<Literal(cuesEl(pos))>> \o bodies)

-----------------------------------------------------------------------------
\* The first cluster's blocks in the keyframe's time base.
rebased(f, c, blocks, base) ==
  IF c.timestamp = base THEN [ok |-> TRUE, parts |-> blockParts(blocks)]
  ELSE rebasedParts(f, blocks, base)

\* The clusters of the clip.  The first and the last one are filtered block by block, the
\* others referenced whole.
cutClusters(clusters, firstParts, lastBlocks, src, base, endT) ==
  LET n == Len(clusters)
  IN  [i \in 1..n |->
        [off |-> clusters[i].off, timestamp |-> IF i = 1 THEN base ELSE clusters[i].timestamp,
         body |-> IF i = 1 THEN firstParts
                  ELSE IF i = n THEN blockParts(keepUntil(lastBlocks, src.video, endT))
                  ELSE <<RangeOf(clusters[i].blocks, clusters[i].end - clusters[i].blocks)>>]]

assembledClip(f, src, clusters, first, lastBlocks, base, endT, title) ==
  IF ~first.ok \/ \E i \in 2..Len(clusters) : clusters[i].timestamp < base THEN Failed
  ELSE [ok |-> TRUE, start |-> base, end |-> endT,
        parts |-> assemble(f, src, cutClusters(clusters, first.parts, lastBlocks, src, base, endT),
                           base, endT, title)]

\* A clip from these blocks of the first cluster, which may be the last one too.
filteredClip(f, src, clusters, firstBlocks, lastBlocks, base, endT, title) ==
  LET kept == keepFrom(firstBlocks, src.video, base)
      first(keep) == rebased(f, clusters[1], keep, base)
  IN  assembledClip(f, src, clusters,
        first(IF Len(clusters) = 1 THEN keepUntil(kept, src.video, endT) ELSE kept),
        lastBlocks, base, endT, title)

clipFrom(f, src, clusters, base, endT, title) ==
  LET filtered(first, last) ==
        IF first.ok /\ last.ok
        THEN filteredClip(f, src, clusters, first.blocks, last.blocks, base, endT, title) ELSE Failed
  IN  IF clusters = <<>> \/ \E i \in DOMAIN clusters : ~clusters[i].ok THEN Failed
      ELSE filtered(readBlocks(f, clusters[1]), readBlocks(f, Last(clusters)))

\* The last cue at or before start, or else the first one.
keyCue(cues, start) ==
  LET before == {i \in DOMAIN cues : cues[i].time <= start}
  IN  IF before = {} THEN cues[1] ELSE cues[Max(before)]

\* A clip of [start, end) from the last cue at or before start.
BuildClip(f, src, start, end, title) ==
  LET endT == IF src.duration > 0 /\ src.duration < end THEN src.duration ELSE end
      key == keyCue(src.cues, start)
  IN  IF end <= start \/ key.time >= endT \/ (src.duration > 0 /\ start >= src.duration)
      THEN Failed
      ELSE clipFrom(f, src, collectClusters(f, src, key.off, endT), key.time, endT, title)
=============================================================================
