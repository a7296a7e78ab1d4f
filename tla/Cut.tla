-------------------------------- MODULE Cut --------------------------------
(***************************************************************************)
(* A media file as a muxer writes it, block by block, and clips cut from   *)
(* it: whether a clip, read back as a file of its own, holds the frames it *)
(* is meant to hold.                                                       *)
(***************************************************************************)
EXTENDS Mkv

CONSTANTS
  Formats,        \* what varies in how the file is written
  BlockKinds,     \* blocks without their place: track, relative timestamp, key
  MaxClusters, MaxLoose, MaxTime, None

VideoTrack == 1
AudioTrack == 2

ASSUME CutAssumption ==
  /\ Formats \subseteq [cues : {"front", "back", "none"}, noisy : BOOLEAN, timed : BOOLEAN,
                        live : BOOLEAN, blocks : Nat, lost : Nat]
  /\ BlockKinds \subseteq [track : {VideoTrack, AudioTrack}, rel : -RelRange..(RelRange - 1), key : BOOLEAN]
  /\ MaxTime \in Nat /\ MaxTime < Pow(UintBase, Wide) /\ AudioTrack < Pow(UintBase, Wide)

VARIABLES
  format,   \* how the file is written
  source,   \* its clusters, each with a timestamp and blocks
  clip      \* the clip cut from it, or None

vars == <<format, source, clip>>

-----------------------------------------------------------------------------
\* The muxer.
Frame(k, i) == [is |-> "frame", at |-> <<k, i>>]

BlockElement(k, i) ==
  LET b == source[k].blocks[i]
      data == <<Num(b.track), Rel(b.rel), Frame(k, i)>>
  IN  IF b.track = VideoTrack THEN AppendElement("SimpleBlock", data)
      ELSE AppendElement("BlockGroup", AppendElement("Block", data) \o AppendUint("BlockDuration", 1))

Junk(id) == IF format.noisy THEN AppendElement(id, <<Num(1)>>) ELSE <<>>

ClusterElement(k) ==
  LET body == AppendUint("Timestamp", source[k].ts) \o Junk("PrevSize")
                \o FlattenSeq([i \in DOMAIN source[k].blocks |-> BlockElement(k, i) \o Junk("Void")])
  IN  AppendSizeWidth("Cluster", IF format.live THEN Pow(SizeBase, Wide) - 1 ELSE Len(body), Wide) \o body

\* Every block of the file in the order it is stored.
Stored == FlattenSeq([k \in DOMAIN source |-> [i \in DOMAIN source[k].blocks |->
            [at |-> <<k, i>>, track |-> source[k].blocks[i].track, key |-> source[k].blocks[i].key,
             time |-> source[k].ts + source[k].blocks[i].rel]]])

Duration ==
  IF ~format.timed \/ Stored = <<>> THEN 0
  ELSE 1 + (CHOOSE t \in 0..MaxTime : /\ \E i \in DOMAIN Stored : Stored[i].time = t
                                      /\ \A i \in DOMAIN Stored : Stored[i].time <= t)

\* An index of the video keyframes; a noisy file indexes the other track as well.
CuesElement(offs) ==
  LET indexed == Where(Stored, {i \in DOMAIN Stored :
                   IF Stored[i].track = VideoTrack THEN Stored[i].key ELSE format.noisy})
      point(b) == AppendElement("CuePoint", AppendUint("CueTime", b.time)
                    \o AppendElement("CueTrackPositions", AppendUint("CueTrack", b.track)
                         \o AppendUintWidth("CueClusterPosition", offs[b.at[1]], Wide)))
  IN  AppendElement("Cues", FlattenSeq([i \in DOMAIN indexed |-> point(indexed[i])]))

File ==
  LET track(n, type) == AppendElement("TrackEntry", AppendUint("TrackNumber", n) \o AppendUint("TrackType", type))
      clusters == FlattenSeq([k \in DOMAIN source |-> ClusterElement(k)])
      start(k) == Len(FlattenSeq([j \in 1..(k - 1) |-> ClusterElement(j)]))
      seekHead0(pos) == IF format.cues = "back" THEN seekHead(<<<<"Cues", pos>>>>) ELSE <<>>
      meta == AppendElement("Info", Junk("Void") \o AppendUint("TimestampScale", 1)
                  \o AppendUint("Title", 1) \o AppendUintWidth("Duration", Duration, Wide))
               \o AppendElement("Tracks", (IF format.noisy THEN track(AudioTrack, 2) ELSE <<>>)
                  \o track(VideoTrack, 1))
               \o (IF format.noisy THEN AppendElement("Attachments", <<Num(7), Num(8)>>) ELSE <<>>)
      index(first) == CuesElement([k \in DOMAIN source |-> first + start(k)])
      front == IF format.cues = "front" THEN Len(index(0)) ELSE 0
      first == Len(seekHead0(0)) + Len(meta) + front
      tail == Junk("Tags")
      body == seekHead0(first + Len(clusters) + Len(tail)) \o meta
                \o (IF format.cues = "front" THEN index(first) ELSE <<>>) \o clusters \o tail
                \o (IF format.cues = "back" THEN index(first) ELSE <<>>)
  IN  AppendElement("EBML", <<Num(4)>>) \o AppendSizeWidth("Segment", Len(body), Wide) \o body

\* A source is tidy when its clusters and its audio are in order, no block is later than
\* the next cluster, and a video frame that is stored after a keyframe and shown before it
\* is in the keyframe's cluster.
Tidy ==
  /\ \A k \in 2..Len(source) : source[k - 1].ts < source[k].ts
  /\ \A i \in DOMAIN Stored :
       LET b == Stored[i]
           k == b.at[1]
           earlier == {Stored[j] : j \in 1..(i - 1)}
           video == {c \in earlier : c.track = VideoTrack}
       IN  /\ k < Len(source) => b.time <= source[k + 1].ts
           /\ b.track = AudioTrack => /\ b.time >= source[k].ts
                                      /\ \A c \in earlier \ video : c.time <= b.time
           /\ b.track = VideoTrack =>
                /\ \A c \in video : c.time # b.time /\ (b.key => c.time < b.time)
                /\ \A c \in video : c.key /\ c.at[1] < k => c.time < b.time
                /\ b.time < source[k].ts => \E c \in video : c.at[1] = k /\ c.time >= source[k].ts

-----------------------------------------------------------------------------
Init ==
  /\ format \in Formats
  /\ source = <<>>
  /\ clip = None

\* Bound: a source of more than MaxLoose blocks is tidy.
Bounded == Len(Stored) <= MaxLoose \/ Tidy

AddCluster(ts) ==
  /\ clip = None
  /\ Len(source) < MaxClusters
  /\ source # <<>> => Last(source).blocks # <<>>
  /\ source' = Append(source, [ts |-> ts, blocks |-> <<>>])
  /\ Bounded'
  /\ UNCHANGED <<format, clip>>

AddBlock(b) ==
  /\ clip = None
  /\ source # <<>> /\ Len(Stored) < format.blocks
  /\ Last(source).ts + b.rel \in 0..(MaxTime - 1)
  /\ source' = Front(source) \o <<[Last(source) EXCEPT !.blocks = Append(@, b)]>>
  /\ Bounded'
  /\ UNCHANGED <<format, clip>>

\* A clip read back by its own headers.
FramesOf(bytes, c, blocks) ==
  [i \in DOMAIN blocks |-> [at |-> bytes[blocks[i].off + blocks[i].ts + 2].at, track |-> blocks[i].track,
                            time |-> blocks[i].time, cluster |-> c.off]]

Frames(bytes, src, clusters, blocks) ==
  IF \E k \in DOMAIN blocks : ~blocks[k].ok THEN Failed
  ELSE [ok |-> TRUE, src |-> src, clusters |-> clusters,
        frames |-> FlattenSeq([k \in DOMAIN clusters |-> FramesOf(bytes, clusters[k], blocks[k].blocks)])]

ReadClusters(bytes, src, clusters) ==
  IF \E k \in DOMAIN clusters : ~clusters[k].ok THEN Failed
  ELSE Frames(bytes, src, clusters, [k \in DOMAIN clusters |-> readBlocks(bytes, clusters[k])])

ReadBack(bytes, src) ==
  IF src.ok THEN ReadClusters(bytes, src, collectClusters(bytes, src, src.first, Len(bytes))) ELSE Failed

\* What a media server gets of a file f: a layout that is built is finalized, and read.
Served(asked, lost, f, built, bytes) ==
  IF built.ok /\ Finalized(built.parts, f)
  THEN [asked |-> asked, lost |-> lost, file |-> f, built |-> built,
        ok |-> TRUE, bytes |-> bytes, read |-> ReadBack(bytes, Open(bytes))]
  ELSE [asked |-> asked, lost |-> lost, file |-> f, built |-> built, ok |-> FALSE]

buildMKV(f, src, start, end) ==
  IF src.ok THEN BuildClip(f, src, start, end, [is |-> "text"]) ELSE Failed

ServedFrom(asked, lost, f, built) ==
  Served(asked, lost, f, built, IF built.ok THEN Content(built.parts, f) ELSE <<>>)

\* The engine builds a clip of what there is of the file, and a media server reads it.
CutClip ==
  /\ clip = None
  /\ source # <<>>
  /\ \E start \in 0..(MaxTime - 1) : \E end \in (start + 1)..MaxTime : \E lost \in 0..format.lost :
       \E whole \in {File} : \E f \in {SubSeq(whole, 1, Len(whole) - lost)} :
         clip' = ServedFrom(<<start, end>>, lost, f, buildMKV(f, Open(f), start, end))
  /\ UNCHANGED <<format, source>>

Forget ==
  /\ clip # None
  /\ clip' = None
  /\ UNCHANGED <<format, source>>

Next ==
  \/ \E ts \in 0..(MaxTime - 1) : AddCluster(ts)
  \/ \E b \in BlockKinds : AddBlock(b)
  \/ CutClip
  \/ Forget

Spec == Init /\ [][Next]_vars

-----------------------------------------------------------------------------
(* What is meant, said of the source's blocks and not of its bytes. *)

Keys == {i \in DOMAIN Stored : Stored[i].track = VideoTrack /\ Stored[i].key}

\* The keyframe a clip from s starts at, by its place in the file: the last one at or
\* before s, or else the first one.
KeyAt(s) ==
  LET before == {i \in Keys : Stored[i].time <= s}
  IN  IF before = {} THEN CHOOSE i \in Keys : \A j \in Keys : i <= j
      ELSE CHOOSE i \in before : \A j \in before : j <= i

EndAt(e) == IF Duration > 0 /\ Duration < e THEN Duration ELSE e

\* The blocks a clip of [s, e) is meant to hold: from the keyframe on, what is shown from
\* the keyframe to the end, with the video up to the first frame that is later.
Meant(s, e) ==
  LET key == Stored[KeyAt(s)].time
      late == {j \in KeyAt(s)..Len(Stored) : Stored[j].track = VideoTrack /\ Stored[j].time >= e}
      in(i) == /\ i >= KeyAt(s) /\ Stored[i].time >= key /\ Stored[i].time < e
               /\ Stored[i].track = VideoTrack => \A j \in late : i < j
  IN  Where(Stored, {i \in DOMAIN Stored : in(i)})

HasClip == clip # None /\ clip.ok

\* The source is tidy and the whole file there.
Whole == Tidy /\ clip.lost = 0

-----------------------------------------------------------------------------
\* Whatever the source is like and whatever is missing at its end, a clip that is built
\* has every part inside the file: it is never lost to an error of Finalize, which would not
\* even be remuxed (readBlocks, collectClusters, Open).
Finalizes == clip # None /\ clip.built.ok => clip.ok

RawAttachments(b, src) == [i \in DOMAIN src.attachments |-> Raw(b, src.attachments[i])]

\* The elements at the top of a clip of src, before its clusters.
TopIds(src) ==
  IF src.attachments = <<>> THEN <<"SeekHead", "Info", "Tracks", "Cues">>
  ELSE <<"SeekHead", "Info", "Tracks", "Attachments", "Cues">>

\* Bytes that are the EBML header of src and one segment to the end, whose elements follow
\* each other to the end, and whose seek head leads to each of them.
WellFormed(bytes, src) ==
  LET data == Len(src.ebmlHeader) + Wide
      top == Walk(bytes, data, Len(bytes), {})
      ids == TopIds(src)
  IN  /\ ReadHeaderAt(bytes, data - Wide) = [id |-> "Segment", w |-> Wide, size |-> Len(bytes) - data]
      /\ Len(top) > Len(ids)
      /\ \A i \in DOMAIN top : top[i].id = IF i \in DOMAIN ids THEN ids[i] ELSE "Cluster"
      /\ top[Len(top)].to = Len(bytes)
      /\ \A i \in 2..Len(ids) : seekPosition(bytes, top[1], ids[i]) = top[i].from - data

\* Whatever the source is like and whatever is missing at its end, the sizes and positions in
\* a clip fit each other, unless the clip is longer than a size or a position can say
\* (assemble).
SizesFit ==
  HasClip /\ Len(clip.bytes) < Pow(SizeBase, Wide) - 1 /\ Len(clip.bytes) < Pow(UintBase, Wide)
    => WellFormed(clip.bytes, Open(clip.file))

\* A clip is a file that reads as what it says: it is read without an error, it starts at 0
\* with its first cluster, its length is the one asked for and its tracks and attachments are
\* the source's (assemble, newHeader).
Readable ==
  HasClip =>
    /\ clip.read.ok
    /\ LET src == clip.read.src
       IN  /\ clip.read.clusters[1].timestamp = 0
           /\ src.duration = clip.built.end - clip.built.start
           /\ src.video = VideoTrack
           /\ RawAttachments(clip.bytes, src) = RawAttachments(clip.file, Open(clip.file))

\* Whatever the source is like, a clip holds frames of the source only, each once, in the
\* order they are stored and as far apart as they are there (keepFrom, rebasedParts).
FramesFaithful ==
  HasClip =>
    LET frames == clip.read.frames
        index(fr) == CHOOSE i \in DOMAIN Stored : Stored[i].at = fr.at
    IN  \A i \in DOMAIN frames :
          /\ LET b == Stored[index(frames[i])]
             IN  frames[i].track = b.track /\ frames[i].time = b.time - clip.built.start
          /\ i > 1 => index(frames[i - 1]) < index(frames[i])

\* Exactly the blocks meant, which begin with the keyframe.
Holds(frames, meant) ==
  /\ [i \in DOMAIN frames |-> frames[i].at] = [i \in DOMAIN meant |-> meant[i].at]
  /\ meant # <<>> /\ meant[1].at = Stored[KeyAt(clip.asked[1])].at

\* A clip of a tidy source holds exactly the blocks that are meant (collectClusters,
\* keepFrom, keepUntil), beginning with the keyframe.
FramesExact ==
  HasClip /\ Whole => Holds(clip.read.frames, Meant(clip.asked[1], EndAt(clip.asked[2])))

\* The index of a clip of a tidy source has exactly the keyframes of the clip, each with its
\* time in the clip and the cluster it is in (cuesElement).
CuesExact ==
  HasClip /\ Whole =>
    LET keys == {Stored[i].at : i \in Keys}
    IN  {<<c.time, c.off>> : c \in {clip.read.src.cues[i] : i \in DOMAIN clip.read.src.cues}}
          = {<<fr.time, fr.cluster>> : fr \in {clip.read.frames[i] : i \in
               {j \in DOMAIN clip.read.frames : clip.read.frames[j].at \in keys}}}

\* A tidy source with an index and clusters of known size is always cut, and one without
\* never: nothing is remuxed without need (Open, readCluster, rebasedParts).
CutsWhatItCan ==
  clip # None /\ Whole =>
    (clip.ok <=> /\ format.cues # "none" /\ ~format.live /\ Keys # {}
                 /\ Duration > 0 => clip.asked[1] < Duration
                 /\ Stored[KeyAt(clip.asked[1])].time < EndAt(clip.asked[2]))

\* Every read of a clip that begins next to a boundary between parts, whether it is short or
\* spans several parts or the end, gives the cells of the virtual file (ReadAt).
ReadsMatch ==
  HasClip =>
    LET parts == clip.built.parts
        edges == {Offsets(parts)[i] + d : i \in DOMAIN parts, d \in {-1, 0, 1}} \cup {Len(clip.bytes)}
    IN  \A off \in edges \cap Nat : \A n \in {1, 3, Len(clip.bytes)} :
          ReadAt(parts, clip.file, off, n) = SubSeq(clip.bytes, off + 1, Min({off + n, Len(clip.bytes)}))
=============================================================================
