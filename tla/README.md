# A formal model of SmartClips

SmartClips serves virtual video clips over FUSE.  A clips file (`clips.json`) lists cuts
of media files; for each one the program computes a *layout*, either byte ranges of the
source (Matroska) or of a file remuxed into a cache (anything else), and serves it as a
file that never changes while the media server looks at it.  Sources are replaced by
other programs, the clips file is edited by a web UI and by hand, and the process can
die at any time.  This directory holds TLA+ modules that model that program, the TLC
configurations that check them, and proofs for TLAPS.

Paths such as `engine.go:124` are below `src/internal/<package>/`; `main.go` is
`src/cmd/smartclips/main.go`.

## 1. The system

| Component | State | Operations | Interacts with |
| --- | --- | --- | --- |
| engine (`engine.go`) | clips by path, the current file, the queue, what is queued and building, `dirty`; on disk the index, the remuxed files and their temporaries, `status.json` | `Apply`, `Recheck`, `Invalidate`, `Start`; goroutines: workers, housekeeping | is called by the watcher, its own ticker and clipfs; publishes to clipfs; reads config, layout, mkv; runs ffmpeg |
| mount process (`main.go`) | the mount, the file watcher's debounce timer | load, first `Apply`, mount, `Start`; reload on change and by a ticker; unmount on a signal | config, engine, clipfs, privs |
| config (`config.go`) | none (the clips file is on disk) | `Load`, `Save`, `Validate`, `ResolveInput`, `Replacement` | called by engine, mount process, UI server |
| clipfs (`clipfs.go`) | entries by path, the inode tree, whether it is mounted | `SetClip`, `RemoveClip`, `OnAdd`; `Open`, `Read`, `Getattr` | called by the engine under its mutex and by the kernel; calls `Invalidate` when a clip's data has changed |
| layout (`layout.go`) | a layout's parts and offsets | `Finalize`, `ReadAt`, `Append`, `Load`, `Save`, `Stat` | everything |
| mkv, ebml | none (pure, over a file) | `Open`, `BuildClip` | engine, UI probe |
| backup (`backup.go`) | copies in a folder, last result | `Once`, `Run`, `Status` | runs in the UI process |
| UI server (`server.go`) | a save mutex; no copy of the clips | get, put with a version, browse, probe, preview | config, backup, `status.json` |
| UI client (`app.js`) | list, version, dirty flag, editor's index | load, poll, edit, delete, save | UI server |
| nfo, privs | none | format; switch credentials | engine; mount process |

What is hard:

* **Interleaving.**  `Apply` runs under a mutex; builds run outside it and finish after
  the clip has been edited, removed or its source replaced; the cleaner works from a
  snapshot; `Recheck` from a copied pointer.
* **The file system is shared.**  Every check of a file can be stale at the next line.
* **Crashes** keep the index, the remuxed files, their temporaries and `status.json`,
  and lose the rest.
* **Failures** of ffmpeg, of the source and of writes are logged and turned into states.
* **Liveness.**  Much is only put right by a later reload: "will retry" in
  `engine.go:393` has nobody who retries.
* **Boundaries.**  Byte ranges, 16-bit relative timestamps, the number of backup copies.

What makes the components correct: the engine serves what the clips file and the sources
ask for and nothing else, loses no build, blanks no clip without a reason, and converges;
clipfs' tree is the tree of its entries; a layout reads as the concatenation of its parts;
a byte-range clip holds the frames from the keyframe to the end; a save through the UI
never overwrites an edit it has not seen; a backup is never lost to pruning.  The hazards
in `PROJECT.json` list these by source line with the properties that watch them.

## 2. Modules

| Module | What it is |
| --- | --- |
| `ClipsConfig` | clips, `Validate`, `ResolveInput`: pure operators over a media folder |
| `Engine` | the engine with the watcher's reloads, clipfs' entries and the environment |
| `EngineProperties` | its type invariant, invariants, action and liveness properties |
| `Library` | the abstract specification: what a media server may see of each path |
| `ClipFS` | the inode tree, edited name by name, and what the kernel remembers of it |
| `Ebml`, `Layout`, `Mkv` | elements, parts and `BuildClip`: pure operators over a file of cells |
| `Cut` | a source as a muxer writes it, and clips cut from it and read back |
| `Editor` | the clip manager: browsers, server, edits by hand |
| `Backup` | the scheduled copies of the clips file |
| `MCEngine`, `MCClipFS`, `MCCut`, `MCEditor`, `MCBackup` | small instances for TLC |
| `EngineProofs` | theorems about the engine |
| `LayoutProofs`, `MkvProofs` | theorems about layouts, about `BuildClip` on any file, and about reading what is written |
| `CutProofs`, `CutReadProofs` | theorems about `Cut`: the file and its clips, and what is read of a clip |
| `ClipFSProofs`, `EditorProofs`, `BackupProofs` | theorems about the others |

The modules meet where the code does.  `Engine` sees the filesystem as the map of entries that
`SetClip` and `RemoveClip` keep; `ClipFS` starts from the same two calls and shows what the kernel
makes of them.  `Engine` sees a build as a layout that exists; `Cut` shows what is in one.
`Editor`'s save and `Backup`'s change are the edits of the clips file that `Engine` reloads.
They are separate state machines because each one's state space is its own: no property relates the
inside of two of them.

### How `Engine` corresponds to the code

State:

* `media` is the media folder: a version per file, 0 when missing.  Size and modification
  time (`layout.FileID`) are the version; versions are totally ordered by time, which is
  what `Replacement` picks by.  A file may come back in an older version.
* `clipsFile` is `clips.json`: its contents and a count of its edits.  The count stands for the
  identity of a loaded `config.File` and is compared only by `NoStaleApply`.
* `index`, `remux`, `tmps` are the cache; the hash of `clipKey` is the record `Key` of what it
  hashes (a collision is not modelled).  A remuxed file is an identity, its `FileID`: two runs of
  ffmpeg give different ones.  A layout (`Layout`) is its key and the identity of its data
  file, or 0 for byte ranges of the source itself.
* `file`, `clips`, `queue`, `queued`, `dirty`, `started` are the fields of `Engine`; `e.building`
  is derived from the workers' progress.  `mutex` is `None` or the critical section of `Apply`
  with the clips it has not applied yet.
* `sink` is `clipfs.Root.entries`; `loaded` is the `*config.File` that a caller has in hand before
  `Apply` gets the mutex; `job` and `hk` are the program counters and locals of the workers and
  of the housekeeper.

Steps:

* `Apply` is split: `ApplyBegin` (validation, removals, invalid clips), one `ApplyClip` per
  wanted clip in any order (a Go map's), `ApplyEnd`.  It holds the mutex throughout,
  so nobody else sees the engine's memory in between, but the *file system* changes
  there, and `ApplyMissing` (the input went away after validation) really happens.
  The other critical sections touch the memory only and are single actions.
* A build is a step per file-system effect: open and check the source, run ffmpeg, rename,
  stat, save the index entry; `BuildFails` fails any of them, and `CutFails` a cut that could have
  been made, which is then remuxed.  ffmpeg's retry without subtitles ends as one of its two outcomes.
* The housekeeper's tick, the cleaner's snapshot, each directory listing and each removal
  are separate.
* `Recheck` is two steps, reading the file and applying it, for the ticker and for any
  number of goroutines started by `Invalidate` (`Openers`).
* `Crash` loses the memory at any moment; the next `LoadConfig` is the restart.

Left out of `Engine`: the NFO's time and `Built`; which version of a source ffmpeg actually
read if the file is replaced between the check and the read; the bytes two concurrent ffmpeg
runs leave in the one temporary file (each run is a new identity, so which of the two renames or
looks at the other's file is there, but not a file of mixed contents); a clips file that does not parse (the
reload is skipped, as if it had not happened) or is empty while being written.  Two steps of the code are one
where nobody can tell: an index hit removes a clip of a replaced source and publishes it again (`engine.go:204-223`,
under the mutex), and opening a clip finds it stale and starts the goroutine that reads the current file.

### How `ClipFS` corresponds to the code

`Nodes` are the names below the root that a clip path has or leads through, `Above` the folders a
name is in.  `entries`, `mounted` are the fields of `Root`; `tree` is go-fuse's tree of
`fs.Inode`s; `op` is the call that holds `Root.mu`, and `pending` the name it has changed and
not yet announced.  `place`, `RemoveClip` and `prune` take one step for each name they add or remove
and one for each `NotifyEntry`: between the two the kernel can ask.  `OnAdd` places whole
entries, in any order, because the kernel cannot ask before the mount is complete.

The kernel is external: it looks up any name it has no answer for in a folder it knows
(`Lookup` reads the tree, `Answer` stores what was read, so an answer can be old when it is
stored), remembers that a name is missing, and forgets a name when its timeout (`main.go:161`)
ends or when it is notified.  A notification waits for a lookup in the same folder, because both
take the folder's lock.  `MaxCached` bounds what it remembers at one time.

Left out: attributes, open flags, `statfs`; handles that are open when a clip is replaced keep
their own layout, which is immutable.

### How `Ebml`, `Layout`, `Mkv` and `Cut` correspond to the code

A file is a sequence of *cells*, one per byte in all that lengths and offsets are about.  A
header or a number is kept whole in its first cell and padded to its width, so offsets are real
while bits are not.  The bases are small (4 sizes per cell, 16 numbers per cell, widths up to 4),
so that sizes change width, hit the reserved "unknown" value and wrap around at the lengths of
the instance.  An element id is one name.

`Open`, `readCluster`, `readBlocks`, `collectClusters`, `keepFrom`, `keepUntil`, `rebasedParts` and `assemble`
are operators with the code's names and its order of decisions; an error is a record with `ok`
false, whichever error it is.  `Layout` has `Append` (as `AddPart`: the name is taken), `Finalize` and
`ReadAt`; a read returns the cells, and how many of them is its count.  All of this is defined on every
sequence of cells: a header that is missing or cut short has the id `bad`, an element may claim to end past its
parent or past the file, and whether that is noticed is decided where the code decides it (`Walk` goes on as long
as headers can be read, `Intact` is what `Children` insists on, `AllThere` what reading a cluster does).

In `Cut` the muxer is external: it adds clusters and blocks in any order, in one of several
formats (where the index is, whether there are other elements everywhere, whether there is a
duration, whether clusters have a size).  `CutClip` is the engine's `build` for any two times:
it opens what there is of the file, from which cells may be missing at the end, builds the clip,
finalizes it, takes its parts' contents and reads them back with the same
reader.  An error of `Finalize` is returned and not answered by a remux (`engine.go:401-403`), so a
clip that is built and does not fit is a clip that fails.  What the clip is *meant* to hold (`Meant`) is said of the blocks the muxer wrote, in
another way than the code computes it, and compared.  A source is `Tidy` if it is like those that
real muxers write: clusters and audio in order, and frames stored after a keyframe and shown
before it in the keyframe's cluster.

Left out: the conversion of seconds to ticks and the scale of a tick (`mkv.go:309-323`), the limit of 64 MB on
what is read at once (`readAt`; a file with a larger element is remuxed), EBML lacing and codecs (blocks are
opaque).  `sort.Slice` (`mkv.go:304`) promises no order of two cues of one time; the model keeps theirs, as Go's
implementation does for the short lists of an instance.  A data file that is cut short between the check on open
and a read gives an error or fewer bytes (`layout.go:113-119`); `ReadAt` is of a file that is as long as it was.

### How `Editor` corresponds to the code

`file` is the clips file: a list, and whether it was written by a save or by hand, which gives the
same list other bytes.  Its version, a hash of the bytes, is the pair itself.  `clips`, `version`,
`dirty` and `button` are `app.js`'s `state` and the Save button of each browser.  `open` holds its requests:
sent, checked (a save between the version check and the write), answered.  Requests of one
browser are independent, as `fetch` is: they are served and answered in any order.  The
continuation of `save` after its `await` is a load (`afterSave`), that of `refreshStatus` a load as well.

The server holds `s.save` from the check to the write (`Unlocked`).  When a connection breaks
(`Lose`) the browser has an error while the request may still arrive: it is then in `late`, and is checked
and written like any other.  `EditByHand` replaces the file at any moment, also between a check and
its write, and may leave one that does not parse.

`unsaved` and `missed` are history variables that only the properties read.

Left out: the editor dialog with its index into the list (`app.js:365`; lists are opaque, and an edit makes any
list of any other), the status and backup panels, `beforeunload`.

### How `Backup` corresponds to the code

Copies are ordered by name, newest first, as `copies()` returns them.  `Once` is four steps: read
the file (and list the copies), compare, write, and one deletion each.  Any of them may fail.  The
copies to be deleted are marked when the copy is written, because `names` is from before
the write: the code puts the name just written first (`backup.go:113`) whatever its order.  Where the clock
has gone back, or is in the same second as an earlier copy, the new copy takes another
place, or the place of an old one (`MaxClock`).  `Crash` is a restart of the UI process.

## 3. What is checked

`tlc -config <name>.cfg <module>`; deadlock is checked in every run.  The module is `MCEngine` for the
runs on the engine, and `MCClipFS`, `MCCut`, `MCEditor` and `MCBackup` for the last four that pass.

| Run | Shows | States |
| --- | --- | --- |
| `engine_remux` | safety with remuxes, two workers, the cleaner | 3.3 M |
| `engine_paths` | safety with two paths, an upgrade, rechecks, a crash | 2.1 M |
| `engine_converges` | liveness with byte ranges, a clip that comes or goes, a replaced source, a fault, rechecks by the ticker and by `Invalidate` | 381 k |
| `engine_remux_converges` | liveness with remuxes, the cleaner, a clip that comes or goes, a fault, a crash, rechecks by the ticker | 154 k |
| `clipfs` | the tree and the kernel's memory, one clip alone and two whose names collide | 451 k |
| `cut` | every clip of every small source, whole or cut short, read back | 54 k |
| `editor` | two browsers, the server, hand edits, broken connections | 1.5 M |
| `backup` | copies with failures, restarts and clocks that go back; safety and liveness | 119 k |
| `stale_recheck`, `cleaner_in_use`, `invalid_message`, `remuxed_twice` | each finds one divergence from a doc (section 6) | |

The safety properties of the engine:

* `SinkInSync`: the filesystem holds exactly the layouts the engine holds as ready.  The
  engine replaces or deletes a clip's state in several places, and the call to the filesystem
  is a separate one in each.
* `ServedIsCurrent`: a ready clip is served under its own key with its own NFO, a failed one
  not at all, and a pending one only in a version cut from the source it will be built from.
* `ServedUntilReplaced`: no step takes a wanted clip out of the filesystem unless it fails or
  its source changes.
* `PendingHasJob`: no build is lost when a clip changes while a worker has it.
* `QueueInv`, `SendNeverBlocks`: the channel holds each path once, so the send under the
  mutex never blocks.
* `NoCaseClash`: paths that differ in case only are never served together, across reloads.
* `ImplementsLibrary`: `Engine` refines `Library`, with the key of each clip as what is wanted
  and the key of each entry as what is served.

Its liveness properties, all with rechecks going on, as they do by default (`main.go:100`):

* `Converges`: when nothing changes any more, the filesystem serves exactly the valid clips
  of the clips file, each cut from the current version of its source and with a data file
  that is still valid.
* `ConvergesUnlessBusy`: with remuxes, the same provided the workers are idle again and
  again.  The proviso is needed: a reload between the rename of a remux and the publication
  of its layout finds the old layout invalid and queues the clip again, and reloads could
  keep doing so.
* `StatusConverges`, `CacheConverges`: so do the status file, and the cache, with the same proviso.
  The cache ends up with no index entry, no remuxed file and no temporary one of a key that no clip
  uses, whatever build was abandoned, failed or lost in a crash at any of its steps.

Each of them has the proviso `ReloadsPrevail`: from some time on, no `Apply` puts an older file back.
Without it none of them holds, and the code does not guarantee it: a recheck copies the old file, the
watcher applies the new one, the recheck applies the old one over it, and the next recheck may copy that
one before the next reload.  The scheduler would have to let a recheck fall on both sides of every
reload for ever, and no fairness between goroutines forbids that (section 6).  The proviso leaves
any finite number of reloads undone, and every recheck that copies the file that is current.

Of the filesystem:

* `TreeMatches`: between calls the tree shows, for each clip whose names no other clip uses, its
  layout and its NFO, and no file that no entry asks for.  A clip at `a/x` and a group named
  `a/x.mkv` want one name (`Validate` accepts both); the one placed last wins, and the clips
  around them are not disturbed.
* `NoEmptyFolders`: `prune` goes all the way up, and no further.
* `CacheFresh`: what the kernel remembers is what the tree has, except below the name that is being
  announced.  So the timeout of an hour is never what makes a change visible.
* `NeverBlanked`: replacing a clip never shows a moment without it.

Of a cut:

* `Finalizes`: a clip that is built fits the file, whatever the source and wherever it ends.
* `SizesFit`: whatever the source, the sizes and positions written into the clip fit each other: the segment
  reaches to its end, its elements follow each other to there and the seek head leads to each of them.  A size is
  a number of eight bytes and a position too (`Wide`); a clip longer than they can say is left out.
* `Readable`: the clip is read without an error, starts at 0, and has the duration asked for and the source's tracks and attachments.
* `FramesFaithful`: for *any* source, tidy or not, the clip's frames are frames of the source, each
  once, in order, at their time relative to the start.
* `FramesExact`: for a tidy source they are exactly those meant, beginning with the keyframe.
* `CuesExact`: so is its index.
* `CutsWhatItCan`: a source that can be cut is, so nothing is remuxed without need.
* `ReadsMatch`: `ReadAt` returns the cells of the virtual file at every boundary.

Of the clip manager:

* `NoLostUpdate`: a save replaces the contents its browser has seen, whatever was lost, delayed or
  answered out of order.
* `CleanIsVersion`: a list that shows no unsaved changes is the one its version names, so that a save
  later on is checked against the right contents (but from the answer to a save to the load that follows
  it, and when that load failed: section 6).
* `UnsavedKept`: edits made while nothing was loaded or saved are shown until they are saved, edited
  again or discarded by the user.

Of the backup:

* `NewestKept`: a deletion spares the newest copy, and leaves `Keep` copies or one less.
* `WithinKeep`: a run that wrote and ended well leaves no more than `Keep` copies.
* `CopyIsCurrent`: after a run that went well the newest copy is what it read.
* `EventuallyBackedUp`: when the file is left alone, its contents become the newest copy and stay.

### Bounds

The environment is bounded by `MaxEdits`, `MaxChanges`, `MaxFaults`, `MaxCrashes` (0 or 1 of each in a
run that passes): one edit and one source change at any point are what it takes to race any two of the
goroutines, and everything the *program* does is unbounded: reloads, builds and cleanings repeat for
ever, and so do rechecks in the three runs that have them.  `engine_paths` and `engine_converges` have the ticker's and
one goroutine of `Invalidate` at a time, `engine_remux_converges` the ticker's; `engine_remux` has none, and two
workers instead.  No run has all four kinds of trouble: a source change comes with a fault in
`engine_converges` and with a crash in `engine_paths`, a fault with a crash in
`engine_remux_converges`.  `MaxVersion` is 2 in
`engine_paths` and `engine_converges`, so that a source is removed, replaced or restored, and 1 elsewhere, where a
source is there or missing and a key changes through the clip's cut.  `MaxGen` bounds the identities of one
key's remuxed file that are *in use at the same time*, not the number of builds: unused
identities are reused.  At most 3 + |Paths| + (|Workers| - 1) are in use when
ffmpeg runs (the file, the temporary, the index entry, one per path, one per other worker), so 6
with two workers and 5 with one never stop it (`engine_paths`, where every cut is made by byte ranges and none
fails, has 0).  `QueueCap` is the number of paths, which
is what `SendNeverBlocks` is about (the code's channel holds 65536).

`clipfs` has a clip `a/b/p` on its own, two levels deep, and the pair `a/x` and `a/x.mkv/w` whose names
collide; two layouts and one NFO make each kind of replacement, and 4 remembered names
reach a file two levels deep and one name beside it.  Nothing else is bounded: calls go on
for ever.

`cut` has sources of up to 4 blocks in 3 clusters (2 and 1 in the rarer formats) at times 0 to 2, of
7 kinds that include frames shown before the cluster's time and before the keyframe.  Sources of
more than 2 blocks are tidy (`Bounded`), smaller ones arbitrary.  Relative timestamps range over
-3..2, which holds every time of the run when it is rebased: a rebased timestamp that does not fit is left to the
theorem `FramesAlwaysFaithful`, which is for any range.  Clips of one, two and three
clusters, with rebased, dropped and cut blocks, with and without attachments occur.  Up to 2 cells are
missing at the end of a file that ends with its clusters, which cuts into the last block, and up to 12 of one
that ends with other elements and has one block.

`editor` has two browsers, one with two requests open at a time (a poll that races a save), one hand
edit or broken connection, two edits and two lists; both lists are valid, because a refused list is
answered as a failed version check is.  `backup` keeps 2 copies and has 4 changes, 2 faults, 2 restarts and 2
clocks that go back, enough for 4 copies to pile up and be pruned by one run.

Two workers are symmetric in the safety runs.  Runs with liveness use one worker and no
symmetry.  In the safety run with two paths one worker is enough to meet the crash and
the rechecks; the theorems cover both together.

### Fairness

`Fairness` assumes that each goroutine keeps running: weak fairness on steps that need no
mutex, strong fairness on those that wait for it, because Go's `sync.Mutex` hands over to a
waiter that has starved for a millisecond.  `LoadConfig` is weakly fair because the
watcher reloads on a ticker even when nothing changed (and with a default period when the
configured one is not positive, `main.go:234`).  That a recheck begins has no fairness: it can be switched
off, and convergence does not need it; that one which has begun is applied has.  Rechecks can
prevent convergence, which is what `ReloadsPrevail` is for.  Steps of one goroutine that are never enabled
together share a fairness conjunct.  A build's steps are fair because ffmpeg runs under
a timeout (`engine.go:423`).  Faults, crashes, edits and source changes have none; they are
bounded, so they stop.  `StatusTick` may fail to write the file only by a bounded fault.

`Backup` is weakly fair in its run: the ticker starts one every `Interval` (`backup.go:49-56`), and a run waits for
nothing but the file system.  `ClipFS`, `Editor` and `Cut` state no fairness and no liveness: a call of
`SetClip` waits for nobody but the kernel, users need not do anything, and a cut is one step.

## 4. What is proved

All for every value of the constants that satisfies the named assumptions of each module (types of the
parameters, a sentinel that is no ordinary value; `ClipFS`'s `PathsAssumption` says that names form
a tree, `Backup`'s `KeepAssumption` what `backupFromEnv` insists on, and `CutAssumption` that a muxer writes no
time and no track number that does not fit its field), which TLC evaluates on every run.

| Theorem | States |
| --- | --- |
| `TypeCorrect` | `Spec => []TypeOK` |
| `SinkAlwaysInSync` | `Spec => []SinkInSync` |
| `AlwaysServedIsCurrent` | `Spec => []ServedIsCurrent` |
| `AlwaysServedUntilReplaced` | `Spec => ServedUntilReplaced` |
| `NeverCaseClash` | `Spec => []NoCaseClash` |
| `QueueCorrect` | `Spec => []QueueInv` |
| `NeverBlocksOnSend` | `Spec => []SendNeverBlocks`, if `Paths` is finite and no larger than `QueueCap` |
| `PendingAlwaysHasJob` | `Spec => []PendingHasJob` |
| `EngineImplementsLibrary` | `Spec => ImplementsLibrary` |
| `ClipFSProofs` `Types`, `CacheIsFresh` | `Spec => []TypeOK`, `Spec => []CacheFresh` |
| `ClipFSProofs` `ClipsStay` | `Spec => NeverBlanked` |
| `ClipFSProofs` `TreeIsWanted`, `NoFolderIsEmpty` | `Spec => []TreeMatches`, `Spec => []NoEmptyFolders` |
| `EditorProofs` `Types`, `CleanLists` | `Spec => []TypeOK`, `Spec => []CleanIsVersion` |
| `EditorProofs` `SavesAreFresh`, `UnsavedIsKept` | `Spec => NoLostUpdate`, `Spec => UnsavedKept` |
| `BackupProofs` `Types`, `CopiesWithinKeep`, `NewestIsCurrent` | `Spec => []TypeOK`, `[]WithinKeep`, `[]CopyIsCurrent` |
| `BackupProofs` `DeletesOldCopies` | `Spec => NewestKept` |
| `ReadsAreExact` | for any file, any parts inside it and any `off` and `n`, `ReadAt` gives exactly `Content` from `off` to `off + n` or the end |
| `ClipsFit` | for any file of cells and any request, a clip that `BuildClip` builds is a layout whose parts lie inside the file |
| `AlwaysFinalizes`, `ReadsAlwaysMatch` | `Spec => []Finalizes`, `Spec => []ReadsMatch` |
| `SizesAlwaysFit` | `Spec => []SizesFit`, for any source, any end of the file and any request |
| `ClipsAlwaysReadable` | `Spec => [](Sized => Readable)`: `Sized` is that the file and the clip are no longer than a size and a position can say |
| `FramesAlwaysFaithful` | `Spec => [](Sized => FramesFaithful)` |

The argument for the engine:

* `BaseInv` (`EngineProofs`) is `TypeOK` with `JobInv` and `ClipInv`.  `TypeOK` is not inductive: that
  `SaveIndex` writes an index entry of the right type needs a job that is saving to have an
  output, and that a published layout is a layout needs a job that is done to have one and its key
  to be the job's (`JobInv`); that a clip's status has a source needs a ready clip to have a
  layout of its own key (`ClipInv`).
* `SinkInv` is `SinkInSync` with the entry's NFO and with what a pending clip may
  still hold.  `ServedIsCurrent` follows from it and `ClipInv`.  `StillCurrent` is where it
  would fail: the key compared after the build is what ties the layout to the clip.
* `LiveClash` strengthens `NoCaseClash`: between `ApplyBegin` and `ApplyEnd` a path is live when
  it is still to be applied or has a key; live paths are pairwise different ignoring case,
  because `ApplyBegin` removes every path of the old file that is not in the new one before any
  of the new ones is published, and `Wanted` takes the first of the duplicates only.
* `QueueInv` is inductive over `BaseInv`.  `NeverBlocksOnSend` counts: a queue without duplicates
  that leaves out one path is shorter than the number of paths.
* `PendingHasJob` is inductive over `BaseInv` and `QueueInv`: between receiving a path and
  taking the mutex a worker's path is still in `queued`, so a change there is not lost.
* The refinement maps every step to `Serve`, `Request`, `Withdraw`, `Forget` or a stutter, from `SinkInv`
  and `ClipInv`.

For the filesystem: `Base` is `TypeOK` with the shape of the tree (`ClosedTree`: a node is in the tree only
with all the folders above it), how far a call has come (`OpInv`), and that nothing asks before the mount is
complete.  `FreshInv` adds to `CacheFresh` the lookup under way: what it has read is what the tree has, except at
and below the name to be announced (`Covered`); a change is announced before the next one is made.
`FileInv` says that no inode is anywhere but at its own clip's names and is the one the entry asks for,
except for the file a call is changing; `AloneInv` says the converse for a clip that is alone in its names, which no
call for another clip can touch (a folder that is pruned is empty, and has nothing below it, by an
induction over the finite chain of folders).  `TreeMatches` follows.  `FolderInv` excuses from being filled only the
folders a call still has to fill or to prune.

For the clip manager: `TypeInv` is `TypeOK` and that answered requests have an answer and checked ones a valid list.
`LockInv` says that at most one save, in a browser or late, is between its check and its write, and that
it is based on the file as it is unless someone edited that by hand since; it gives `NoLostUpdate`.
`CleanIsVersion` is inductive over `TypeInv`: every step that gives a browser a version gives it the list
as well, marks it dirty or leaves a load after a save open.  `CalmInv` says that while calm unsaved edits are shown the browser is
dirty, no load is open, and a save that is open carries the list that is shown; a poll that was sent before the edit
is answered by a look at `dirty`.

For the backup: `OldInv` says that during a run none of the first `Keep - 1` copies is marked, and all but
one of the rest are; this is what the code's prepending of the new name amounts to, wherever that
name sorts.  `WithinKeep` and `NewestKept` follow by counting.  `CurrentInv` ties the newest copy to what the
run has read while the clock goes forward.

For layouts (`LayoutProofs`): the recursive functions of the model are first shown to exist and to be unique by
induction on numbers (`FiniteRecursion`, `FiniteRecursionUnique`, and `ChainRecursion` for those that call
themselves at any higher number), from `WellFoundedInduction`'s theorem for the set of those numbers at which a
statement holds.  `AddPartFacts` is that merging a part changes neither the contents nor that the parts lie
inside the file; `PartPlace` says where a part's cells are in the contents, and `ReadGoesOn` is the invariant of
`ReadAt`'s loop: after each part it has read up to the part's end or to the end of the request.

For cuts (`MkvProofs`): nothing is assumed of the file but that it consists of cells.  `WalkElements` is what a walk
over elements guarantees whatever they say: each starts where the one before ends, and every header is in the
file.  From it, each operator is followed in the code's order with what the code has checked by then:
`OpenType` for the elements that are copied (each is before the first cluster, whose header was read), `CollectedLined`
for the clusters (each but the last ends before the header of the next, which was read), `ReadBlocksType` for the
first and the last cluster, which are read whole.  These are the reasons why a part that nobody has read is
in the file all the same; `AssembleType` puts them together.  `CutInv` (`CutProofs`) adds that the muxer's file consists
of cells, for which the times of its blocks must be the file's (`Timed`, or `Duration` would be no number).

`SizesAlwaysFit` reads back what `assemble` wrote.  `Shaped` says how a clip is put together: every position in
it is that of what it stands for, though the seek head and the cues are laid out before the positions are known;
`AssembleShape` proves it, because an entry of either is as long whatever its position (`LenOfSeekHead`,
`LenOfCues`).  `At` says that some cells stand at a position of others, and `Framed` that cells are an element wherever they stand; a
walk over elements one after the other gives exactly those (`WalkFlat`, `WalkHolds`), for the top of the segment as for the
entries of the seek head (`SeekHeadReads`).  `ContentMade` is that the parts of a clip, read from the file, are these
elements, and `TopStarts` and `ClusterStarts` that each starts where `assemble` said.

`FramesAlwaysFaithful` follows the frames from the muxer to the media server.  Its idea is that a reader
which follows sizes can only stop at a header, and that cells say which headers there are: `Marks` are the places of the
headers of some ids, and `Carries(x, ids, U, D)` says that each of them starts one of the units `U`, with numbers
of `D` that increase.  That is kept by everything a cut does with cells (`CarriesConcat`, `CarriesFlatten`, `CarriesSuffix`),
whatever the reader makes of them.  So:

* the muxer's file carries its clusters and each of these its blocks, and nothing else in the file looks like
  one (`FileCarries`, `ClusterElementMade`);
* what is read as a cluster or a block of any beginning of the file is therefore one of the muxer's, later ones
  later, with the track, the time and the frame it was written with (`SourceClusterRead`, `SourceBlocksRead`, `BlockReads`);
* a cluster of a clip carries some of the blocks of one cluster of the source, at their time (`Carried`): those that are
  kept at either end (`KeptRead`), with a timestamp that still fits 16 bits when it is rebased (`FirstCarried`), or the whole of
  one in the middle from its first block on (`WholeCarried`); `MkvBuilt` is this for whatever `BuildClip` builds;
* the clip carries these clusters (`ClipCarries`) and is read like the file was (`ClipOpens`, `ClipCollected`,
  `ClipBlocksRead`), so that the frames are numbered blocks of the source, and the numbers increase (`FramesTogether`).

`ClipsAlwaysReadable` (`CutReadProofs`) needs the converse: that what is written is found again, all of it, and nothing after it.
A `RowAt` is elements one after the other in a file, up to an end; a walk over it gives exactly these, in order, and no
`bad` (`WalkRow`).  Read twice, once of the source and once of the clip:

* whatever `Open` accepts of a beginning of the muxer's file is what was written there (`SourceKnown`): its infos, its tracks with
  the video among them, and cues that each lead to a cluster;
* `clipFrom` takes these over (`CopiedRow`), and the new infos, tracks and index are read as they were written (`InfoReads`, `TracksRead`,
  `IndexReads`); the index is not empty, as `BuildClip` starts a clip at a cue whose cluster is its first (`CueInside`);
* the clusters of a clip have whole blocks of the source after their timestamp (`Chains(BodyUnits)`): those of the first and the last
  one are what is left of some, and those in the middle are not touched.  So `collectClusters` finds each of them and
  `readBlocks` gives no error (`RowCollects`);
* the top of the segment is then read up to its first cluster (`TopWalked`, `TopFound`), the clip can be opened (`ClipOpenable`) and is what
  was built (`ClipIsOpened`); `BuiltReadable` puts these together.

`FramesAlwaysFaithful` then follows for every clip, since each is read without an error.

`FrameInv` adds to `CutInv` that a clip was built of the beginning of the file as it still is, and is what was
read back.  The times of the source must fit their fields (`CutAssumption`): a relative timestamp 16 bits, a time 64.
`Sized` is not an invariant of every instance: nothing bounds how much a muxer writes.  It holds in all states of the run `cut`,
whose files are shorter than the 255 cells a size can say there.

Only model-checked: liveness (`Converges`, `ConvergesUnlessBusy`, `StatusConverges`, `CacheConverges`,
`EventuallyBackedUp`), which the prover does not reach; that a clip
holds all that is meant (`FramesExact`, `CuesExact`), which needs besides what is proved that no frame between the ends is left out,
counted over the whole source; and `CutsWhatItCan`, which says of the
run's formats when a cut fails, and does not hold for constants under which a time does not fit its field.

## 5. Mutants

Each property of each passing run is shown to depend on the code by a mutant, a changed form of
one definition standing for a plausible slip, defined just before it: a clip that stays in
the filesystem when it is forgotten (`ForgetKeepingServed`), a finished build that is published
without comparing the key (`StillConfigured`), a previous layout kept for a replaced source
(`KeptOfAnySource`) or withdrawn on any change (`KeptIfSameKey`), a queue that forgets a path being built
(`EnqueueUnlessBuilding`) or takes one twice (`EnqueueAgain`), an index entry used unread
(`AlwaysIndexed`), a failed clip that is not tried again
(`KeepsFailed`), a clip kept although its data is gone (`KeepsUnchecked`), paths compared with
their case (`CaseSensitiveDuplicate`), a status file merged
instead of rewritten (`WrittenMerged`), a cache cleaned once only (`CleanedForever`).

In the other modules: a cluster of which only the beginning is looked for in the file (`AnyThere`); an NFO that is always shown (`WithAnyInfo`) or never taken away
(`WithNewInfo`), pruning of one folder only (`PruneOnce`) or of folders that are not empty (`Exists`), a removal
without a notification (`RemoveFileQuietly`); positions in the seek head of varying width
(`seekHeadNarrow`), clusters that keep their times (`newHeaderLate`), the first track taken for the video (`parseFirstTrack`), timestamps that are not rebased (`notRebased`),
frames before the keyframe kept (`keepStoredFrom`), cues outside the clip (`InsideClusters`), a part read beyond what was asked
(`WholePart`); a file that does not parse served all the same (`AlwaysParses`), a poll that takes the version before
the list (`PollAnsweredNotes`) or does not mind unsaved edits (`OutdatedOrDirty`), a save without the lock
(`AlwaysUnlocked`); a missing file backed up (`OnceMissing`), off by one in pruning either way (`DeletedNext`,
`DeletedEarly`), the oldest copy taken for the newest (`SameAsOldest`).

## 6. Where the code and its documentation differ

* **A recheck can undo a reload** (`stale_recheck`).  `Recheck` copies `e.file` under the mutex and
  applies it afterwards (`engine.go:325-329`); if the watcher applies a newer file in between, the
  older one is applied over it and stays until the next reload.
* **The cleaner can delete what is in use** (`cleaner_in_use`).  It lists and deletes after releasing
  the mutex (`engine.go:494`), from an older set of keys.  The clip is broken until it is
  opened or rechecked.
* **The reason an invalid clip is skipped can be lost** (`invalid_message`).  If its path was still
  in the queue, a worker "builds" it with an empty key and input and overwrites the
  message with a failure to open "" (`engine.go:346-367`).
* **A clip can be remuxed twice, at the same time, into one file** (`remuxed_twice`).  "Each clip is
  remuxed into the cache once" (`src/README.md:34`); but a clip that is edited and edited back
  while a worker remuxes it is queued again, and a second worker starts the same remux, into the same temporary
  file (`engine.go:421`).  The second rename then fails and takes the clip out of service until a
  reload.  So it does for the same cut in two folders, as the key leaves the group out (`engine.go:116`), which
  no run is about.

### Limits the properties state

These are not contradictions with a document, or not ones a run shows; the properties are worded around them.

* **Names that collide** (`clipfs.go:149`): `Validate` accepts a clip and a group that need the same
  name in the tree.  Which of them is seen depends on the order of calls; `TreeMatches` and `NeverBlanked` promise
  nothing about such a pair, and everything about the others.
* **Frames of an open GOP** that are stored in a later cluster than their keyframe are kept
  (`mkv.go:572` filters the first cluster only), audio stored before the keyframe is dropped though it is
  shown after it, and audio beyond the end in a middle cluster is kept.  A `Tidy` source has none of these.
* **Edits made while a load or a save is open** are replaced by its list (`app.js:121`, `388`): they are
  "racing" in `unsaved`, and only "calm" ones are promised to stay.
* **A load that fails after a save** leaves the old list with the new version; no poll repairs it, because the
  versions agree.  `CleanIsVersion` excepts it (`missed`).
* **An edit by hand between the version check and the write** is lost (`server.go:164-168`).
  `NoLostUpdate` excepts it.
* **`Keep = 1` with a clock that stands still or goes back** can delete the copy just written
  (`backup.go:113-115`); `NewestKept` asks for `Keep > 1`.  A run that failed to prune leaves more than `Keep` copies until the file
  changes again, and while the newest name is not the latest copy each run writes another.

## 7. Not modelled

* `nfo` is a pure formatting function and `privs` a pair of system calls.
* The UI's browsing, probing and previews read only, and share nothing with the saves.
* The mount's signals, health check and recovery of a dead mount are system calls without state of
  the program's own; the watcher's debounce only delays a reload, which may come at any time in `Engine`.
* A clips file that is empty while it is written in place; the time of the NFO; which version of a source ffmpeg
  read; the bytes two ffmpeg runs leave in one file.
* The conversion between seconds and ticks.

## 8. Plan

1. `Remux`: the temporary file as an inode that two ffmpeg runs write, which version each read, and
   what the index then promises.
2. The watcher with its debounce and files that are written in place, composed with `Editor`.
3. The editor dialog's index into a list that a poll replaces, with lists as sequences.
4. `ClipFS` as a refinement of `Engine`'s map of entries, and an open handle across a replacement.
