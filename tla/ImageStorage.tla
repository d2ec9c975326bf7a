---------------------------- MODULE ImageStorage ----------------------------
(***************************************************************************)
(* The images of one workspace, uploaded by the phones for Claude to read: *)
(* files in .cdev/images and, in memory, their entries, an index by        *)
(* content and the total size.  One mutex makes each call a step.  A file  *)
(* may refuse to be removed, be removed by somebody else or be left by a   *)
(* program that died, and all of memory but what the files tell is lost at *)
(* a restart.                                                              *)
(*                                                                         *)
(* An image's content is a number, its size too; time is counted in ticks. *)
(***************************************************************************)
EXTENDS Naturals, FiniteSets, PartialFunctions

CONSTANTS
    Pictures,        \* different contents, by size
    MaxImages,       \* MaxImagesCount
    MaxSize,         \* MaxTotalSizeMB
    TTL,             \* ImageTTL, in ticks
    MaxUploads,      \* bound: files ever written
    MaxClock,        \* bound: ticks
    MaxMishaps       \* bound: restarts, removals that fail and files others remove

ASSUME ImageAssumption ==
    /\ Pictures \subseteq Nat \ {0}
    /\ {MaxImages, MaxSize, TTL, MaxUploads, MaxClock, MaxMishaps} \subseteq Nat

VARIABLES
    images,          \* id -> hash (0: loaded from its file), size, created, expires
    hashIndex,       \* content -> id
    totalSize,
    files,           \* id -> content and modification time
    clock, uploads, mishaps,
    promised,        \* history: the expires_at the phones were told
    released,        \* history: deleted, cleared, evicted, removed by others, or shortened by a restart
    kept             \* history: a removal failed

imageVars == <<images, hashIndex, totalSize, files, clock, uploads, mishaps, promised, released, kept>>
IDs == 1..MaxUploads

\* The bytes of the images in S, of which each has as many as its size.
BytesOf(size, S) == UNION {{i} \X (1 .. size[i]) : i \in S}

Bytes(S) == Cardinality(BytesOf([i \in DOMAIN images |-> images[i].size], S))
Expired == {i \in DOMAIN images : clock > images[i].expires}
Oldest(S) == {i \in S : \A j \in S : images[i].created <= images[j].created}
Mishap(n) == mishaps' = mishaps + n /\ mishaps' <= MaxMishaps

\* canAcceptUploadLocked, once the images of gone have left.
CanAcceptUpload(size, gone) ==
    /\ Cardinality(DOMAIN images \ gone) < MaxImages
    /\ totalSize - Bytes(gone) + size <= MaxSize

\* The images an upload takes the place of: the expired ones when it does not
\* fit, and the oldest of the others when that is not enough.
MakeRoom(size) ==
    IF CanAcceptUpload(size, {}) THEN {{}}
    ELSE IF CanAcceptUpload(size, Expired) \/ DOMAIN images = Expired THEN {Expired}
    ELSE {Expired \cup {i} : i \in Oldest(DOMAIN images \ Expired)}

\* The index loses the contents of the images that go.
Unindex(gone) ==
    Only(hashIndex, DOMAIN hashIndex \ {images[i].hash : i \in gone})

\* os.Remove of each of them, which nobody looks at: some files stay.
RemoveFiles(gone, stay) ==
    /\ stay \subseteq gone \cap DOMAIN files /\ Mishap(Cardinality(stay))
    /\ kept' = (kept \/ stay # {})
Others(gone, stay) == Only(files, DOMAIN files \ (gone \ stay))

Entry(c, time) == [hash |-> c, size |-> c, created |-> time, expires |-> time + TTL]
Loaded(disk) == [i \in DOMAIN disk |-> [Entry(disk[i].content, disk[i].mtime) EXCEPT !.hash = 0]]
Sizes(disk) == Cardinality(BytesOf([i \in DOMAIN disk |-> disk[i].content], DOMAIN disk))

\* New: what is in the folder is all there is.
Load(disk) ==
    /\ images' = Loaded(disk) /\ hashIndex' = EmptyFunction /\ totalSize' = Sizes(disk)
    /\ files' = disk
    /\ released' = released \cup {i \in DOMAIN disk : promised[i] # disk[i].mtime + TTL}

\* --- The calls ---------------------------------------------------------------

\* Mutant of StoreDuplicate: the phone is told a new expires_at and the entry keeps the old.
StoreDuplicateUntouched(c) ==
    /\ c \in DOMAIN hashIndex /\ hashIndex[c] \in DOMAIN images
    /\ promised' = [promised EXCEPT ![hashIndex[c]] = clock + TTL]
    /\ UNCHANGED <<images, hashIndex, totalSize, files, clock, uploads, mishaps, released, kept>>

\* The same image again: its entry lives longer, and nothing is written.
StoreDuplicate(c) ==
    /\ c \in DOMAIN hashIndex /\ hashIndex[c] \in DOMAIN images
    /\ LET i == hashIndex[c] IN
          /\ images' = [images EXCEPT ![i].expires = clock + TTL]
          /\ promised' = [promised EXCEPT ![i] = clock + TTL]
    /\ UNCHANGED <<hashIndex, totalSize, files, clock, uploads, mishaps, released, kept>>

\* A new image.  What made room for it is gone when the image is then refused,
\* or cannot be written, too; when the program dies before the entry is made,
\* the file is found at the next start.
StoreNew(c) ==
    /\ ~(c \in DOMAIN hashIndex /\ hashIndex[c] \in DOMAIN images)
    /\ uploads < MaxUploads
    /\ \E gone \in MakeRoom(c) : \E stay \in SUBSET gone :
          LET disk == Others(gone, stay)
              id == uploads + 1
              written == With(disk, id, [content |-> c, mtime |-> clock])
          IN
          \/ /\ RemoveFiles(gone, stay)
             /\ released' = released \cup (gone \ Expired)
             /\ IF CanAcceptUpload(c, gone)
                THEN /\ images' = With(Only(images, DOMAIN images \ gone), id, Entry(c, clock))
                     /\ hashIndex' = With(Unindex(gone), c, id)
                     /\ totalSize' = totalSize - Bytes(gone) + c
                     /\ files' = written
                     /\ promised' = [promised EXCEPT ![id] = clock + TTL]
                     /\ uploads' = id
                ELSE /\ images' = Only(images, DOMAIN images \ gone)
                     /\ hashIndex' = Unindex(gone)
                     /\ totalSize' = totalSize - Bytes(gone)
                     /\ files' = disk
                     /\ UNCHANGED <<promised, uploads>>
          \/ \* os.Create, Write or Rename fails.
             /\ CanAcceptUpload(c, gone) /\ stay = {} /\ Mishap(1)
             /\ released' = released \cup (gone \ Expired)
             /\ images' = Only(images, DOMAIN images \ gone)
             /\ hashIndex' = Unindex(gone)
             /\ totalSize' = totalSize - Bytes(gone)
             /\ files' = disk
             /\ UNCHANGED <<promised, uploads, kept>>
          \/ \* The program dies and starts again.
             /\ CanAcceptUpload(c, gone) /\ stay = {} /\ Mishap(1)
             /\ images' = Loaded(written) /\ hashIndex' = EmptyFunction
             /\ totalSize' = Sizes(written) /\ files' = written
             /\ released' = released \cup (gone \ Expired)
                              \cup {i \in DOMAIN disk : promised[i] # disk[i].mtime + TTL}
             /\ uploads' = id
             /\ UNCHANGED <<promised, kept>>
    /\ UNCHANGED clock

Drop(gone, stay) ==
    /\ images' = Only(images, DOMAIN images \ gone)
    /\ hashIndex' = Unindex(gone)
    /\ totalSize' = totalSize - Bytes(gone)
    /\ files' = Others(gone, stay)

Delete(i) ==
    /\ i \in DOMAIN images
    /\ Drop({i}, {}) /\ released' = released \cup {i}
    /\ UNCHANGED <<clock, uploads, mishaps, promised, kept>>

\* Everything that has an entry.
Clear ==
    /\ \E stay \in SUBSET DOMAIN images :
          /\ RemoveFiles(DOMAIN images, stay)
          /\ files' = Others(DOMAIN images, stay)
    /\ images' = EmptyFunction /\ hashIndex' = EmptyFunction /\ totalSize' = 0
    /\ released' = released \cup DOMAIN images
    /\ UNCHANGED <<clock, uploads, promised>>

\* The routes.
HandleUpload(c) == StoreDuplicate(c) \/ StoreNew(c)
HandleDelete(i) == Delete(i)
HandleClearImages == Clear

\* The cleanup loop, whenever its ticker fires.
CleanupImages ==
    /\ \E stay \in SUBSET Expired : RemoveFiles(Expired, stay) /\ Drop(Expired, stay)
    /\ UNCHANGED <<clock, uploads, promised, released>>

\* --- What happens around it ------------------------------------------------------

ClockTick ==
    /\ clock < MaxClock /\ clock' = clock + 1
    /\ UNCHANGED <<images, hashIndex, totalSize, files, uploads, mishaps, promised, released, kept>>

RemovedByOthers(i) ==
    /\ i \in DOMAIN files /\ Mishap(1)
    /\ files' = Without(files, i) /\ released' = released \cup {i}
    /\ UNCHANGED <<images, hashIndex, totalSize, clock, uploads, promised, kept>>

RestartStorage == Mishap(1) /\ Load(files) /\ UNCHANGED <<clock, uploads, promised, kept>>

ImageInit ==
    /\ images = EmptyFunction /\ hashIndex = EmptyFunction /\ totalSize = 0 /\ files = EmptyFunction
    /\ clock = 0 /\ uploads = 0 /\ mishaps = 0
    /\ promised = [i \in IDs |-> 0] /\ released = {} /\ kept = FALSE

ImageNext ==
    \/ \E c \in Pictures : HandleUpload(c)
    \/ \E i \in IDs : HandleDelete(i) \/ RemovedByOthers(i)
    \/ HandleClearImages \/ CleanupImages \/ ClockTick \/ RestartStorage

ImageSpec == ImageInit /\ [][ImageNext]_imageVars

\* --- Properties --------------------------------------------------------------------

\* The path a phone was answered with names its image until the expires_at it was
\* told with it last: through uploads of the same content, cleanups, failing
\* writes and restarts, unless the image was deleted, cleared or evicted for
\* another, somebody else removed its file, or a restart forgot that the image
\* had been uploaded again.
KeptAsPromised ==
    \A i \in IDs :
        (promised[i] # 0 /\ clock <= promised[i] /\ i \notin released)
        => i \in DOMAIN images /\ i \in DOMAIN files

\* What is counted is what is there: the cached total is the sum of the images,
\* no content of this run is stored twice, each is found under its own image, and
\* the folder's limits are kept as long as files that were to go went.
StorageAddsUp ==
    /\ totalSize = Bytes(DOMAIN images)
    /\ \A i \in DOMAIN images : images[i].hash # 0 =>
          images[i].hash \in DOMAIN hashIndex /\ hashIndex[images[i].hash] = i
    /\ \A c \in DOMAIN hashIndex : hashIndex[c] \in DOMAIN images /\ images[hashIndex[c]].hash = c
    /\ ~kept => Cardinality(DOMAIN files) <= MaxImages /\ Sizes(files) <= MaxSize
\* The images of the phones are there as long as they were told, and the entries,
\* the files and the limits agree about them.
UploadsAreKept == KeptAsPromised /\ StorageAddsUp
=============================================================================
