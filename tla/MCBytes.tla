------------------------------ MODULE MCBytes -------------------------------
(***************************************************************************)
(* Where the bytes of files, blocks and items are, one part at a time: the  *)
(* page arithmetic of the buffer blocks, the paged files of the manager,    *)
(* and the items of mmap_array. The variables of the other parts are Off.   *)
(***************************************************************************)
EXTENDS Integers, FiniteSets, Sequences, TLC

CONSTANTS fileA, fileB, arrA, arrB, None

VARIABLES
  part,   \* the part that runs
  \* the variables of the parts:
  impl, left, right, off, num, op, res, os, fds, maps, mem, queue, locked, others,
  fate, link, files, open, wrote, arr

vars == <<part, impl, left, right, off, num, op, res, os, fds, maps, mem, queue,
          locked, others, fate, link, files, open, wrote, arr>>

\* All strings of two letters up to a length, for the comparisons.
Words == UNION {[1 .. n -> {1, 2}] : n \in 1 .. 4}
Short == UNION {[1 .. n -> {1, 2}] : n \in 1 .. 3}

\* Bytes that are all different, for the operations that move them.
Views == INSTANCE BlockViews WITH
  PageSize <- 5, ObjSize <- 2, Contents <- {[k \in 1 .. n |-> k] : n \in 1 .. 12},
  Others <- {<<1>>}, Offsets <- {0}, MultiPage <- FALSE, AnyLength <- FALSE

\* All pairs of short words, for the comparisons.
Compare == INSTANCE BlockViews WITH
  PageSize <- 2, ObjSize <- 1, Contents <- Words, Others <- Short, Offsets <- {0, 1, 2},
  MultiPage <- FALSE, AnyLength <- FALSE

\* One file that grows to three pages, in two pools of one frame each.
Files == INSTANCE PagedFiles WITH
  Names <- {fileA}, OsInit <- fileA :> <<1, 1, 1>>, Bytes <- {0, 1}, Junk <- 9, Page <- 2,
  Partitions <- 2, Frames <- 2, MaxSize <- 5, MaxFds <- 2, Sync <- TRUE,
  Shrink <- FALSE, EvictClosed <- FALSE, Contended <- FALSE

\* Two files that also shrink, with evictions after a close and pages locked by others.
TwoFiles == INSTANCE PagedFiles WITH
  Names <- {fileA, fileB}, OsInit <- (fileA :> <<1, 1, 1>>) @@ (fileB :> <<>>),
  Bytes <- {0, 1}, Junk <- 9, Page <- 2, Partitions <- 2, Frames <- 1, MaxSize <- 3, MaxFds <- 2,
  Sync <- TRUE, Shrink <- TRUE, EvictClosed <- TRUE, Contended <- TRUE

\* Items that fill the pages, two names, and every operation.
Array == INSTANCE MmapArray WITH
  Names <- {fileA, fileB}, Arrays <- {arrA, arrB}, FileInit <- (fileA :> 1) @@ (fileB :> None),
  Item <- 1, Page <- 2, MaxItems <- 2, WholeItems <- TRUE, Touching <- TRUE,
  OpenMissing <- TRUE

\* Items that leave a rest in each page.
Padded == INSTANCE MmapArray WITH
  Names <- {fileA}, Arrays <- {arrA, arrB}, FileInit <- fileA :> 6, Item <- 2, Page <- 5,
  MaxItems <- 3, WholeItems <- FALSE, Touching <- FALSE, OpenMissing <- FALSE

ASSUME /\ Views!Parameters /\ Compare!Parameters /\ Files!Parameters
       /\ TwoFiles!Parameters /\ Array!Parameters /\ Padded!Parameters

Off == "off"   \* of a variable that the part does not have

NotViews == <<os, fds, maps, mem, queue, locked, others, fate, link, files, open,
              wrote, arr>>
NotFiles == <<impl, left, right, off, num, op, res, link, files, open, wrote, arr>>
NotArray == <<impl, left, right, off, num, op, res, os, fds, maps, mem, queue,
              locked, others>>

Init ==
  \/ /\ part = "views" /\ Views!Init
     /\ os = Off /\ fds = Off /\ maps = Off /\ mem = Off /\ queue = Off
     /\ locked = Off /\ others = Off /\ fate = Off /\ link = Off /\ files = Off
     /\ open = Off /\ wrote = Off /\ arr = Off
  \/ /\ part = "compare" /\ Compare!Init
     /\ os = Off /\ fds = Off /\ maps = Off /\ mem = Off /\ queue = Off
     /\ locked = Off /\ others = Off /\ fate = Off /\ link = Off /\ files = Off
     /\ open = Off /\ wrote = Off /\ arr = Off
  \/ /\ part = "files" /\ Files!Init
     /\ impl = Off /\ left = Off /\ right = Off /\ off = Off /\ num = Off
     /\ op = Off /\ res = Off /\ link = Off /\ files = Off /\ open = Off
     /\ wrote = Off /\ arr = Off
  \/ /\ part = "two" /\ TwoFiles!Init
     /\ impl = Off /\ left = Off /\ right = Off /\ off = Off /\ num = Off
     /\ op = Off /\ res = Off /\ link = Off /\ files = Off /\ open = Off
     /\ wrote = Off /\ arr = Off
  \/ /\ part = "array" /\ Array!Init
     /\ impl = Off /\ left = Off /\ right = Off /\ off = Off /\ num = Off
     /\ op = Off /\ res = Off /\ os = Off /\ fds = Off /\ maps = Off
     /\ mem = Off /\ queue = Off /\ locked = Off /\ others = Off
  \/ /\ part = "padded" /\ Padded!Init
     /\ impl = Off /\ left = Off /\ right = Off /\ off = Off /\ num = Off
     /\ op = Off /\ res = Off /\ os = Off /\ fds = Off /\ maps = Off
     /\ mem = Off /\ queue = Off /\ locked = Off /\ others = Off

Next ==
  /\ part' = part
  /\ \/ part = "views" /\ Views!Next /\ UNCHANGED NotViews
     \/ part = "compare" /\ Compare!Next /\ UNCHANGED NotViews
     \/ part = "files" /\ Files!Next /\ UNCHANGED NotFiles
     \/ part = "two" /\ TwoFiles!Next /\ UNCHANGED NotFiles
     \/ part = "array" /\ Array!Next /\ UNCHANGED NotArray
     \/ part = "padded" /\ Padded!Next /\ UNCHANGED NotArray

Spec == Init /\ [][Next]_vars

-----------------------------------------------------------------------------
(* Properties. *)

\* The variables of the part that runs have their types (where files shrink, the
\* write-back of a whole page makes them longer than their bound again).
TypeOK ==
  CASE part = "views" -> Views!TypeOK
    [] part = "compare" -> Compare!TypeOK
    [] part = "files" -> Files!TypeOK
    [] part = "array" -> Array!TypeOK
    [] part = "padded" -> Padded!TypeOK
    [] OTHER -> part = "two"

\* Whatever the page a block begins in and wherever the page boundaries fall: the static
\* Copy has the same bytes, Copy(buf, buf_size, offset) gives the bytes from the offset
\* and no more than buf holds, SetBlock writes them in order, the pieces of GetBlock and
\* SetBlock are the range, Decode finds the idx-th object in the page that UpdateContent
\* marks dirty, and Compare, with a string or a block, gives the order of the bytes.
BlocksShowBytes ==
  /\ TypeOK
  /\ part = "views" => /\ Views!CopyKeepsBytes /\ Views!CopyOutRight
                       /\ Views!SetBlockRight /\ Views!PiecesCover /\ Views!DecodeRight
  /\ part = "compare" => Compare!CompareIsOrder /\ Compare!BlocksOrdered

\* Every page of an open file has an entry in the mapping of its pool, whichever of
\* open and resize made the mapping; the DiskManager's handle is the index of the file's
\* mapping in every pool, and a closed file has none.
MappingsCover ==
  /\ part = "files" => Files!MappingCovers
  /\ part = "two" => TwoFiles!MappingCovers /\ TwoFiles!FdsAligned

\* Opening, loading, evicting, flushing, cleaning, closing, reopening and shutting down
\* keep every byte that was written, and a file grows by zeros.
ActsAsByteFiles ==
  /\ part = "files" => Files!Abstract!Init
  /\ [][part = "files" => Files!Abstract!Step]_vars

\* What set and set_partial write is what get reads, and nothing else changes it: no
\* resize, dump, touch, reopening or move.  A handle that is open in the manager belongs
\* to exactly one array, size() is what the file holds in whole items, and the block that
\* get returns ends in the file and holds the items asked for.
ActsAsItems ==
  /\ part = "array" => Array!Promise!Init
  /\ part = "padded" => Padded!Promise!Init
  /\ [](/\ part = "array" => Array!HandlesOwned /\ Array!SizeIsFile
        /\ part = "padded" => Padded!SizeIsFile /\ Padded!GetInFile)
  /\ [][/\ part = "array" => Array!Promise!Step
        /\ part = "padded" => Padded!Promise!Step]_vars
=============================================================================
