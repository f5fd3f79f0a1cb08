----------------------------- MODULE FileEntity -----------------------------
(***************************************************************************)
(* ChunkedReadFile (src/src/file.rs) and the Unix side of                  *)
(* src/src/platform.rs: a file's metadata is taken once, its bytes are     *)
(* read piece by piece while the body is polled, and anybody may change    *)
(* the file meanwhile.                                                     *)
(*                                                                         *)
(* The file system is external.  A change gives a file a time that no      *)
(* other change has, so mtime also names the content: a read returns bytes *)
(* of the file's current mtime.  A change is one step.                     *)
(***************************************************************************)
EXTENDS Integers, Sequences, ExactLenStream

CONSTANTS
  Inodes,         \* inode numbers
  MaxLen,         \* bound: length of a file
  ChunkSize,      \* CHUNK_SIZE, 65536
  MaxTime         \* bound: changes to the file system

ASSUME FileAssumption ==
  Inodes \subseteq Nat \ {0} /\ MaxLen \in Nat /\ ChunkSize \in Nat \ {0} /\ MaxTime \in Nat

VARIABLES
  inodes,         \* kind, length and mtime of each inode
  clock           \* time of the last change

VARIABLES
  file,           \* the inode of the open File, or 0
  crf,            \* Option of the ChunkedReadFileInner
  range,          \* the range passed to get_range
  left,           \* the state of the unfold stream
  cur,            \* the ExactLenStream around it
  seen,           \* what the last poll of the body returned
  failed,         \* some poll returned an error
  received        \* the bytes it returned, by chunk, each with the content it is of

disk  == <<inodes, clock>>
fbody == <<crf, range, left, cur, seen, failed, received>>

Free == [kind |-> "free", len |-> 0, mtime |-> 0]
NoRange == [start |-> 0, end |-> 0]

FileInit ==
  /\ clock = 0
  /\ file = 0 /\ crf = {} /\ range = NoRange /\ left = NoRange /\ cur = None
  /\ seen = "nothing" /\ failed = FALSE /\ received = <<>>

(* platform::file_info                                                     *)
file_info(i, metadata) == [inode |-> i, len |-> metadata.len, mtime |-> metadata.mtime]

(* new_with_metadata: None is the error "expected a file".                 *)
new_with_metadata(i, metadata) ==
  IF metadata.kind = "file" THEN {file_info(i, metadata)} ELSE {}

(* Mutant: the time is left out of the tag.                                *)
etagMutant(info) == <<info.inode, info.len>>

etag(info) == <<info.inode, info.len, info.mtime>>

(* etag expects a time after the epoch.                                    *)
EtagPanics(info) == info.mtime < 0

(* get_range for a body of serve.                                          *)
get_range(r) ==
  /\ range' = r /\ left' = r
  /\ cur' = ExactLen(r.end - r.start)
  /\ UNCHANGED <<crf, seen, failed, received>>

Lesser(a, b) == IF a < b THEN a ELSE b

(* What pread returns if it does not fail: any part of what it was asked   *)
(* for, nothing at the end of the file.                                    *)
pread(n, offset) ==
  IF inodes[file].len > offset THEN 1 .. Lesser(n, inodes[file].len - offset) ELSE {0}

(* Mutant: the end of the file is an empty chunk.                          *)
read_atMutant(retval) ==
  IF retval < 0 THEN [kind |-> "error", n |-> 0] ELSE [kind |-> "data", n |-> retval]

(* FileExt::read_at, by what pread returned.                               *)
read_at(retval) ==
  IF retval <= 0 THEN [kind |-> "error", n |-> 0] ELSE [kind |-> "data", n |-> retval]

(* Mutant: left moves by what was asked for.                               *)
AdvanceMutant(item) ==
  left' = IF item.kind = "data"
          THEN [left EXCEPT !.start = @ + Lesser(ChunkSize, left.end - left.start)] ELSE left

(* A failed read leaves the stream where it is.                            *)
Advance(item) == left' = [left EXCEPT !.start = @ + item.n]

(* A poll of the body: the unfold closure, for what it gets from read_at,  *)
(* below an ExactLenStream.                                                *)
PollItem(item) ==
  LET r == exact_len_poll(cur, item)
  IN /\ Advance(item)
     /\ cur' = r.cur /\ seen' = r.out /\ failed' = (failed \/ r.out = "error")
     /\ received' =
          IF r.out # "data" \/ item.n = 0 THEN received
          ELSE Append(received, [from |-> left.start, to |-> left.start + item.n,
                                 content |-> inodes[file].mtime])
     /\ UNCHANGED <<crf, range>>

PollFile ==
  \/ left.start = left.end /\ PollItem([kind |-> "none", n |-> 0])
  \/ /\ left.start # left.end
     /\ \E retval \in pread(Lesser(ChunkSize, left.end - left.start), left.start) :
          PollItem(read_at(retval))

(* pread, or the blocking section around it, fails.                        *)
PollFileFails == left.start # left.end /\ PollItem(read_at(-1))
-----------------------------------------------------------------------------
(***************************************************************************)
(* Other users of the file system (external)                               *)
(***************************************************************************)
(* Written, truncated or extended in place.                                *)
Rewrite(i) ==
  /\ inodes[i].kind = "file" /\ clock < MaxTime /\ clock' = clock + 1
  /\ \E n \in 0 .. MaxLen :
       inodes' = [inodes EXCEPT ![i] = [kind |-> "file", len |-> n, mtime |-> clock']]
=============================================================================
