---------------------------- MODULE FsDirProofs ----------------------------
(***************************************************************************)
(* Proofs about FsDir for files of any length, chunks of any size, any     *)
(* number of changes to the directory and paths and headers of any length. *)
(***************************************************************************)
EXTENDS FsDir, AcceptEncodingProofs

-----------------------------------------------------------------------------
(***************************************************************************)
(* Paths, files and the start                                              *)
(***************************************************************************)

(* A path that is let through stays inside the directory.                  *)
LEMMA ValidInside ==
  ASSUME NEW p \in Paths \cup {Dot}, validate_path(p)
  PROVE  Inside(p)
<1>1. Len(p) \in Nat
  <2>1. CASE p = Dot
    BY <2>1 DEF Dot
  <2>2. CASE p \in Paths
    <3>1. PICK n \in 1 .. MaxSegments : p \in [1 .. n -> Segments]
      BY <2>2 DEF Paths
    <3> QED BY <3>1, DirAssumption
  <2> QED BY <2>1, <2>2
<1>2. ASSUME NEW k \in 1 .. Len(p)
      PROVE  Cardinality({i \in 1 .. k : p[i] = ".."}) <= Cardinality({i \in 1 .. k : p[i] = "a"})
  <2>1. {i \in 1 .. k : p[i] = ".."} = {}
    <3>1. 1 .. k \subseteq 1 .. Len(p)
      BY <1>1
    <3> QED BY <3>1 DEF validate_path
  <2>2. IsFiniteSet({i \in 1 .. k : p[i] = "a"})
    <3>1. IsFiniteSet(1 .. k)
      BY <1>1, FS_Interval
    <3> QED BY <3>1, FS_Subset
  <2>3. Cardinality({i \in 1 .. k : p[i] = "a"}) \in Nat
    BY <2>2, FS_CardinalityType
  <2>4. Cardinality({i \in 1 .. k : p[i] = ".."}) = 0
    BY <2>1, FS_EmptySet
  <2> QED BY <2>3, <2>4
<1> QED BY <1>2 DEF validate_path, Inside

(* What openat finds is under one of the names, or the directory itself.   *)
LEMMA OpenFinds ==
  ASSUME NEW suffix \in BOOLEAN, open_file(suffix) \in Inodes, TypeOK, DirInv
  PROVE  open_file(suffix) # 0 /\ inodes[open_file(suffix)].kind # "free"
<1>1. 0 \notin Inodes /\ -1 \notin Inodes
  BY FileAssumption
<1>2. open_file(suffix) = Root \/ \E n \in Names : open_file(suffix) = dir[n]
  <2>1. open_file(suffix) \in {Root, dir["a"], dir["a.gz"], Failure, NotFound}
    BY DEF open_file
  <2> QED BY <1>1, <2>1 DEF Failure, NotFound, Names
<1> QED BY <1>1, <1>2 DEF DirInv

(* The first state.                                                        *)
LEMMA InitFs == Init => IInv
<1> SUFFICES ASSUME Init PROVE IInv
  OBVIOUS
<1> USE FileAssumption, DirAssumption
<1>0. /\ clock = 0 /\ file = 0 /\ crf = {} /\ range = NoRange /\ left = NoRange /\ cur = None
      /\ seen = "nothing" /\ received = <<>> /\ phase = "idle" /\ status = "none"
      /\ metadata = Free /\ auto_gzip \in BOOLEAN
  BY DEF Init, FileInit
<1>1. gzip = FALSE /\ is_gzipped = FALSE
  BY DEF Init
<1>2. PICK a \in {Free, File(-1), File(0), Other("dir"), Other("other")}, z \in {Free, File(0), Other("dir")} :
       /\ inodes = [i \in Inodes |-> CASE i = 1 -> a [] i = 2 -> z [] i = Root -> Other("dir") [] OTHER -> Free]
       /\ dir = [n \in Names |-> CASE n = "a" /\ a # Free -> 1 [] n = "a.gz" /\ z # Free -> 2 [] OTHER -> 0]
  BY DEF Init
<1>3. /\ a \in InodeTypes /\ z \in InodeTypes /\ Free \in InodeTypes
      /\ a.mtime <= 0 /\ z.mtime <= 0 /\ Free.mtime <= 0
      /\ a # Free => a.kind # "free"
      /\ z # Free => z.kind # "free"
  BY DEF InodeTypes, Free, File, Other
<1>4. /\ \A i \in Inodes : inodes[i] \in {a, z, Other("dir"), Free}
      /\ inodes[1] = a /\ inodes[2] = z /\ inodes[Root] = Other("dir")
      /\ Other("dir") \in InodeTypes /\ Other("dir").mtime = 0 /\ Other("dir").kind = "dir"
      /\ inodes \in [Inodes -> InodeTypes]
  <2>1. Other("dir") \in InodeTypes /\ Other("dir").mtime = 0 /\ Other("dir").kind = "dir"
    BY DEF Other, InodeTypes
  <2> QED BY <1>2, <1>3, <2>1 DEF Root
<1>5. /\ dir["a"] = IF a # Free THEN 1 ELSE 0
      /\ dir["a.gz"] = IF z # Free THEN 2 ELSE 0
      /\ dir \in [Names -> Inodes \cup {0}]
  BY <1>2 DEF Names
<1>6. TypeOK
  <2>1. gzip \in BOOLEAN /\ is_gzipped \in BOOLEAN
    BY <1>1
  <2> QED BY <1>0, <1>3, <1>4, <1>5, <2>1 DEF TypeOK, Phases, Answers
<1>7. DirInv
  BY <1>3, <1>4, <1>5 DEF DirInv, Names, Root
<1>8. LookupInv /\ NodeInv
  BY <1>0, <1>1 DEF LookupInv, NodeInv
<1>9. BodyInv /\ BodyIsRange
  BY <1>0 DEF BodyInv, BodyIsRange, NoRange, None, Position
<1>10. VouchInv
  BY <1>0, <1>3, <1>4 DEF VouchInv
<1> QED BY <1>6, <1>7, <1>8, <1>9, <1>10 DEF IInv
-----------------------------------------------------------------------------
(***************************************************************************)
(* The lookup                                                              *)
(***************************************************************************)

(* The phases before there is an entity.                                   *)
Lookup == {"idle", "get", "open_gz", "stat_gz", "open", "stat", "node"}

(* What it leaves as it is.                                                *)
Settled ==
  /\ DirInv /\ BodyInv /\ BodyIsRange /\ VouchInv
  /\ inodes \in [Inodes -> InodeTypes] /\ clock \in 0 .. MaxTime
  /\ dir \in [Names -> Inodes \cup {0}]
  /\ crf \subseteq [inode : Inodes, len : 0 .. MaxLen, mtime : -1 .. MaxTime]
  /\ metadata \in InodeTypes

(* The lookup changes no file and has no body yet.                         *)
LEMMA LookupKeeps ==
  ASSUME IInv, phase \in Lookup, UNCHANGED <<fs, fbody>>,
         metadata' = metadata \/ (file \in Inodes /\ metadata' = inodes[file])
  PROVE  Settled'
<1>1. UNCHANGED <<dir, inodes, clock, crf, range, left, cur, seen, received>>
  BY DEF fs, disk, fbody
<1>2. DirInv'
  BY <1>1 DEF IInv, DirInv
<1>3. Position' = Position
  BY <1>1 DEF Position
<1>4. received = <<>> /\ seen = "nothing" /\ crf = {}
  BY DEF IInv, BodyInv, VouchInv, Lookup
<1>5. BodyInv' /\ BodyIsRange'
  BY <1>1, <1>3, <1>4 DEF IInv, BodyInv, BodyIsRange
<1>6. metadata' \in InodeTypes /\ metadata'.mtime <= clock
  BY DEF IInv, TypeOK, VouchInv
<1>7. VouchInv'
  BY <1>1, <1>4, <1>6 DEF IInv, VouchInv
<1> QED BY <1>1, <1>2, <1>5, <1>6, <1>7 DEF IInv, TypeOK, Settled

(* A request arrives.                                                      *)
LEMMA RequestFs ==
  ASSUME IInv, Request
  PROVE  IInv'
<1>1. /\ phase = "idle" /\ phase' = "get"
      /\ UNCHANGED <<fs, fbody, file, auto_gzip, gzip, metadata, is_gzipped, origin, status, headers>>
  BY DEF Request, node
<1>2. Settled'
  BY <1>1, LookupKeeps DEF Lookup
<1>3. path' \in Paths \cup {Dot} /\ (header' \in Headers \/ header' = {<<Gzip>>})
  <2>1. PICK r \in Requests : path' = (IF r.path = <<"">> THEN Dot ELSE r.path) /\ header' = r.header
    BY DEF Request
  <2>2. <<"a">> \in Paths
    <3>1. 1 \in 1 .. MaxSegments
      BY DirAssumption
    <3>2. <<"a">> = [i \in 1 .. 1 |-> "a"]
      OBVIOUS
    <3>3. [i \in 1 .. 1 |-> "a"] \in [1 .. 1 -> Segments]
      BY DEF Segments
    <3> QED BY <3>1, <3>2, <3>3 DEF Paths
  <2>3. {} \in Headers
    BY DEF Headers
  <2> QED BY <2>1, <2>2, <2>3 DEF Requests
<1>4. TypeOK'
  BY <1>1, <1>2 DEF IInv, TypeOK, Settled, Phases
<1>5. LookupInv' /\ NodeInv'
  BY <1>1, <1>3 DEF IInv, LookupInv, NodeInv
<1> QED BY <1>2, <1>4, <1>5 DEF IInv, Settled

(* The path is validated and the header read.                              *)
LEMMA GetFs ==
  ASSUME IInv, Get
  PROVE  IInv'
<1>1. /\ phase = "get"
      /\ UNCHANGED <<fs, fbody, file, auto_gzip, path, metadata, is_gzipped, origin, headers>>
  BY DEF Get, node
<1>2. Settled'
  BY <1>1, LookupKeeps DEF Lookup
<1>3. status = "none" /\ ~is_gzipped /\ path \in Paths \cup {Dot} /\ auto_gzip \in BOOLEAN /\ gzip \in BOOLEAN
  BY <1>1 DEF IInv, LookupInv, TypeOK
<1>4. CASE phase' = "done" /\ status' = "error" /\ gzip' = gzip
  <2>1. TypeOK'
    BY <1>1, <1>2, <1>4 DEF IInv, TypeOK, Settled, Phases, Answers
  <2>2. LookupInv' /\ NodeInv'
    BY <1>1, <1>4 DEF IInv, LookupInv, NodeInv
  <2> QED BY <1>2, <2>1, <2>2 DEF IInv, Settled
<1>5. CASE /\ validate_path(path) /\ gzip' = (auto_gzip /\ should_gzip(header))
           /\ phase' = IF gzip' THEN "open_gz" ELSE "open"
           /\ status' = status
  <2>1. Inside(path)
    BY <1>3, <1>5, ValidInside
  <2>2. gzip' \in BOOLEAN /\ (gzip' => auto_gzip)
    BY <1>5, Zenon
  <2>3. phase' \in {"open_gz", "open"} /\ (phase' = "open_gz" => gzip')
    BY <1>5
  <2>4. Inside(path)'
    BY <1>1, <2>1 DEF Inside
  <2>5. TypeOK'
    BY <1>1, <1>2, <1>5, <2>2, <2>3, <2>4 DEF IInv, TypeOK, Settled, Phases
  <2>6. LookupInv' /\ NodeInv'
    BY <1>1, <1>3, <1>5, <2>2, <2>3, <2>4 DEF LookupInv, NodeInv
  <2> QED BY <1>2, <2>5, <2>6 DEF IInv, Settled
<1> QED BY <1>4, <1>5, Zenon DEF Get, Answer

(* The name with the suffix is opened, or not found.                       *)
LEMMA OpenGzFs ==
  ASSUME IInv, OpenGz
  PROVE  IInv'
<1>1. /\ phase = "open_gz"
      /\ UNCHANGED <<fs, fbody, auto_gzip, path, header, gzip, metadata, is_gzipped, headers>>
      /\ UNCHANGED <<inodes>>
  BY DEF OpenGz, request, fs, disk
<1>2. Settled'
  BY <1>1, LookupKeeps DEF Lookup
<1>3. status = "none" /\ ~is_gzipped /\ gzip /\ Inside(path) /\ Inside(path)'
  BY <1>1 DEF IInv, LookupInv, Inside
<1>4. CASE phase' = "done" /\ status' = "error" /\ UNCHANGED <<file, origin>>
  <2>1. TypeOK'
    BY <1>1, <1>2, <1>4 DEF IInv, TypeOK, Settled, Phases, Answers
  <2>2. LookupInv' /\ NodeInv'
    BY <1>1, <1>4 DEF IInv, LookupInv, NodeInv
  <2> QED BY <1>2, <2>1, <2>2 DEF IInv, Settled
<1>5. CASE phase' = "open" /\ UNCHANGED <<file, origin, status>>
  <2>1. TypeOK'
    BY <1>1, <1>2, <1>3, <1>5 DEF IInv, TypeOK, Settled, Phases
  <2>2. LookupInv' /\ NodeInv'
    BY <1>1, <1>3, <1>5 DEF IInv, LookupInv, NodeInv
  <2> QED BY <1>2, <2>1, <2>2 DEF IInv, Settled
<1>6. CASE /\ open_file(TRUE) \in Inodes /\ file' = open_file(TRUE)
           /\ origin' = "a.gz" /\ phase' = "stat_gz" /\ status' = status
  <2>1. file' \in Inodes /\ file' # 0 /\ inodes[file'].kind # "free"
    BY <1>6, OpenFinds DEF IInv
  <2>2. TypeOK'
    BY <1>1, <1>2, <1>6, <2>1 DEF IInv, TypeOK, Settled, Phases
  <2>3. LookupInv' /\ NodeInv'
    BY <1>1, <1>3, <1>6 DEF IInv, LookupInv, NodeInv
  <2> QED BY <1>2, <2>2, <2>3 DEF IInv, Settled
<1> QED BY <1>4, <1>5, <1>6, Zenon DEF OpenGz, Answer

(* What was opened is looked at, and passed over if it is a directory.     *)
LEMMA StatGzFs ==
  ASSUME IInv, StatGz
  PROVE  IInv'
<1>1. /\ phase = "stat_gz"
      /\ UNCHANGED <<fs, fbody, auto_gzip, path, header, gzip, origin, status, headers>>
      /\ UNCHANGED <<inodes>>
  BY DEF StatGz, request, fs, disk
<1>2. file \in Inodes /\ file # 0 /\ inodes[file].kind # "free"
  BY <1>1 DEF IInv, TypeOK
<1>3. Settled'
  BY <1>1, <1>2, LookupKeeps DEF Lookup, StatGz
<1>4. status = "none" /\ ~is_gzipped /\ gzip /\ Inside(path) /\ Inside(path)' /\ origin = "a.gz"
  BY <1>1 DEF IInv, LookupInv, Inside
<1>5. CASE phase' = "node" /\ is_gzipped' = TRUE /\ file' = file
  <2>1. is_gzipped' \in BOOLEAN /\ is_gzipped'
    BY <1>5
  <2>2. TypeOK'
    BY <1>1, <1>2, <1>3, <1>5, <2>1 DEF IInv, TypeOK, Settled, Phases
  <2>3. LookupInv' /\ NodeInv'
    BY <1>1, <1>4, <1>5, <2>1 DEF IInv, LookupInv, NodeInv
  <2> QED BY <1>3, <2>2, <2>3 DEF IInv, Settled
<1>6. CASE phase' = "open" /\ file' = 0 /\ is_gzipped' = is_gzipped
  <2>1. TypeOK'
    BY <1>1, <1>3, <1>4, <1>6 DEF IInv, TypeOK, Settled, Phases
  <2>2. LookupInv' /\ NodeInv'
    BY <1>1, <1>4, <1>6 DEF IInv, LookupInv, NodeInv
  <2> QED BY <1>3, <2>1, <2>2 DEF IInv, Settled
<1> QED BY <1>5, <1>6, Zenon DEF StatGz

(* The name itself is opened, or nothing is found.                         *)
LEMMA OpenFs ==
  ASSUME IInv, Open
  PROVE  IInv'
<1>1. /\ phase = "open"
      /\ UNCHANGED <<fs, fbody, auto_gzip, path, header, gzip, metadata, is_gzipped, headers>>
      /\ UNCHANGED <<inodes>>
  BY DEF Open, request, fs, disk
<1>2. Settled'
  BY <1>1, LookupKeeps DEF Lookup
<1>3. status = "none" /\ ~is_gzipped
  BY <1>1 DEF IInv, LookupInv
<1>4. CASE phase' = "done" /\ status' \in {"error", "not_found"} /\ UNCHANGED <<file, origin>>
  <2>1. TypeOK'
    BY <1>1, <1>2, <1>4 DEF IInv, TypeOK, Settled, Phases, Answers
  <2>2. LookupInv' /\ NodeInv'
    BY <1>1, <1>4 DEF IInv, LookupInv, NodeInv
  <2> QED BY <1>2, <2>1, <2>2 DEF IInv, Settled
<1>5. CASE /\ open_file(FALSE) \in Inodes /\ file' = open_file(FALSE)
           /\ origin' = "a" /\ phase' = "stat" /\ status' = status
  <2>1. file' \in Inodes /\ file' # 0 /\ inodes[file'].kind # "free"
    BY <1>5, OpenFinds DEF IInv
  <2>2. TypeOK'
    BY <1>1, <1>2, <1>5, <2>1 DEF IInv, TypeOK, Settled, Phases
  <2>3. LookupInv' /\ NodeInv'
    BY <1>1, <1>3, <1>5 DEF IInv, LookupInv, NodeInv
  <2> QED BY <1>2, <2>2, <2>3 DEF IInv, Settled
<1> QED BY <1>4, <1>5 DEF Open, Answer

(* What was opened is looked at.                                           *)
LEMMA StatFs ==
  ASSUME IInv, Stat
  PROVE  IInv'
<1>1. /\ phase = "stat" /\ phase' = "node" /\ metadata' = inodes[file]
      /\ UNCHANGED <<fs, file, fbody, auto_gzip, path, header, gzip, is_gzipped, origin, status, headers>>
      /\ UNCHANGED <<inodes>>
  BY DEF Stat, request, fs, disk
<1>2. file \in Inodes /\ file # 0 /\ inodes[file].kind # "free"
  BY <1>1 DEF IInv, TypeOK
<1>3. Settled'
  BY <1>1, <1>2, LookupKeeps DEF Lookup
<1>4. TypeOK'
  BY <1>1, <1>2, <1>3 DEF IInv, TypeOK, Settled, Phases
<1>5. LookupInv' /\ NodeInv'
  BY <1>1 DEF IInv, LookupInv, NodeInv
<1> QED BY <1>3, <1>4, <1>5 DEF IInv, Settled

(* A system call of the lookup fails.                                      *)
LEMMA BlockingFailsFs ==
  ASSUME IInv, BlockingFails
  PROVE  IInv'
<1>1. /\ phase \in {"open_gz", "stat_gz", "open", "stat"} /\ phase' = "done" /\ status' = "error"
      /\ file' = 0
      /\ UNCHANGED <<fs, fbody, auto_gzip, path, header, gzip, metadata, is_gzipped, origin, headers>>
      /\ UNCHANGED <<inodes>>
  BY DEF BlockingFails, Answer, request, node, fs, disk
<1>2. Settled'
  BY <1>1, LookupKeeps DEF Lookup
<1>3. TypeOK'
  BY <1>1, <1>2 DEF IInv, TypeOK, Settled, Phases, Answers
<1>4. LookupInv' /\ NodeInv'
  BY <1>1 DEF IInv, LookupInv, NodeInv
<1> QED BY <1>2, <1>3, <1>4 DEF IInv, Settled
-----------------------------------------------------------------------------
(***************************************************************************)
(* The reply and the body                                                  *)
(***************************************************************************)

(* The node becomes an entity, or an answer without one.                   *)
LEMMA ReplyFs ==
  ASSUME IInv, Reply
  PROVE  IInv'
<1>1. /\ phase = "node"
      /\ UNCHANGED <<fs, auto_gzip, path, header, gzip, metadata, is_gzipped, origin>>
      /\ UNCHANGED <<dir, inodes, clock>>
  BY DEF Reply, request, node, fs, disk
<1>2. file \in Inodes /\ file # 0 /\ inodes[file].kind # "free" /\ metadata \in InodeTypes
  BY <1>1 DEF IInv, TypeOK
<1>3. CASE /\ phase' = "done" /\ status' \in {"listing", "unwrap", "moved", "error"} /\ file' = 0
           /\ UNCHANGED <<fbody, headers>>
  <2>1. Settled'
    BY <1>1, <1>3, LookupKeeps DEF Lookup
  <2>2. TypeOK'
    BY <1>1, <1>3, <2>1 DEF IInv, TypeOK, Settled, Phases, Answers
  <2>3. LookupInv' /\ NodeInv'
    BY <1>1, <1>3 DEF IInv, LookupInv, NodeInv
  <2> QED BY <2>1, <2>2, <2>3 DEF IInv, Settled
<1>4. CASE /\ into_file_entity # {} /\ crf' = into_file_entity /\ headers' = add_encoding_headers
           /\ phase' = "serve" /\ UNCHANGED <<file, range, left, cur, seen, failed, received, status>>
  <2> DEFINE c == [inode |-> file, len |-> metadata.len, mtime |-> metadata.mtime]
  <2>1. crf' = {c}
    BY <1>4 DEF into_file_entity, new_with_metadata, file_info
  <2>2. /\ c \in [inode : Inodes, len : 0 .. MaxLen, mtime : -1 .. MaxTime]
        /\ c.mtime = metadata.mtime /\ c.inode = file
    BY <1>2 DEF InodeTypes
  <2> HIDE DEF c
  <2>3. received = <<>> /\ seen = "nothing" /\ Position' = Position /\ status = "none"
    BY <1>1, <1>4 DEF IInv, BodyInv, LookupInv, Position
  <2>4. TypeOK'
    BY <1>1, <1>2, <1>4, <2>1, <2>2 DEF IInv, TypeOK, Phases
  <2>5. DirInv'
    BY <1>1 DEF IInv, DirInv
  <2>6. BodyInv' /\ BodyIsRange'
    BY <1>4, <2>3 DEF IInv, BodyInv, BodyIsRange
  <2>7. VouchInv'
    BY <1>1, <1>4, <2>1, <2>2, <2>3 DEF IInv, VouchInv
  <2>8. LookupInv'
    BY <1>1, <1>4 DEF IInv, LookupInv
  <2>9. NodeInv'
    <3>1. add_encoding_headers' = add_encoding_headers
      BY <1>1, Zenon DEF add_encoding_headers
    <3>2. (is_gzipped <=> origin = "a.gz") /\ (is_gzipped => gzip)
      BY <1>1 DEF IInv, NodeInv
    <3> QED BY <1>1, <1>4, <3>1, <3>2 DEF NodeInv
  <2> QED BY <2>4, <2>5, <2>6, <2>7, <2>8, <2>9 DEF IInv
<1> QED BY <1>3, <1>4 DEF Reply, Answer

(* The range is chosen, or the tag cannot be made.                         *)
LEMMA ServeFileFs ==
  ASSUME IInv, ServeFile
  PROVE  IInv'
<1> USE FileAssumption
<1>1. /\ phase = "serve" /\ UNCHANGED <<auto_gzip, path, header, gzip, metadata, is_gzipped, origin, headers>>
      /\ UNCHANGED <<dir, inodes, clock>>
  BY DEF ServeFile, request, node, fs, disk
<1>2. /\ received = <<>> /\ seen = "nothing" /\ file \in Inodes /\ file # 0 /\ inodes[file].kind # "free"
      /\ crf \subseteq [inode : Inodes, len : 0 .. MaxLen, mtime : -1 .. MaxTime]
  BY <1>1 DEF IInv, BodyInv, TypeOK
<1>3. DirInv'
  BY <1>1 DEF IInv, DirInv
<1>4. /\ (is_gzipped <=> origin = "a.gz") /\ (is_gzipped => gzip)
      /\ headers = add_encoding_headers /\ add_encoding_headers' = add_encoding_headers
  <2>1. add_encoding_headers' = add_encoding_headers
    BY <1>1, Zenon DEF add_encoding_headers
  <2> QED BY <1>1, <2>1 DEF IInv, NodeInv
<1>5. CASE phase' = "done" /\ status' = "panic" /\ file' = 0 /\ UNCHANGED fbody
  <2>0. UNCHANGED <<crf, range, left, cur, seen, received>>
    BY <1>5 DEF fbody
  <2>1. TypeOK'
    BY <1>1, <1>5, <2>0 DEF IInv, TypeOK, Phases, Answers
  <2>2. LookupInv' /\ NodeInv'
    BY <1>1, <1>5 DEF IInv, LookupInv, NodeInv
  <2>3. Position' = Position
    BY <2>0 DEF Position
  <2>4. BodyInv' /\ BodyIsRange'
    BY <1>2, <2>0, <2>3 DEF IInv, BodyInv, BodyIsRange
  <2>5. VouchInv'
    BY <1>1, <1>5, <2>0 DEF IInv, VouchInv
  <2> QED BY <1>3, <2>1, <2>2, <2>4, <2>5 DEF IInv
<1>6. ASSUME NEW c \in crf, NEW a \in 0 .. c.len, NEW b \in 0 .. c.len, a < b \/ (a = b /\ b = c.len),
             get_range([start |-> a, end |-> b]),
             phase' = "body", status' = "entity", file' = file
      PROVE  IInv'
  <2>1. c.len \in Nat /\ a \in Nat /\ b \in Nat /\ a <= b
    BY <1>2, <1>6
  <2>2. /\ range' = [start |-> a, end |-> b] /\ left' = range' /\ cur' = ExactLen(b - a)
        /\ UNCHANGED <<crf, seen, received>>
    BY <1>6 DEF get_range
  <2>3. cur'.remaining = b - a /\ DOMAIN cur' = {"some", "remaining", "ended"}
    BY <2>2, Zenon DEF ExactLen
  <2>4. Position' = a
    BY <1>2, <2>2 DEF Position
  <2>5. BodyInv' /\ BodyIsRange'
    BY <1>2, <1>6, <2>1, <2>2, <2>3, <2>4 DEF BodyInv, BodyIsRange
  <2>6. TypeOK'
    BY <1>1, <1>2, <1>6, <2>2 DEF IInv, TypeOK, Phases, Answers
  <2>7. LookupInv' /\ NodeInv'
    BY <1>1, <1>4, <1>6 DEF IInv, LookupInv, NodeInv
  <2>8. VouchInv'
    BY <1>1, <1>6, <2>2 DEF IInv, VouchInv
  <2> QED BY <1>3, <2>5, <2>6, <2>7, <2>8 DEF IInv
<1> QED BY <1>5, <1>6 DEF ServeFile, Answer

(* The response is dropped.                                                *)
LEMMA CloseFs ==
  ASSUME IInv, Close
  PROVE  IInv'
<1>1. /\ phase = "body" /\ phase' = "done" /\ file' = 0
      /\ UNCHANGED <<auto_gzip, path, header, gzip, metadata, is_gzipped, origin, status, headers>>
      /\ UNCHANGED <<dir, inodes, clock, crf, range, left, cur, seen, received>>
  BY DEF Close, request, node, fs, disk, fbody
<1>2. TypeOK' /\ DirInv'
  BY <1>1 DEF IInv, TypeOK, DirInv, Phases
<1>3. Position' = Position
  BY <1>1 DEF Position
<1>4. BodyInv' /\ BodyIsRange'
  BY <1>1, <1>3 DEF IInv, BodyInv, BodyIsRange
<1>5. VouchInv'
  BY <1>1 DEF IInv, VouchInv
<1>6. LookupInv'
  BY <1>1 DEF IInv, LookupInv
<1>7. NodeInv'
  <2>1. add_encoding_headers' = add_encoding_headers
    BY <1>1, Zenon DEF add_encoding_headers
  <2> QED BY <1>1, <2>1 DEF IInv, NodeInv
<1> QED BY <1>2, <1>4, <1>5, <1>6, <1>7 DEF IInv

(* What a poll of the inner stream answers: its end, an error, or no more  *)
(* bytes than are left.                                                    *)
Items ==
  {item \in [kind : {"none", "error", "data"}, n : Nat] :
     /\ item.kind = "none" => left.start = left.end
     /\ item.kind # "data" => item.n = 0
     /\ item.kind = "data" => 1 <= item.n /\ item.n <= left.end - left.start}

(* The three answers.                                                      *)
LEMMA ItemsFit ==
  ASSUME IInv, phase = "body"
  PROVE  /\ left.start = left.end => [kind |-> "none", n |-> 0] \in Items
         /\ read_at(-1) \in Items
         /\ left.start # left.end =>
              \A retval \in pread(Lesser(ChunkSize, left.end - left.start), left.start) :
                read_at(retval) \in Items
<1> USE FileAssumption
<1>1. left.start \in Nat /\ left.end \in Nat /\ left.start <= left.end
  BY DEF IInv, BodyInv
<1>2. left.start = left.end => [kind |-> "none", n |-> 0] \in Items
  BY DEF Items
<1>3. read_at(-1) \in Items
  <2>1. read_at(-1) = [kind |-> "error", n |-> 0]
    BY DEF read_at
  <2> QED BY <2>1 DEF Items
<1>4. ASSUME left.start # left.end,
             NEW retval \in pread(Lesser(ChunkSize, left.end - left.start), left.start)
      PROVE  read_at(retval) \in Items
  <2> DEFINE most == Lesser(ChunkSize, left.end - left.start)
             size == inodes[file].len
  <2>0. size \in Nat
    BY DEF IInv, TypeOK, InodeTypes
  <2>1. most \in Nat /\ most <= left.end - left.start
    BY <1>1 DEF Lesser
  <2>2. CASE retval <= 0
    <3>1. read_at(retval) = [kind |-> "error", n |-> 0]
      BY <2>2 DEF read_at
    <3> QED BY <3>1 DEF Items
  <2>3. CASE ~(retval <= 0)
    <3>1. retval \in 1 .. Lesser(most, size - left.start)
      BY <1>4, <2>3 DEF pread
    <3>2. retval \in Nat /\ 1 <= retval /\ retval <= most
      <4> HIDE DEF most, size
      <4>1. CASE most < size - left.start
        BY <2>1, <3>1, <4>1 DEF Lesser
      <4>2. CASE ~(most < size - left.start)
        <5>1. retval \in 1 .. size - left.start
          BY <3>1, <4>2 DEF Lesser
        <5> QED BY <1>1, <2>0, <2>1, <4>2, <5>1
      <4> QED BY <4>1, <4>2
    <3>3. read_at(retval) = [kind |-> "data", n |-> retval]
      BY <2>3 DEF read_at
    <3> HIDE DEF most
    <3>4. retval <= left.end - left.start
      BY <1>1, <2>1, <3>2
    <3> QED BY <3>2, <3>3, <3>4 DEF Items
  <2> QED BY <2>2, <2>3
<1> QED BY <1>2, <1>3, <1>4

(* A poll of the body sends the next bytes, fails or ends.                 *)
LEMMA PollItemFs ==
  ASSUME IInv, phase = "body", NEW item \in Items, PollItem(item),
         UNCHANGED <<fs, file, phase, request, node, status, headers>>
  PROVE  IInv'
<1>0. /\ UNCHANGED <<auto_gzip, path, header, gzip, metadata, is_gzipped, origin>>
      /\ UNCHANGED <<dir, inodes, clock>>
  BY DEF request, node, fs, disk
<1>1. /\ left.start \in Nat /\ left.end \in Nat /\ left.start <= left.end /\ left.end = range.end
      /\ left \in [start : Nat, end : Nat] /\ cur.remaining = left.end - left.start
      /\ DOMAIN cur = {"some", "remaining", "ended"}
      /\ received \in Seq([from : Nat, to : Nat, content : Int]) /\ Position = left.start
  BY DEF IInv, BodyInv
<1> DEFINE r == exact_len_poll(cur, item)
<1>2. /\ left' = [left EXCEPT !.start = @ + item.n] /\ cur' = r.cur /\ seen' = r.out
      /\ crf' = crf /\ range' = range
      /\ received' =
          IF r.out # "data" \/ item.n = 0 THEN received
          ELSE Append(received, [from |-> left.start, to |-> left.start + item.n,
                                 content |-> inodes[file].mtime])
  BY DEF PollItem, Advance
<1>3. item.n \in Nat /\ item.kind \in {"none", "error", "data"}
  BY DEF Items
<1>4. left'.start = left.start + item.n /\ left'.end = left.end /\ left' \in [start : Nat, end : Nat]
  BY <1>1, <1>2, <1>3
<1>5. TypeOK' /\ DirInv' /\ LookupInv'
  BY <1>0, <1>2 DEF IInv, TypeOK, DirInv, LookupInv
<1>6. NodeInv'
  <2>1. add_encoding_headers' = add_encoding_headers
    BY <1>0, Zenon DEF add_encoding_headers
  <2> QED BY <1>0, <2>1 DEF IInv, NodeInv
<1>7. CASE item.kind = "none"
  <2>1. item.n = 0 /\ left.start = left.end /\ cur.remaining = 0
    BY <1>1, <1>7 DEF Items
  <2>2. r = [cur |-> [some |-> TRUE, remaining |-> 0, ended |-> TRUE], out |-> "end"]
    BY <1>7, <2>1, Zenon DEF exact_len_poll
  <2>3. r.cur = [some |-> TRUE, remaining |-> 0, ended |-> TRUE] /\ r.out = "end"
    <3> HIDE DEF r
    <3> QED BY <2>2, Zenon
  <2> HIDE DEF r
  <2>4. cur'.remaining = 0 /\ DOMAIN cur' = {"some", "remaining", "ended"}
    <3>1. cur' = [some |-> TRUE, remaining |-> 0, ended |-> TRUE]
      BY <1>2, <2>3, Zenon
    <3> QED BY <3>1
  <2>5. received' = received /\ seen' = "end"
    BY <1>2, <2>3
  <2>6. Position' = Position
    BY <1>2, <2>5 DEF Position
  <2>7. left'.start = left.start
    BY <1>1, <1>4, <2>1
  <2>8. BodyInv'
    BY <1>1, <1>2, <1>4, <2>1, <2>4, <2>5, <2>6, <2>7 DEF IInv, BodyInv
  <2>9. BodyIsRange'
    BY <1>1, <1>2, <2>1, <2>5, <2>6 DEF IInv, BodyIsRange
  <2>10. VouchInv'
    BY <1>0, <1>2, <2>5 DEF IInv, VouchInv
  <2> QED BY <1>5, <1>6, <2>8, <2>9, <2>10 DEF IInv
<1>8. CASE item.kind = "error"
  <2>1. item.n = 0
    BY <1>8 DEF Items
  <2>2. r = [cur |-> cur, out |-> "error"]
    BY <1>8, Zenon DEF exact_len_poll
  <2>3. r.cur = cur /\ r.out = "error"
    <3> HIDE DEF r
    <3> QED BY <2>2, Zenon
  <2> HIDE DEF r
  <2>4. received' = received /\ seen' = "error" /\ cur' = cur
    BY <1>2, <2>3
  <2>5. Position' = Position
    BY <1>2, <2>4 DEF Position
  <2>6. left'.start = left.start
    BY <1>1, <1>4, <2>1
  <2>7. BodyInv'
    BY <1>1, <1>2, <1>4, <2>4, <2>5, <2>6 DEF IInv, BodyInv
  <2>8. BodyIsRange'
    BY <1>1, <1>2, <2>4, <2>5 DEF IInv, BodyIsRange
  <2>9. VouchInv'
    BY <1>0, <1>2, <2>4 DEF IInv, VouchInv
  <2> QED BY <1>5, <1>6, <2>7, <2>8, <2>9 DEF IInv
<1>9. CASE item.kind = "data"
  <2>1. 1 <= item.n /\ item.n <= left.end - left.start /\ item.n <= cur.remaining
    BY <1>1, <1>9 DEF Items
  <2>2. r = [cur |-> [cur EXCEPT !.remaining = @ - item.n], out |-> "data"]
    <3>1. ~(item.n > cur.remaining)
      BY <1>1, <1>3, <2>1
    <3> QED BY <1>9, <2>1, <3>1, Zenon DEF exact_len_poll
  <2>3. r.cur = [cur EXCEPT !.remaining = @ - item.n] /\ r.out = "data"
    <3> HIDE DEF r
    <3> QED BY <2>2, Zenon
  <2> HIDE DEF r
  <2> DEFINE x == [from |-> left.start, to |-> left.start + item.n, content |-> inodes[file].mtime]
             m == Len(received)
  <2>4. cur'.remaining = cur.remaining - item.n /\ DOMAIN cur' = {"some", "remaining", "ended"}
    BY <1>1, <1>2, <2>3
  <2>5. received' = Append(received, x) /\ seen' = "data"
    BY <1>2, <1>3, <2>1, <2>3
  <2>6. /\ x \in [from : Nat, to : Nat, content : Int]
        /\ x.from = left.start /\ x.to = left.start + item.n /\ x.content = inodes[file].mtime
    <3>1. file \in Inodes /\ inodes[file].mtime \in Int
      BY DEF IInv, TypeOK, InodeTypes
    <3> QED BY <1>1, <1>3, <3>1
  <2> HIDE DEF x
  <2>7. /\ m \in Nat /\ Len(received') = m + 1 /\ received'[m + 1] = x /\ received' # <<>>
        /\ \A i \in 1 .. m : received'[i] = received[i]
        /\ received' \in Seq([from : Nat, to : Nat, content : Int])
        /\ received = <<>> <=> m = 0
    <3> DEFINE S == [from : Nat, to : Nat, content : Int]
    <3>0. received \in Seq(S) /\ x \in S /\ received' = Append(received, x)
      BY <1>1, <2>5, <2>6
    <3> HIDE DEF S
    <3>1. m \in Nat /\ (received = <<>> <=> m = 0)
      BY <3>0
    <3>2. /\ Len(received') = m + 1 /\ received'[m + 1] = x /\ received' \in Seq(S)
          /\ \A i \in 1 .. m : received'[i] = received[i]
      BY <3>0
    <3>3. received' # <<>>
      BY <3>0
    <3> QED BY <3>1, <3>2, <3>3 DEF S
  <2> HIDE DEF m
  <2>8. Position' = left'.start
    BY <1>4, <2>6, <2>7 DEF Position
  <2>9. left'.start <= left'.end /\ cur'.remaining = left'.end - left'.start
    <3>1. /\ left.start \in Nat /\ left.end \in Nat /\ item.n \in Nat
          /\ item.n <= left.end - left.start /\ cur.remaining = left.end - left.start
      BY <1>1, <1>3, <2>1
    <3>2. left'.start = left.start + item.n /\ left'.end = left.end
      BY <1>4
    <3>3. cur'.remaining = left.end - left.start - item.n
      BY <2>4, <3>1
    <3>4. left.start + item.n <= left.end /\ left.end - left.start - item.n = left.end - (left.start + item.n)
      BY <3>1
    <3> QED BY <3>2, <3>3, <3>4
  <2>10. BodyInv'
    BY <1>1, <1>2, <1>4, <2>4, <2>5, <2>7, <2>8, <2>9 DEF IInv, BodyInv
  <2>11. BodyIsRange'
    <3>1. received'[1].from = range.start
      <4>1. CASE m = 0
        BY <1>1, <2>6, <2>7, <4>1 DEF Position
      <4>2. CASE m # 0
        <5>1. 1 \in 1 .. m /\ received # <<>>
          BY <2>7, <4>2
        <5>2. received[1].from = range.start
          BY <5>1 DEF IInv, BodyIsRange
        <5> QED BY <2>7, <5>1, <5>2
      <4> QED BY <4>1, <4>2
    <3>2. ASSUME NEW i \in 1 .. Len(received') - 1 PROVE received'[i].to = received'[i + 1].from
      <4>1. i \in 1 .. m
        BY <2>7
      <4>2. CASE i = m
        <5>1. received[m].to = left.start
          BY <1>1, <2>7, <4>1, <4>2 DEF Position, m
        <5> QED BY <2>6, <2>7, <4>1, <4>2, <5>1
      <4>3. CASE i # m
        <5>1. i \in 1 .. m - 1 /\ i + 1 \in 1 .. m
          BY <2>7, <4>1, <4>3
        <5>2. received[i].to = received[i + 1].from
          BY <5>1 DEF IInv, BodyIsRange, m
        <5> QED BY <2>7, <4>1, <5>1, <5>2
      <4> QED BY <4>2, <4>3
    <3>3. Position' <= range.end
      BY <1>1, <1>4, <2>8, <2>9
    <3> QED BY <1>2, <2>5, <3>1, <3>2, <3>3 DEF BodyIsRange
  <2>12. VouchInv'
    <3> SUFFICES ASSUME NEW c \in crf, inodes[c.inode].kind = "file", inodes[c.inode].mtime = c.mtime,
                        NEW i \in 1 .. Len(received')
                 PROVE  received'[i].content = c.mtime
      BY <1>0, <1>2 DEF IInv, VouchInv
    <3>1. CASE i = m + 1
      <4>1. c.inode = file
        BY DEF IInv, VouchInv
      <4> QED BY <2>6, <2>7, <3>1, <4>1
    <3>2. CASE i # m + 1
      <4>1. i \in 1 .. m
        BY <2>7, <3>2
      <4>2. received[i].content = c.mtime
        BY <4>1 DEF IInv, VouchInv, m
      <4> QED BY <2>7, <4>1, <4>2
    <3> QED BY <3>1, <3>2
  <2> QED BY <1>5, <1>6, <2>10, <2>11, <2>12 DEF IInv
<1> QED BY <1>3, <1>7, <1>8, <1>9

(* The body is polled.                                                     *)
LEMMA PollFs ==
  ASSUME IInv, Poll \/ PollFails
  PROVE  IInv'
<1>1. phase = "body" /\ UNCHANGED <<fs, file, phase, request, node, status, headers>>
  BY DEF Poll, PollFails
<1>2. \E item \in Items : PollItem(item)
  BY ItemsFit DEF Poll, PollFails, PollFile, PollFileFails
<1> QED BY <1>1, <1>2, PollItemFs
-----------------------------------------------------------------------------
(***************************************************************************)
(* Changes to the directory                                                *)
(***************************************************************************)

(* The entries of the directory are two different names.                   *)
LEMMA TwoNames ==
  ASSUME DirInv, NEW n \in Names, NEW m \in Names, m # n, dir[m] # 0
  PROVE  dir[m] # dir[n]
BY DEF DirInv, Names

(* A change that keeps the open file, and gives what it changes a new time *)
(* or makes it no file, leaves the request as it is.                       *)
LEMMA ChangeFs ==
  ASSUME IInv, UNCHANGED <<file, fbody, phase, request, node, status, headers>>,
         inodes' \in [Inodes -> InodeTypes], clock' \in 0 .. MaxTime, clock <= clock',
         dir' \in [Names -> Inodes \cup {0}], DirInv',
         file # 0 /\ inodes[file].kind # "free" => inodes'[file].kind # "free",
         \A i \in Inodes : inodes'[i].mtime <= clock',
         \A i \in Inodes :
           inodes'[i] = inodes[i] \/ inodes'[i].kind # "file" \/ inodes'[i].mtime > clock
  PROVE  IInv'
<1> USE FileAssumption
<1>1. /\ UNCHANGED <<auto_gzip, path, header, gzip, metadata, is_gzipped, origin>>
      /\ UNCHANGED <<crf, range, left, cur, seen, received>>
  BY DEF request, node, fbody
<1>2. TypeOK'
  BY <1>1 DEF IInv, TypeOK, Inside
<1>3. LookupInv'
  BY <1>1 DEF IInv, LookupInv, Inside
<1>4. NodeInv'
  <2>1. add_encoding_headers' = add_encoding_headers
    BY <1>1, Zenon DEF add_encoding_headers
  <2> QED BY <1>1, <2>1 DEF IInv, NodeInv
<1>5. Position' = Position
  BY <1>1 DEF Position
<1>6. BodyInv' /\ BodyIsRange'
  BY <1>1, <1>5 DEF IInv, BodyInv, BodyIsRange
<1>7. clock \in Int /\ clock' \in Int
  BY DEF IInv, TypeOK
<1>8. metadata.mtime <= clock'
  <2>1. metadata.mtime \in Int /\ metadata.mtime <= clock
    BY DEF IInv, TypeOK, InodeTypes, VouchInv
  <2> QED BY <1>7, <2>1
<1>9. ASSUME NEW c \in crf
      PROVE  /\ c.mtime <= clock'
             /\ inodes'[c.inode].kind = "file" /\ inodes'[c.inode].mtime = c.mtime =>
                  \A i \in 1 .. Len(received) : received[i].content = c.mtime
  <2>1. c.mtime \in Int /\ c.inode \in Inodes /\ c.mtime <= clock
    BY DEF IInv, TypeOK, VouchInv
  <2>2. c.mtime <= clock' /\ ~(c.mtime > clock)
    BY <1>7, <2>1
  <2>3. ASSUME inodes'[c.inode].kind = "file", inodes'[c.inode].mtime = c.mtime
        PROVE  inodes'[c.inode] = inodes[c.inode]
    BY <2>1, <2>2, <2>3
  <2> QED BY <2>2, <2>3 DEF IInv, VouchInv
<1>10. VouchInv'
  BY <1>1, <1>8, <1>9 DEF IInv, VouchInv
<1> QED BY <1>2, <1>3, <1>4, <1>6, <1>10 DEF IInv

(* What is left of the inodes when a name goes away: its own is freed,     *)
(* unless it is open.                                                      *)
LEMMA RemovedInodes ==
  ASSUME IInv, NEW n \in Names
  PROVE  /\ Removed(n) \in [Inodes -> InodeTypes]
         /\ \A i \in Inodes :
              \/ Removed(n)[i] = inodes[i]
              \/ i = dir[n] /\ i # file /\ i # 0 /\ Removed(n)[i] = Free
         /\ Free \in InodeTypes /\ Free.mtime = 0 /\ Free.kind = "free"
<1> USE FileAssumption
<1>1. inodes \in [Inodes -> InodeTypes] /\ dir[n] \in Inodes \cup {0}
  BY DEF IInv, TypeOK
<1>2. Free \in InodeTypes /\ Free.mtime = 0 /\ Free.kind = "free"
  BY DEF Free, InodeTypes
<1>3. CASE dir[n] \in {0, file}
  BY <1>1, <1>2, <1>3 DEF Removed
<1>4. CASE dir[n] \notin {0, file}
  <2>1. Removed(n) = [inodes EXCEPT ![dir[n]] = Free]
    BY <1>4 DEF Removed
  <2> QED BY <1>1, <1>2, <1>4, <2>1
<1> QED BY <1>3, <1>4

(* A name is removed.                                                      *)
LEMMA UnlinkFs ==
  ASSUME IInv, NEW n \in Names, Unlink(n)
  PROVE  IInv'
<1> USE FileAssumption
<1>1. /\ dir[n] # 0 /\ dir' = [dir EXCEPT ![n] = 0] /\ inodes' = Removed(n) /\ clock' = clock
      /\ UNCHANGED <<file, fbody, phase, request, node, status, headers>>
  BY DEF Unlink
<1>2. /\ dir \in [Names -> Inodes \cup {0}] /\ DirInv /\ clock \in 0 .. MaxTime /\ file \in Inodes \cup {0}
      /\ \A i \in Inodes : inodes[i].mtime <= clock
  BY DEF IInv, TypeOK, VouchInv
<1>3. /\ inodes' \in [Inodes -> InodeTypes]
      /\ \A i \in Inodes :
           inodes'[i] = inodes[i] \/ (i = dir[n] /\ i # file /\ i # 0 /\ inodes'[i] = Free)
      /\ Free.mtime = 0 /\ Free.kind = "free"
  BY <1>1, RemovedInodes
<1>4. DirInv'
  <2>1. \A m \in Names : dir'[m] = IF m = n THEN 0 ELSE dir[m]
    BY <1>1, <1>2
  <2>2. ASSUME NEW m \in Names, dir'[m] # 0 PROVE inodes'[dir'[m]].kind # "free"
    <3>1. m # n /\ dir'[m] = dir[m] /\ dir[m] # dir[n] /\ dir[m] \in Inodes
      BY <1>2, <2>1, <2>2, TwoNames
    <3> QED BY <1>2, <1>3, <2>2, <3>1 DEF DirInv
  <2>3. dir'["a"] # 0 => dir'["a"] # dir'["a.gz"]
    BY <1>2, <2>1 DEF DirInv, Names
  <2>4. inodes'[Root].kind = "dir" /\ \A m \in Names : dir'[m] # Root
    BY <1>2, <1>3, <2>1, DirAssumption DEF DirInv, Root
  <2> QED BY <2>2, <2>3, <2>4 DEF DirInv
<1>5. dir' \in [Names -> Inodes \cup {0}]
  BY <1>1, <1>2
<1>6. file # 0 /\ inodes[file].kind # "free" => inodes'[file].kind # "free"
  BY <1>2, <1>3
<1>7. \A i \in Inodes : inodes'[i].mtime <= clock'
  BY <1>1, <1>2, <1>3
<1>8. \A i \in Inodes :
        inodes'[i] = inodes[i] \/ inodes'[i].kind # "file" \/ inodes'[i].mtime > clock
  BY <1>3
<1>9. clock' \in 0 .. MaxTime /\ clock <= clock'
  BY <1>1, <1>2
<1> QED BY <1>1, <1>3, <1>4, <1>5, <1>6, <1>7, <1>8, <1>9, ChangeFs

(* A new file or directory is moved to a name.                             *)
LEMMA ReplaceFs ==
  ASSUME IInv, NEW n \in Names, Replace(n)
  PROVE  IInv'
<1> USE FileAssumption
<1>1. /\ clock < MaxTime /\ clock' = clock + 1
      /\ UNCHANGED <<file, fbody, phase, request, node, status, headers>>
  BY DEF Replace
<1>2. /\ dir \in [Names -> Inodes \cup {0}] /\ DirInv /\ clock \in 0 .. MaxTime /\ file \in Inodes \cup {0}
      /\ inodes \in [Inodes -> InodeTypes]
      /\ \A i \in Inodes : inodes[i].mtime <= clock
  BY DEF IInv, TypeOK, VouchInv
<1>3. PICK i \in Inodes \ {dir["a"], dir["a.gz"], file, Root},
           new \in {File(clock'), [File(clock') EXCEPT !.len = 0], Other("dir")} :
        /\ dir' = [dir EXCEPT ![n] = i]
        /\ inodes' = [Removed(n) EXCEPT ![i] = new]
  BY DEF Replace
<1>4. clock' \in 0 .. MaxTime /\ clock <= clock' /\ clock < clock'
  BY <1>1, <1>2
<1>5. /\ new \in InodeTypes /\ new.kind # "free" /\ new.mtime <= clock'
      /\ new.kind # "file" \/ new.mtime > clock
  <2>1. new \in {[kind |-> "file", len |-> MaxLen, mtime |-> clock'],
                 [kind |-> "file", len |-> 0, mtime |-> clock'],
                 [kind |-> "dir", len |-> 0, mtime |-> 0]}
    BY <1>3 DEF File, Other
  <2> QED BY <1>2, <1>4, <2>1 DEF InodeTypes
<1>6. /\ inodes' \in [Inodes -> InodeTypes] /\ inodes'[i] = new
      /\ \A j \in Inodes \ {i} :
           inodes'[j] = inodes[j] \/ (j = dir[n] /\ j # file /\ j # 0 /\ inodes'[j] = Free)
      /\ Free.mtime = 0 /\ Free.kind = "free"
  BY <1>3, <1>5, RemovedInodes
<1>7. \A m \in Names : dir'[m] = IF m = n THEN i ELSE dir[m]
  BY <1>2, <1>3
<1>8. DirInv'
  <2>1. ASSUME NEW m \in Names, dir'[m] # 0 PROVE inodes'[dir'[m]].kind # "free"
    <3>1. CASE m = n
      BY <1>5, <1>6, <1>7, <3>1
    <3>2. CASE m # n
      <4>1. dir'[m] = dir[m] /\ dir[m] # dir[n] /\ dir[m] \in Inodes /\ dir[m] # i
        BY <1>2, <1>3, <1>7, <2>1, <3>2, TwoNames DEF Names
      <4> QED BY <1>2, <1>6, <2>1, <4>1 DEF DirInv
    <3> QED BY <3>1, <3>2
  <2>2. dir'["a"] # 0 => dir'["a"] # dir'["a.gz"]
    BY <1>2, <1>3, <1>7 DEF DirInv, Names
  <2>3. inodes'[Root].kind = "dir" /\ \A m \in Names : dir'[m] # Root
    BY <1>2, <1>3, <1>6, <1>7, DirAssumption DEF DirInv, Root
  <2> QED BY <2>1, <2>2, <2>3 DEF DirInv
<1>9. dir' \in [Names -> Inodes \cup {0}]
  BY <1>2, <1>3
<1>10. file # 0 /\ inodes[file].kind # "free" => inodes'[file].kind # "free"
  BY <1>2, <1>3, <1>6
<1>11. ASSUME NEW j \in Inodes
       PROVE  /\ inodes'[j].mtime <= clock'
              /\ inodes'[j] = inodes[j] \/ inodes'[j].kind # "file" \/ inodes'[j].mtime > clock
  <2>1. inodes[j].mtime \in Int /\ inodes[j].mtime <= clock
    BY <1>2 DEF InodeTypes
  <2>2. inodes[j].mtime <= clock'
    BY <1>1, <1>2, <2>1
  <2>3. CASE j = i
    BY <1>5, <1>6, <2>3
  <2>4. CASE j # i
    BY <1>4, <1>6, <2>2, <2>4
  <2> QED BY <2>3, <2>4
<1> QED BY <1>1, <1>4, <1>6, <1>8, <1>9, <1>10, <1>11, ChangeFs

(* A file is written in place.                                             *)
LEMMA RewriteFs ==
  ASSUME IInv, RewriteAny
  PROVE  IInv'
<1> USE FileAssumption
<1>1. /\ UNCHANGED <<file, fbody, phase, request, node, status, headers>> /\ dir' = dir
  BY DEF RewriteAny
<1>2. /\ dir \in [Names -> Inodes \cup {0}] /\ DirInv /\ clock \in 0 .. MaxTime /\ file \in Inodes \cup {0}
      /\ inodes \in [Inodes -> InodeTypes]
      /\ \A i \in Inodes : inodes[i].mtime <= clock
  BY DEF IInv, TypeOK, VouchInv
<1>3. PICK i \in {dir["a"], dir["a.gz"], file} \ {0} : Rewrite(i)
  BY DEF RewriteAny
<1>4. i \in Inodes /\ clock < MaxTime /\ clock' = clock + 1
  BY <1>2, <1>3 DEF Names, Rewrite
<1>5. clock' \in 0 .. MaxTime /\ clock <= clock' /\ clock < clock'
  BY <1>2, <1>4
<1>6. PICK n \in 0 .. MaxLen :
        inodes' = [inodes EXCEPT ![i] = [kind |-> "file", len |-> n, mtime |-> clock']]
  BY <1>3 DEF Rewrite
<1> DEFINE new == [kind |-> "file", len |-> n, mtime |-> clock']
<1>7. new \in InodeTypes /\ new.kind = "file" /\ new.mtime = clock'
  BY <1>5 DEF InodeTypes
<1>8. inodes' = [inodes EXCEPT ![i] = new]
  BY <1>6
<1> HIDE DEF new
<1>9. /\ inodes' \in [Inodes -> InodeTypes] /\ inodes'[i] = new
      /\ \A j \in Inodes \ {i} : inodes'[j] = inodes[j]
  BY <1>2, <1>4, <1>7, <1>8
<1>10. DirInv'
  <2>1. \A m \in Names : dir[m] # 0 => inodes'[dir[m]].kind # "free"
    BY <1>2, <1>7, <1>9 DEF DirInv
  <2>2. inodes[i].kind = "file"
    BY <1>3 DEF Rewrite
  <2>3. inodes'[Root].kind = "dir"
    BY <1>2, <1>9, <2>2, DirAssumption DEF DirInv, Root
  <2> QED BY <1>1, <1>2, <2>1, <2>3 DEF DirInv
<1>11. file # 0 /\ inodes[file].kind # "free" => inodes'[file].kind # "free"
  BY <1>2, <1>7, <1>9
<1>12. ASSUME NEW j \in Inodes
       PROVE  /\ inodes'[j].mtime <= clock'
              /\ inodes'[j] = inodes[j] \/ inodes'[j].kind # "file" \/ inodes'[j].mtime > clock
  <2>1. inodes[j].mtime \in Int /\ inodes[j].mtime <= clock
    BY <1>2 DEF InodeTypes
  <2>2. inodes[j].mtime <= clock' /\ clock' <= clock' /\ clock' > clock
    BY <1>2, <1>4, <2>1
  <2> QED BY <1>7, <1>9, <2>2
<1> QED BY <1>1, <1>2, <1>5, <1>9, <1>10, <1>11, <1>12, ChangeFs
-----------------------------------------------------------------------------
(***************************************************************************)
(* The invariant and what it gives                                         *)
(***************************************************************************)

(* Nothing happens.                                                        *)
LEMMA StutterFs ==
  ASSUME IInv, UNCHANGED vars
  PROVE  IInv'
<1>1. /\ UNCHANGED <<dir, inodes, clock>>
      /\ UNCHANGED <<file, fbody, phase, request, node, status, headers>>
  BY DEF vars, fs, disk
<1>2. DirInv' /\ clock <= clock'
  BY <1>1 DEF IInv, DirInv, TypeOK
<1> QED BY <1>1, <1>2, ChangeFs DEF IInv, TypeOK, VouchInv

(* Every step keeps the invariant.                                         *)
LEMMA NextFs == IInv /\ [Next]_vars => IInv'
<1> SUFFICES ASSUME IInv, [Next]_vars PROVE IInv'
  OBVIOUS
<1>1. CASE Server
  BY <1>1, GetFs, OpenGzFs, StatGzFs, OpenFs, StatFs, ReplyFs, ServeFileFs, PollFs DEF Server
<1>2. CASE Request \/ BlockingFails \/ PollFails \/ Close
  BY <1>2, RequestFs, BlockingFailsFs, PollFs, CloseFs
<1>3. CASE (\E n \in Names : Replace(n) \/ Unlink(n)) \/ RewriteAny
  BY <1>3, ReplaceFs, UnlinkFs, RewriteFs
<1> QED BY <1>1, <1>2, <1>3, StutterFs DEF Next

(* The inductive invariant of the lookup, the body and the directory.      *)
THEOREM DirInvariant == Spec => []IInv
BY InitFs, NextFs, PTL DEF Spec

(* Every part keeps its type, no system call is made for a path that leads *)
(* out of the directory, and none on a file that is not open.              *)
THEOREM DirTypeCorrect == Spec => []TypeOK
<1>1. IInv => TypeOK
  BY DEF IInv
<1> QED BY <1>1, DirInvariant, PTL

(* A file is announced as compressed if and only if it is the compressed   *)
(* one, and that is only sent to a client that prefers it by the RFC.      *)
THEOREM EncodingIsTruthful == Spec => []EncodingTruthful
<1>1. IInv => EncodingTruthful
  <2> SUFFICES ASSUME IInv PROVE EncodingTruthful
    OBVIOUS
  <2>1. ASSUME phase = "get" PROVE should_gzip(header) <=> GzipPreferred(header)
    <3>1. header \in Headers \/ header = {<<Gzip>>}
      BY <2>1 DEF IInv, LookupInv
    <3>2. ASSUME NEW n \in 1 .. MaxSpecs, NEW h \in [1 .. n -> Parts] PROVE h \in Seq(AnyPart)
      <4>1. Parts \subseteq AnyPart
        BY EncodingAssumption DEF Parts, AnyPart
      <4>2. n \in Nat
        BY EncodingAssumption
      <4> QED BY <4>1, <4>2
    <3>3. <<Gzip>> \in Seq(AnyPart)
      <4>1. Gzip \in AnyPart
        BY DEF Gzip, AnyPart, Codings
      <4> QED BY <4>1
    <3>4. header = {} \/ \E h \in Seq(AnyPart) : header = {h}
      BY <3>1, <3>2, <3>3, Zenon DEF Headers
    <3> QED BY <3>4, NegotiationByRfc
  <2>2. ASSUME status = "entity"
        PROVE  /\ "content-encoding" \in headers <=> origin = "a.gz"
               /\ origin = "a.gz" => gzip /\ "vary" \in headers
    <3>1. /\ (is_gzipped <=> origin = "a.gz") /\ (is_gzipped => gzip) /\ (gzip => auto_gzip)
          /\ headers = add_encoding_headers
      BY <2>2 DEF IInv, NodeInv, LookupInv
    <3>2. /\ "content-encoding" \in add_encoding_headers <=> is_gzipped
          /\ "vary" \in add_encoding_headers <=> auto_gzip
      BY DEF add_encoding_headers
    <3> QED BY <3>1, <3>2, Zenon
  <2> QED BY <2>1, <2>2, Zenon DEF EncodingTruthful
<1> QED BY <1>1, DirInvariant, PTL

(* The chunks of a body are the range from its start on, and all of it if  *)
(* the body ends.                                                          *)
THEOREM BodyIsTheRange == Spec => []BodyIsRange
<1>1. IInv => BodyIsRange
  BY DEF IInv
<1> QED BY <1>1, DirInvariant, PTL

(* A file that still has the tag of a body is the one the body is of.      *)
THEOREM EtagIsStrong == Spec => []EtagVouches
<1>1. IInv => EtagVouches
  <2> SUFFICES ASSUME IInv, NEW c \in crf, NEW n \in Names, dir[n] # 0, inodes[dir[n]].kind = "file",
                      etag(file_info(dir[n], inodes[dir[n]])) = etag(c),
                      NEW i \in 1 .. Len(received)
               PROVE  received[i].content = inodes[dir[n]].mtime
    BY DEF EtagVouches
  <2>1. c.inode = dir[n] /\ c.mtime = inodes[dir[n]].mtime
    BY DEF etag, file_info
  <2> QED BY <2>1 DEF IInv, VouchInv
<1> QED BY <1>1, DirInvariant, PTL
-----------------------------------------------------------------------------
(***************************************************************************)
(* What keeps a request from going on for ever                             *)
(***************************************************************************)
(* How many steps a lookup has before it at most.                          *)
Rank == [idle |-> 9, get |-> 8, open_gz |-> 7, stat_gz |-> 6, open |-> 5,
         stat |-> 4, node |-> 3, serve |-> 2, body |-> 1, done |-> 0]

(* The step brings the request nearer to its answer, sends bytes that were *)
(* not sent before, or tells the consumer of the end or of an error.       *)
Advances ==
  \/ Rank[phase'] < Rank[phase]
  \/ /\ phase = "body" /\ phase' = "body"
     /\ \/ left'.start > left.start /\ left'.start <= left.end /\ left'.end = left.end
        \/ seen' \in {"end", "error"}

(* Every step of the server is such progress, and no other step takes any  *)
(* of it back.                                                             *)
ServerAdvances == [][(Server => Advances) /\ (Advances \/ UNCHANGED <<phase, left>>)]_vars

(* Looking up, replying and closing come nearer to the answer.             *)
LEMMA PhasesDescend ==
  ASSUME Request \/ Get \/ OpenGz \/ StatGz \/ Open \/ Stat \/ Reply \/ ServeFile \/ BlockingFails \/ Close
  PROVE  Advances
<1>1. CASE Request
  <2>1. phase = "idle" /\ phase' = "get"
    BY <1>1 DEF Request
  <2> QED BY <2>1 DEF Advances, Rank
<1>2. CASE Get
  BY <1>2 DEF Get, Answer, Advances, Rank
<1>3. CASE OpenGz
  <2>1. phase = "open_gz" /\ phase' \in {"done", "open", "stat_gz"}
    BY <1>3, Zenon DEF OpenGz, Answer
  <2> QED BY <2>1 DEF Advances, Rank
<1>4. CASE StatGz
  BY <1>4 DEF StatGz, Advances, Rank
<1>5. CASE Open
  <2>1. phase = "open" /\ phase' \in {"done", "stat"}
    BY <1>5, Zenon DEF Open, Answer
  <2> QED BY <2>1 DEF Advances, Rank
<1>6. CASE Stat
  BY <1>6 DEF Stat, Advances, Rank
<1>7. CASE Reply
  <2>1. phase = "node" /\ phase' \in {"done", "serve"}
    BY <1>7 DEF Reply, Answer
  <2> QED BY <2>1 DEF Advances, Rank
<1>8. CASE ServeFile
  <2>1. phase = "serve" /\ phase' \in {"done", "body"}
    BY <1>8 DEF ServeFile, Answer
  <2> QED BY <2>1 DEF Advances, Rank
<1>9. CASE BlockingFails
  BY <1>9 DEF BlockingFails, Answer, Advances, Rank
<1>10. CASE Close
  BY <1>10 DEF Close, Advances, Rank
<1> QED BY <1>1, <1>2, <1>3, <1>4, <1>5, <1>6, <1>7, <1>8, <1>9, <1>10

(* A poll sends bytes, ends or fails: there is no empty chunk.             *)
LEMMA PollAdvances ==
  ASSUME IInv, Poll \/ PollFails
  PROVE  Advances
<1>1. phase = "body" /\ phase' = "body"
  BY DEF Poll, PollFails
<1>2. PICK item \in Items : PollItem(item)
  BY <1>1, ItemsFit DEF Poll, PollFails, PollFile, PollFileFails
<1>3. /\ left \in [start : Nat, end : Nat] /\ left.start <= left.end
      /\ cur.remaining = left.end - left.start
  BY DEF IInv, BodyInv
<1>4. /\ left' = [left EXCEPT !.start = @ + item.n]
      /\ seen' = exact_len_poll(cur, item).out
  BY <1>2 DEF PollItem, Advance
<1>5. CASE item.kind = "data"
  <2>1. item.n \in Nat /\ 1 <= item.n /\ item.n <= left.end - left.start
    BY <1>5 DEF Items
  <2>2. left'.start = left.start + item.n /\ left'.end = left.end
    BY <1>3, <1>4
  <2>3. left'.start > left.start /\ left'.start <= left.end
    BY <1>3, <2>1, <2>2
  <2> QED BY <1>1, <2>2, <2>3 DEF Advances
<1>6. CASE item.kind = "error"
  <2>1. seen' = "error"
    BY <1>4, <1>6 DEF exact_len_poll
  <2> QED BY <1>1, <2>1 DEF Advances
<1>7. CASE item.kind = "none"
  <2>1. seen' = (IF cur.remaining # 0 THEN "error" ELSE "end")
    BY <1>4, <1>7 DEF exact_len_poll
  <2> QED BY <1>1, <2>1 DEF Advances
<1> QED BY <1>5, <1>6, <1>7 DEF Items

(* The safety part of Terminates, for files and ranges of any length:      *)
(* however the file shrinks, grows or is replaced, there are only finitely *)
(* many steps of the server between a request and its answer, and between  *)
(* the first poll of a body and its end or an error, since no step undoes  *)
(* one of them and a read of nothing is not handed on.                     *)
THEOREM RequestsAdvance == Spec => ServerAdvances
<1>1. IInv /\ [Next]_vars => [(Server => Advances) /\ (Advances \/ UNCHANGED <<phase, left>>)]_vars
  <2> SUFFICES ASSUME IInv, [Next]_vars
               PROVE  [(Server => Advances) /\ (Advances \/ UNCHANGED <<phase, left>>)]_vars
    OBVIOUS
  <2>1. Server => Advances
    BY PhasesDescend, PollAdvances DEF Server
  <2>2. CASE Request \/ BlockingFails \/ PollFails \/ Close
    BY <2>1, <2>2, PhasesDescend, PollAdvances
  <2>3. CASE (\E n \in Names : Replace(n) \/ Unlink(n)) \/ RewriteAny
    <3>1. UNCHANGED <<fbody, phase>>
      BY <2>3 DEF Replace, Unlink, RewriteAny
    <3>2. UNCHANGED <<phase, left>>
      BY <3>1 DEF fbody
    <3> QED BY <2>1, <3>2
  <2> QED BY <2>1, <2>2, <2>3 DEF Next
<1> QED BY <1>1, DirInvariant, PTL DEF Spec, ServerAdvances
=============================================================================
