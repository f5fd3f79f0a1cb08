------------------------------- MODULE FsDir -------------------------------
(***************************************************************************)
(* FsDir::get and Node (src/src/dir.rs), used as src/examples/serve_dir.rs *)
(* does: a request for a path is looked up, with ".gz" first if the client *)
(* likes gzip, and what was opened is answered with, its bytes while the   *)
(* body is polled.  Every system call is a step; files are replaced,       *)
(* removed and rewritten in between.                                       *)
(*                                                                         *)
(* The directory has room for two names, "a" and "a.gz".  A path is its    *)
(* segments between slashes.                                               *)
(***************************************************************************)
EXTENDS FileEntity, AcceptEncoding, FiniteSets

CONSTANT MaxSegments   \* bound: segments of a path

(* The first two inodes are those that the names have at first, the third  *)
(* is the directory's own.                                                 *)
ASSUME DirAssumption == MaxSegments \in Nat \ {0} /\ {1, 2, 3} \subseteq Inodes

VARIABLES
  dir,            \* the directory: inodes of its names, or 0
  auto_gzip,      \* FsDir.auto_gzip

  phase,          \* the step of the request that is next
  path,           \* the path that is looked up
  header,         \* its Accept-Encoding, until should_gzip has read it
  gzip,           \* the local should_gzip
  metadata,       \* Node.metadata
  is_gzipped,     \* Node.is_gzipped
  origin,         \* the name under which the open file was found
  headers,        \* the encoding headers that are given to the entity
  status          \* the response

fs == <<dir, disk>>
request == <<auto_gzip, path, header, gzip>>
node == <<metadata, is_gzipped, origin>>
vars == <<fs, file, fbody, phase, request, node, headers, status>>

Names == {"a", "a.gz"}
Root == 3
Segments == {"a", "..", "", "NUL"}
Paths == UNION {[1 .. n -> Segments] : n \in 1 .. MaxSegments}

(* A long path, and a request that is not to be compressed, comes with one *)
(* header or none: nothing looks at both.                                  *)
Gzip == [coding |-> "gzip", weight |-> <<>>]
Requests ==
  [path : {<<"a">>}, header : IF auto_gzip THEN Headers ELSE {}] \cup [path : Paths, header : {{}, {<<Gzip>>}}]

File(t) == [kind |-> "file", len |-> MaxLen, mtime |-> t]
Other(k) == [kind |-> k, len |-> 0, mtime |-> 0]

(* Whatever the two names are, one of them a file from before 1970; every  *)
(* later state of the directory comes about by changes.                    *)
Init ==
  /\ FileInit
  /\ \E a \in {Free, File(-1), File(0), Other("dir"), Other("other")}, z \in {Free, File(0), Other("dir")} :
       /\ inodes = [i \in Inodes |-> CASE i = 1 -> a [] i = 2 -> z [] i = Root -> Other("dir") [] OTHER -> Free]
       /\ dir = [n \in Names |-> CASE n = "a" /\ a # Free -> 1 [] n = "a.gz" /\ z # Free -> 2 [] OTHER -> 0]
  /\ auto_gzip \in BOOLEAN
  /\ phase = "idle" /\ path = <<>> /\ header = {} /\ gzip = FALSE
  /\ metadata = Free /\ is_gzipped = FALSE /\ origin = "" /\ headers = {} /\ status = "none"

(* Something came back to the client.                                      *)
Answer(s) == phase' = "done" /\ status' = s

(* The URI without its first slash, and "." for the URI "/".               *)
Dot == <<".">>
Request ==
  /\ phase = "idle"
  /\ \E r \in Requests : path' = (IF r.path = <<"">> THEN Dot ELSE r.path) /\ header' = r.header
  /\ phase' = "get"
  /\ UNCHANGED <<fs, file, fbody, auto_gzip, gzip, node, status, headers>>
-----------------------------------------------------------------------------
(***************************************************************************)
(* FsDir::get                                                              *)
(***************************************************************************)
(* Mutant: the segment after the last slash is not looked at.              *)
validate_pathMutant(p) ==
  /\ \A i \in 1 .. Len(p) : p[i] # "NUL"
  /\ ~(p[1] = "" /\ Len(p) > 1)
  /\ \A i \in 1 .. Len(p) - 1 : p[i] # ".."

(* No NUL byte, not absolute, no ".." segment.                             *)
validate_path(p) ==
  /\ \A i \in 1 .. Len(p) : p[i] # "NUL"
  /\ ~(p[1] = "" /\ Len(p) > 1)
  /\ \A i \in 1 .. Len(p) : p[i] # ".."

Get ==
  /\ phase = "get"
  /\ \/ ~validate_path(path) /\ Answer("error") /\ UNCHANGED gzip
     \/ /\ validate_path(path)
        /\ gzip' = (auto_gzip /\ should_gzip(header))
        /\ phase' = IF gzip' THEN "open_gz" ELSE "open"
        /\ UNCHANGED status
  /\ header' = {}
  /\ UNCHANGED <<fs, file, fbody, auto_gzip, path, node, headers>>

NotFound == 0
Failure == -1

(* openat, if the system does not fail: a path that goes on after "a"      *)
(* needs that to be a directory, which is empty; with only slashes it is   *)
(* that directory itself, as "." is the one that is served.                *)
open_file(suffix) ==
  LET below == path[1] = "a" /\ Len(path) > 1 IN
  CASE path = Dot -> IF suffix THEN NotFound ELSE Root
    [] path = <<"a">> -> dir[IF suffix THEN "a.gz" ELSE "a"]
    [] below /\ dir["a"] # 0 /\ inodes[dir["a"]].kind # "dir" -> Failure
    [] below /\ dir["a"] # 0 /\ inodes[dir["a"]].kind = "dir" ->
         IF ~suffix /\ (\A i \in 2 .. Len(path) : path[i] = "") THEN dir["a"] ELSE NotFound
    [] OTHER -> NotFound

OpenGz ==
  /\ phase = "open_gz"
  /\ LET r == open_file(TRUE) IN
       \/ r = Failure /\ Answer("error") /\ UNCHANGED <<file, origin>>
       \/ r = NotFound /\ phase' = "open" /\ UNCHANGED <<file, origin, status>>
       \/ r \in Inodes /\ file' = r /\ origin' = "a.gz" /\ phase' = "stat_gz" /\ UNCHANGED status
  /\ UNCHANGED <<fs, fbody, request, metadata, is_gzipped, headers>>

(* Mutant: the directory is passed over, but not the encoding.             *)
StatGzMutant ==
  /\ phase = "stat_gz"
  /\ metadata' = inodes[file] /\ is_gzipped' = TRUE
  /\ \/ /\ metadata'.kind # "dir"
        /\ phase' = "node" /\ UNCHANGED file
     \/ /\ metadata'.kind = "dir"
        /\ phase' = "open" /\ file' = 0
  /\ UNCHANGED <<fs, fbody, request, origin, status, headers>>

(* A directory with the suffix is ignored.                                 *)
StatGz ==
  /\ phase = "stat_gz"
  /\ \/ /\ inodes[file].kind # "dir"
        /\ metadata' = inodes[file] /\ is_gzipped' = TRUE
        /\ phase' = "node" /\ UNCHANGED file
     \/ /\ inodes[file].kind = "dir"
        /\ phase' = "open" /\ file' = 0
        /\ UNCHANGED <<metadata, is_gzipped>>
  /\ UNCHANGED <<fs, fbody, request, origin, status, headers>>

Open ==
  /\ phase = "open"
  /\ LET r == open_file(FALSE) IN
       \/ r = Failure /\ Answer("error") /\ UNCHANGED <<file, origin>>
       \/ r = NotFound /\ Answer("not_found") /\ UNCHANGED <<file, origin>>
       \/ r \in Inodes /\ file' = r /\ origin' = "a" /\ phase' = "stat" /\ UNCHANGED status
  /\ UNCHANGED <<fs, fbody, request, metadata, is_gzipped, headers>>

Stat ==
  /\ phase = "stat"
  /\ metadata' = inodes[file] /\ phase' = "node"
  /\ UNCHANGED <<fs, file, fbody, request, is_gzipped, origin, status, headers>>

(* A system call fails, or the blocking task is cancelled or panics.       *)
BlockingFails ==
  /\ phase \in {"open_gz", "stat_gz", "open", "stat"}
  /\ Answer("error") /\ file' = 0
  /\ UNCHANGED <<fs, fbody, request, node, headers>>
-----------------------------------------------------------------------------
(***************************************************************************)
(* serve_dir's reply, and the body of a file                               *)
(***************************************************************************)
(* The URI does: the only one that is looked up as "." is "/".             *)
EndsWithSlash == path = Dot \/ path[Len(path)] = ""

add_encoding_headers ==
  {h \in {"content-encoding", "vary"} : IF h = "vary" THEN auto_gzip ELSE is_gzipped}

into_file_entity == new_with_metadata(file, metadata)

(* A listing is written to a streaming_body, see BodyWriter; reading the   *)
(* directory and its entries may fail, on which it unwraps.                *)
Reply ==
  /\ phase = "node"
  /\ \/ /\ metadata.kind = "dir"
        /\ \E s \in (IF EndsWithSlash THEN {"listing", "unwrap"} ELSE {"moved"}) : Answer(s)
        /\ file' = 0 /\ UNCHANGED <<fbody, headers>>
     \/ /\ metadata.kind # "dir" /\ into_file_entity = {}
        /\ Answer("error")
        /\ file' = 0 /\ UNCHANGED <<fbody, headers>>
     \/ /\ metadata.kind # "dir" /\ into_file_entity # {}
        /\ crf' = into_file_entity /\ headers' = add_encoding_headers
        /\ phase' = "serve"
        /\ UNCHANGED <<file, range, left, cur, seen, failed, received, status>>
  /\ UNCHANGED <<fs, request, node>>

(* http_serve::serve, see Serve: the whole file or one range of it, empty  *)
(* only at its end, see Range.                                             *)
ServeFile ==
  /\ phase = "serve"
  /\ \E c \in crf :
       \/ EtagPanics(c) /\ Answer("panic") /\ file' = 0 /\ UNCHANGED fbody
       \/ /\ ~EtagPanics(c)
          /\ \E s \in 0 .. c.len, e \in 0 .. c.len :
               (s < e \/ (s = e /\ e = c.len)) /\ get_range([start |-> s, end |-> e])
          /\ phase' = "body" /\ status' = "entity" /\ UNCHANGED file
  /\ UNCHANGED <<fs, request, node, headers>>

(* A consumer may poll again after an error, not after the end.            *)
Poll ==
  /\ phase = "body" /\ seen # "end"
  /\ PollFile
  /\ UNCHANGED <<fs, file, phase, request, node, status, headers>>

PollFails ==
  /\ phase = "body" /\ seen # "end"
  /\ PollFileFails
  /\ UNCHANGED <<fs, file, phase, request, node, status, headers>>

(* The response is dropped, and the File with it.                          *)
Close ==
  /\ phase = "body"
  /\ phase' = "done" /\ file' = 0
  /\ UNCHANGED <<fs, fbody, request, node, status, headers>>
-----------------------------------------------------------------------------
(***************************************************************************)
(* Changes to the directory (external)                                     *)
(***************************************************************************)
(* Before the lookup the directory may as well have been different, and    *)
(* after an answer without a body nobody looks at it.                      *)
Changing == phase \notin {"idle", "get"} /\ (phase = "done" => received # <<>>)

(* The inode of a removed name is free unless it is open.                  *)
Removed(n) == IF dir[n] \in {0, file} THEN inodes ELSE [inodes EXCEPT ![dir[n]] = Free]

(* A new file is moved to n, with an inode number that nobody uses; empty  *)
(* or full, since Rewrite makes every length.                              *)
Replace(n) ==
  /\ Changing /\ clock < MaxTime /\ clock' = clock + 1
  /\ \E i \in Inodes \ {dir["a"], dir["a.gz"], file, Root}, new \in {File(clock'), [File(clock') EXCEPT !.len = 0], Other("dir")} :
       /\ dir' = [dir EXCEPT ![n] = i]
       /\ inodes' = [Removed(n) EXCEPT ![i] = new]
  /\ UNCHANGED <<file, fbody, phase, request, node, status, headers>>

Unlink(n) ==
  /\ Changing /\ dir[n] # 0
  /\ dir' = [dir EXCEPT ![n] = 0] /\ inodes' = Removed(n)
  /\ UNCHANGED <<clock, file, fbody, phase, request, node, status, headers>>

RewriteAny ==
  /\ Changing
  /\ \E i \in {dir["a"], dir["a.gz"], file} \ {0} : Rewrite(i)
  /\ UNCHANGED <<dir, file, fbody, phase, request, node, status, headers>>

Server == Get \/ OpenGz \/ StatGz \/ Open \/ Stat \/ Reply \/ ServeFile \/ Poll
Next == Request \/ Server \/ BlockingFails \/ PollFails \/ Close
          \/ (\E n \in Names : Replace(n) \/ Unlink(n)) \/ RewriteAny

Spec == Init /\ [][Next]_vars

(* System calls return, though nothing makes them fail, and the body is    *)
(* polled.                                                                 *)
FairSpec == Spec /\ WF_vars(Server)
-----------------------------------------------------------------------------
(***************************************************************************)
(* Properties                                                              *)
(***************************************************************************)
Phases == {"idle", "get", "open_gz", "stat_gz", "open", "stat", "node", "serve", "body", "done"}
Answers == {"none", "error", "not_found", "moved", "listing", "unwrap", "panic", "entity"}
InodeTypes == [kind : {"free", "file", "dir", "other"}, len : 0 .. MaxLen, mtime : -1 .. MaxTime]

(* Where the path leads: never above the directory, however it goes on.    *)
Inside(p) ==
  /\ ~(p[1] = "" /\ Len(p) > 1)
  /\ \A i \in 1 .. Len(p) : p[i] # "NUL"
  /\ \A k \in 1 .. Len(p) :
       Cardinality({i \in 1 .. k : p[i] = ".."}) <= Cardinality({i \in 1 .. k : p[i] = "a"})

(* Everything has its type; a system call on a path is only made for one   *)
(* that stays inside the directory, and on a file that is open.            *)
TypeOK ==
  /\ inodes \in [Inodes -> InodeTypes] /\ clock \in 0 .. MaxTime
  /\ dir \in [Names -> Inodes \cup {0}] /\ file \in Inodes \cup {0}
  /\ crf \subseteq [inode : Inodes, len : 0 .. MaxLen, mtime : -1 .. MaxTime]
  /\ phase \in Phases /\ status \in Answers /\ metadata \in InodeTypes
  /\ auto_gzip \in BOOLEAN /\ gzip \in BOOLEAN /\ is_gzipped \in BOOLEAN
  /\ phase \in {"open_gz", "open"} => Inside(path)
  /\ phase \in {"stat_gz", "stat", "node", "serve", "body"} => file # 0 /\ inodes[file].kind # "free"

(* A file is said to be compressed if and only if it is the one with the   *)
(* suffix, which it only is if the client prefers gzip by RFC 7231, and    *)
(* then caches are told that others may get something else; a directory    *)
(* with the suffix, or one that comes or goes between the two lookups,     *)
(* does not change that.                                                   *)
EncodingTruthful ==
  /\ phase = "get" => (should_gzip(header) <=> GzipPreferred(header))
  /\ status = "entity" =>
       /\ "content-encoding" \in headers <=> origin = "a.gz"
       /\ origin = "a.gz" => gzip /\ "vary" \in headers

Position == IF received = <<>> THEN range.start ELSE received[Len(received)].to

(* The chunks are the range from its start on, without gap or overlap,     *)
(* even if reads are short, the file shrinks or grows, or a poll follows   *)
(* an error; a body that ends is the whole range, so a truncated file is   *)
(* an error and never a short body.                                        *)
BodyIsRange ==
  /\ received # <<>> => received[1].from = range.start
  /\ \A i \in 1 .. Len(received) - 1 : received[i].to = received[i + 1].from
  /\ Position <= range.end
  /\ seen = "end" => Position = range.end

(* If, after a body has ended, the file under one of the names still has   *)
(* the tag that was sent with the body, every byte of the body is of that  *)
(* file's content: a client that revalidates by tag never keeps a copy     *)
(* mixed from two states of the file, though length and tag are taken long *)
(* before the bytes.                                                       *)
EtagVouches ==
  seen = "end" =>
    \A c \in crf, n \in Names :
      /\ dir[n] # 0 /\ inodes[dir[n]].kind = "file"
      /\ etag(file_info(dir[n], inodes[dir[n]])) = etag(c)
      => \A i \in 1 .. Len(received) : received[i].content = inodes[dir[n]].mtime

(* Every request is answered, and a body ends or fails, whatever happens   *)
(* to the file.                                                            *)
Terminates == (phase = "get") ~> (phase = "done" \/ seen \in {"end", "error"})
-----------------------------------------------------------------------------
(* file.rs asserts of every file that its "modification time must be after *)
(* epoch".                                                                 *)
MtimeAfterEpoch == status # "panic"
-----------------------------------------------------------------------------
(***************************************************************************)
(* The inductive invariant behind the properties                           *)
(***************************************************************************)
(* A name has an inode of its own, and so does the directory.              *)
DirInv ==
  /\ inodes[Root].kind = "dir" /\ \A n \in Names : dir[n] # Root
  /\ \A n \in Names : dir[n] # 0 => inodes[dir[n]].kind # "free"
  /\ dir["a"] # 0 => dir["a"] # dir["a.gz"]

(* What is known about the request and the node, by how far the lookup is. *)
LookupInv ==
  /\ phase = "get" => path \in Paths \cup {Dot} /\ (header \in Headers \/ header = {<<Gzip>>})
  /\ phase \in {"open_gz", "stat_gz", "open"} => Inside(path)
  /\ gzip => auto_gzip
  /\ phase \in {"open_gz", "stat_gz"} => gzip
  /\ phase = "stat_gz" => origin = "a.gz"
  /\ phase = "stat" => origin = "a"
  /\ phase \in {"idle", "get", "open_gz", "stat_gz", "open", "stat"} => ~is_gzipped
  /\ phase \notin {"body", "done"} => status = "none"

(* What the entity's headers and the answer are built on.                  *)
NodeInv ==
  /\ phase \in {"node", "serve", "body"} \/ status = "entity" =>
       (is_gzipped <=> origin = "a.gz") /\ (is_gzipped => gzip)
  /\ phase \in {"serve", "body"} \/ status = "entity" => headers = add_encoding_headers

(* The stream, the ExactLenStream around it and the chunks that were sent  *)
(* are at the same place in the range.                                     *)
BodyInv ==
  /\ range \in [start : Nat, end : Nat] /\ left \in [start : Nat, end : Nat]
  /\ left.end = range.end /\ left.start <= left.end
  /\ DOMAIN cur = {"some", "remaining", "ended"} /\ cur.remaining = left.end - left.start
  /\ received \in Seq([from : Nat, to : Nat, content : Int])
  /\ Position = left.start
  /\ phase \notin {"body", "done"} => received = <<>> /\ seen = "nothing"
  /\ seen = "end" => left.start = left.end

(* The tag that was sent is of the open file and not from the future; as   *)
(* long as that file has it, nothing else was read from it.                *)
VouchInv ==
  /\ \A i \in Inodes : inodes[i].mtime <= clock
  /\ metadata.mtime <= clock
  /\ phase \notin {"serve", "body", "done"} => crf = {}
  /\ \A c \in crf :
       /\ c.mtime <= clock
       /\ phase \in {"serve", "body"} => c.inode = file
       /\ inodes[c.inode].kind = "file" /\ inodes[c.inode].mtime = c.mtime =>
            \A i \in 1 .. Len(received) : received[i].content = c.mtime

IInv == TypeOK /\ DirInv /\ LookupInv /\ NodeInv /\ BodyInv /\ BodyIsRange /\ VouchInv
=============================================================================
