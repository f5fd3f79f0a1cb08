-------------------------- MODULE ExactLenStream --------------------------
(***************************************************************************)
(* ExactLenStream of src/src/body.rs, which holds the stream that an       *)
(* entity's get_range returned to the length announced for it.  The inner  *)
(* stream is only known by whether it has ended; what it answers to a poll *)
(* is an item [kind, n] with kind "data", "error", "none" or "pending".    *)
(***************************************************************************)
EXTENDS Integers

(* Option::None, where an ExactLenStream is optional.                      *)
None == [some |-> FALSE, remaining |-> 0, ended |-> FALSE]

(* ExactLenStream::new                                                     *)
ExactLen(n) == [some |-> TRUE, remaining |-> n, ended |-> FALSE]

(* Mutant: the end of the inner stream is taken for the end of the range.  *)
exact_len_pollMutantShort(c, item) ==
  CASE item.kind = "data" /\ item.n <= c.remaining ->
         [cur |-> [c EXCEPT !.remaining = @ - item.n], out |-> "data"]
    [] item.kind = "data" /\ item.n > c.remaining ->
         [cur |-> [c EXCEPT !.remaining = 0], out |-> "error"]
    [] item.kind = "none" ->
         [cur |-> [some |-> TRUE, remaining |-> 0, ended |-> TRUE], out |-> "end"]
    [] OTHER -> [cur |-> c, out |-> item.kind]

(* Mutant: a chunk beyond the range is passed over instead of refused.     *)
exact_len_pollMutantLong(c, item) ==
  CASE item.kind = "data" ->
         [cur |-> IF item.n <= c.remaining THEN [c EXCEPT !.remaining = @ - item.n] ELSE c,
          out |-> "data"]
    [] item.kind = "none" ->
         [cur |-> [some |-> TRUE, remaining |-> 0, ended |-> TRUE],
          out |-> IF c.remaining # 0 THEN "error" ELSE "end"]
    [] OTHER -> [cur |-> c, out |-> item.kind]

(* ExactLenStream::poll_next on c, when the inner stream answers item.     *)
exact_len_poll(c, item) ==
  CASE item.kind = "data" /\ item.n <= c.remaining ->
         [cur |-> [c EXCEPT !.remaining = @ - item.n], out |-> "data"]
    [] item.kind = "data" /\ item.n > c.remaining ->
         [cur |-> [c EXCEPT !.remaining = 0], out |-> "error"]
    [] item.kind = "none" ->
         [cur |-> [some |-> TRUE, remaining |-> 0, ended |-> TRUE],
          out |-> IF c.remaining # 0 THEN "error" ELSE "end"]
    [] OTHER -> [cur |-> c, out |-> item.kind]
=============================================================================
