---------------------------- MODULE ByteStream ----------------------------
(***************************************************************************)
(* What a streaming response body promises, whatever buffers it: a single  *)
(* producer appends bytes, a single consumer receives them in order, and   *)
(* the consumer learns that the body is complete only when it is.          *)
(* Positions in the body stand for the bytes: "delivered = 7" says that    *)
(* the consumer holds exactly the first seven bytes.                       *)
(***************************************************************************)
EXTENDS Integers

VARIABLES
  written,    \* bytes the producer handed over
  released,   \* bytes the consumer may be given, a prefix of the written ones
  delivered,  \* bytes the consumer has been given, a prefix of the released
  producer,   \* "open", "finished" (dropped) or "aborted"
  consumer    \* "open", "end" (saw a clean end), "error" or "gone" (dropped)

vars == <<written, released, delivered, producer, consumer>>

Init ==
  /\ written = 0
  /\ released = 0
  /\ delivered = 0
  /\ producer = "open"
  /\ consumer = "open"

(* The producer adds bytes and may release any prefix of what it holds.    *)
Produce ==
  /\ producer = "open"
  /\ written' \in Nat /\ written <= written'
  /\ released' \in Nat /\ released <= released' /\ released' <= written'
  /\ UNCHANGED <<delivered, producer, consumer>>

(* After an abort the producer may still be handed bytes: nobody sees them.*)
ProduceInVain ==
  /\ producer = "aborted"
  /\ written' \in Nat /\ written <= written'
  /\ UNCHANGED <<released, delivered, producer, consumer>>

(* Finishing releases everything that was written.                         *)
Finish ==
  /\ producer = "open"
  /\ producer' = "finished"
  /\ released' = written
  /\ UNCHANGED <<written, delivered, consumer>>

(* Aborting takes back what was released and not delivered.                *)
Abort ==
  /\ producer = "open"
  /\ producer' = "aborted"
  /\ released' = delivered
  /\ UNCHANGED <<written, delivered, consumer>>

Deliver ==
  /\ consumer = "open"
  /\ delivered' \in Nat /\ delivered < delivered' /\ delivered' <= released
  /\ UNCHANGED <<written, released, producer, consumer>>

(* The consumer is told the body is complete.                              *)
End ==
  /\ consumer = "open"
  /\ producer = "finished"
  /\ delivered = written
  /\ consumer' = "end"
  /\ UNCHANGED <<written, released, delivered, producer>>

(* The consumer is told the body is not going to be complete.              *)
Fail ==
  /\ consumer = "open"
  /\ producer = "aborted"
  /\ consumer' = "error"
  /\ UNCHANGED <<written, released, delivered, producer>>

Leave ==
  /\ consumer' = "gone"
  /\ UNCHANGED <<written, released, delivered, producer>>

Next ==
  \/ Produce \/ ProduceInVain \/ Finish \/ Abort
  \/ Deliver \/ End \/ Fail \/ Leave

Spec == Init /\ [][Next]_vars
=============================================================================
