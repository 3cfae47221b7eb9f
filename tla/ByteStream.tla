----------------------------- MODULE ByteStream -----------------------------
(***************************************************************************)
(* What one direction of a proxied stream connection promises: the bytes   *)
(* the writer hands in, numbered 1, 2, ..., reach the reader one at a      *)
(* time, in the order they were written, each at most once, and never      *)
(* before they were written.  Nothing is promised about when.              *)
(***************************************************************************)
EXTENDS Naturals, Sequences

CONSTANT MaxBytes           \* how many bytes the writer hands in at most

VARIABLES
  sent,                     \* number of bytes handed in so far
  delivered                 \* the bytes the reader has taken, in order

vars == <<sent, delivered>>

Init ==
  /\ sent = 0
  /\ delivered = <<>>

Send ==
  /\ sent < MaxBytes
  /\ sent' = sent + 1
  /\ UNCHANGED delivered

Deliver ==
  /\ Len(delivered) < sent
  /\ delivered' = Append(delivered, Len(delivered) + 1)
  /\ UNCHANGED sent

Spec == Init /\ [][Send \/ Deliver]_vars

=============================================================================
