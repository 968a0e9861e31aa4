---------------------------- MODULE BufferLists -----------------------------
(***************************************************************************)
(* util/buffer.{hh,cc} and FileDescriptor::write: a string in parts        *)
(* (BufferList, BufferViewList) and the loop that writes it to a           *)
(* descriptor.  A part is the sequence of the bytes left in it; storage is *)
(* shared but never written, so a copy of a list is the list of its parts. *)
(***************************************************************************)
EXTENDS Integers, SequencesExt

concatenate(list) == FlattenSeq(list)

list_size(list) == Len(concatenate(list))

\* The loop of remove_prefix; out_of_range when the parts run out.  Nothing is
\* done for n = 0, so that empty parts in front stay.
RECURSIVE RemoveCountingParts(_, _)
RemoveCountingParts(list, n) ==
  IF n = 0 THEN [list |-> list, threw |-> FALSE]
  ELSE IF list = << >> THEN [list |-> list, threw |-> TRUE]
  ELSE IF n < Len(Head(list))
  THEN [list |-> <<SubSeq(Head(list), n + 1, Len(Head(list)))>> \o Tail(list), threw |-> FALSE]
  ELSE RemoveCountingParts(Tail(list), n - 1)

RECURSIVE remove_prefix_of(_, _)
remove_prefix_of(list, n) ==
  IF n = 0 THEN [list |-> list, threw |-> FALSE]
  ELSE IF list = << >> THEN [list |-> list, threw |-> TRUE]
  ELSE IF n < Len(Head(list))
  THEN [list |-> <<SubSeq(Head(list), n + 1, Len(Head(list)))>> \o Tail(list), threw |-> FALSE]
  ELSE remove_prefix_of(Tail(list), n - Len(Head(list)))

\* A call of write: what is left of its views, the bytes counted so far, and
\* where it is.
Call(list, write_all) == [views |-> list, write_all |-> write_all, total |-> 0, at |-> "writing"]

\* The loop goes on as long as there are views, not bytes.
AgainForViews(call) == call.write_all /\ call.views # << >>

Again(call) == call.write_all /\ list_size(call.views) > 0

\* One turn of the loop in which writev returns n: SystemCall throws when it has
\* failed, write when it took nothing of something or more than there is.
Turn(call, n) ==
  LET removed == remove_prefix_of(call.views, n)
      after == [call EXCEPT !.views = removed.list, !.total = @ + n]
  IN  IF n < 0 THEN [call EXCEPT !.at = "unix_error"]
      ELSE IF \/ n = 0 /\ list_size(call.views) # 0
              \/ n > list_size(call.views) THEN [call EXCEPT !.at = "runtime_error"]
      ELSE IF removed.threw THEN [call EXCEPT !.at = "out_of_range"]
      ELSE [after EXCEPT !.at = IF Again(after) THEN "writing" ELSE "returned"]
=============================================================================
