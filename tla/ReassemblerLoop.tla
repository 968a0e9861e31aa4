-------------------------- MODULE ReassemblerLoop --------------------------
(***************************************************************************)
(* UnAssembleBuffer::MergeInterval as the loop over the ordered map that   *)
(* the source has, to be compared with the closed form that                *)
(* StreamReassembler uses.                                                 *)
(***************************************************************************)
EXTENDS ReassemblerSpec

CONSTANT End   \* the iterator index_map_.end()

\* The iterator at the first key >= k, and the one before an iterator.
lower_bound(map, k) ==
  LET above == {s \in DOMAIN map : s >= k} IN IF above = {} THEN End ELSE Min(above)

before(map, iter) == Max(IF iter = End THEN DOMAIN map ELSE {s \in DOMAIN map : s < iter})

Insert(map, index, size) ==
  [s \in DOMAIN map \cup {index} |-> IF s = index THEN size ELSE map[s]]

RECURSIVE MergeFrom(_, _, _, _, _)
MergeFrom(map, used, iter, index, size) ==
  IF iter = End \/ index + size < iter
  THEN [index_map |-> Insert(map, index, size), used_size |-> used + size]
  ELSE IF index > iter + map[iter]
  THEN MergeFrom(map, used, lower_bound(map, iter + 1), index, size)
  ELSE LET last == larger(index + size, iter + map[iter])
           first == smaller(index, iter)
           erased == [s \in DOMAIN map \ {iter} |-> map[s]]
       IN  MergeFrom(erased, used - map[iter], lower_bound(erased, iter + 1), first, last - first)

MergeByLoop(map, used, index, size) ==
  LET iter == lower_bound(map, index)
      begin == Min(DOMAIN map)
  IN  IF map = << >>
      THEN [index_map |-> Insert(map, index, size), used_size |-> used + size]
      ELSE MergeFrom(map, used,
             IF iter = End \/ (iter # End /\ iter > index /\ iter # begin) THEN before(map, iter) ELSE iter,
             index, size)

(***************************************************************************)
(* On every map the reassembler can hold and every interval push_substring *)
(* may hand over, the iterator loop of MergeInterval (where it starts,     *)
(* what it skips, erases and inserts) computes the closed form.            *)
(***************************************************************************)
LoopMerges ==
  \A index \in r.out.written .. r.out.written + Capacity - 1 :
    \A size \in 1 .. r.out.written + Capacity - index :
      LET loop == MergeByLoop(r.index_map, r.used_size, index, size)
          closed == MergeInterval(r, index, size)
      IN  loop.index_map = closed.index_map /\ loop.used_size = closed.used_size
=============================================================================
