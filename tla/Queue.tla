-------------------------------- MODULE Queue --------------------------------
(***************************************************************************)
(* The queue of mp6 (queue.c) as a sequence of its items: q_edge of libwfg *)
(* and q_mutex of libdrm.  Its loops find the first item that matches.     *)
(***************************************************************************)
EXTENDS Integers, Sequences

NULL == 0

\* The first of a set of positions of the queue, NULL if there is none.
FirstOf(I) == IF I = {} THEN NULL ELSE CHOOSE i \in I : \A j \in I : i <= j

\* The queue without the item at one of its positions (queue_remove_at).
queue_remove_at(q, pos) ==
  [i \in 1 .. Len(q) - 1 |-> IF i < pos THEN q[i] ELSE q[i + 1]]
=============================================================================
