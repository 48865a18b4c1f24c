------------------------------ MODULE MapResult ------------------------------
(***************************************************************************)
(* What libmapreduce (mp7) promises: the lines that the map processes      *)
(* write are reduced one after the other, each at most once, those of a    *)
(* process in the order it wrote them.                                     *)
(*                                                                         *)
(* reduce is any function of two values: the value of a key is the         *)
(* sequence of the lines that were reduced to it, in their order; <<>> if  *)
(* the key does not exist.                                                 *)
(***************************************************************************)
EXTENDS Integers, Sequences

CONSTANTS Keys,
          Output   \* Output[p]: the keys of the lines that process p writes

VARIABLES done,    \* done[p]: how many lines of p have been reduced
          result   \* result[k]: the value of the key k

Processes == DOMAIN Output

Init == /\ done = [p \in Processes |-> 0]
        /\ result = [k \in Keys |-> <<>>]

Reduce(p) == /\ done[p] < Len(Output[p])
             /\ done' = [done EXCEPT ![p] = @ + 1]
             /\ result' = [result EXCEPT ![Output[p][done[p] + 1]] =
                             Append(@, <<p, done[p] + 1>>)]

Spec == Init /\ [][\E p \in Processes : Reduce(p)]_<<done, result>>
=============================================================================
