-------------------------------- MODULE Heap --------------------------------
(***************************************************************************)
(* What the calls of mp2's allocator promise (the comments of alloc.c):    *)
(* memory that belongs to one holder at a time, and whose content only the *)
(* holder changes.  live takes each address that was returned and not      *)
(* freed to the content of the memory there, one cell per unit.            *)
(***************************************************************************)
EXTENDS Integers, Sequences

CONSTANTS Zero   \* a cell that is zero

VARIABLES live

Cells(p, n) == p .. p + n - 1

\* A result of n cells lies in the memory of nobody in held.
NewResult(held, p, n) ==
  /\ p \notin DOMAIN held
  /\ \A q \in DOMAIN held : Cells(p, n) \cap Cells(q, Len(held[q])) = {}

Init == live = <<>>

\* malloc: the content is indeterminate; calloc: it is zero.
Allocated(zeroed) ==
  \E p \in DOMAIN live' \ DOMAIN live :
    /\ DOMAIN live' = DOMAIN live \cup {p}
    /\ \A q \in DOMAIN live : live'[q] = live[q]
    /\ NewResult(live, p, Len(live'[p]))
    /\ zeroed => \A i \in DOMAIN live'[p] : live'[p][i] = Zero

Malloc == Allocated(FALSE)

Calloc == Allocated(TRUE)

Free == \E p \in DOMAIN live : live' = [q \in DOMAIN live \ {p} |-> live[q]]

\* realloc: the content is kept up to the lesser of the two sizes.
Realloc ==
  \E p \in DOMAIN live, q \in DOMAIN live' :
    LET others == DOMAIN live \ {p}
    IN  /\ DOMAIN live' = others \cup {q}
        /\ \A r \in others : live'[r] = live[r]
        /\ NewResult([r \in others |-> live[r]], q, Len(live'[q]))
        /\ \A i \in DOMAIN live[p] \cap DOMAIN live'[q] : live'[q][i] = live[p][i]

Next == Malloc \/ Calloc \/ Free \/ Realloc

Spec == Init /\ [][Next]_live
=============================================================================
