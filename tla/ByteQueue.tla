----------------------------- MODULE ByteQueue -----------------------------
(***************************************************************************)
(* What a Buffer promises its users: each holds a queue of bytes.  Bytes   *)
(* are put in at the end and taken at the front; two buffers may exchange  *)
(* what they hold.                                                         *)
(***************************************************************************)
EXTENDS Naturals, Sequences

CONSTANTS Buffers, Data

VARIABLE contents

Init == contents = [x \in Buffers |-> <<>>]

Put(x, data) == contents' = [contents EXCEPT ![x] = @ \o data]

Take(x, n) == contents' = [contents EXCEPT ![x] = SubSeq(@, n + 1, Len(@))]

Exchange(x, y) == contents' = [contents EXCEPT ![x] = contents[y], ![y] = contents[x]]

Next ==
    \E x \in Buffers :
        \/ \E data \in Data : Put(x, data)
        \/ \E n \in 1 .. Len(contents[x]) : Take(x, n)
        \/ \E y \in Buffers : Put(x, contents[y]) \/ Exchange(x, y)

Spec == Init /\ [][Next]_contents
=============================================================================
