----------------------------- MODULE TaskQueue -----------------------------
(***************************************************************************)
(* What EventLoop::RunInLoop promises to the threads that call it: every   *)
(* function handed over is run at most once, on the loop's thread, and the *)
(* functions are run in the order in which they were handed over.          *)
(*                                                                         *)
(* EventLoop implements this with two vectors and one mutex; see the       *)
(* INSTANCE of this module there.                                          *)
(***************************************************************************)
EXTENDS Naturals, Sequences

CONSTANT Tasks          (* the functions that may be handed over           *)

VARIABLES posted,       (* every function handed over so far, in order     *)
          done          (* those the loop's thread has run, in order       *)

Init == posted = <<>> /\ done = <<>>

Post(t) == posted' = Append(posted, t) /\ UNCHANGED done

Run == /\ Len(done) < Len(posted)
       /\ done' = Append(done, posted[Len(done) + 1])
       /\ UNCHANGED posted

Next == Run \/ \E t \in Tasks : Post(t)

Spec == Init /\ [][Next]_<<posted, done>>
=============================================================================
