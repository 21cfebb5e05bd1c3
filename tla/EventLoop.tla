----------------------------- MODULE EventLoop -----------------------------
(***************************************************************************)
(* One event loop (network/EventLoop.cpp) and the threads that hand it     *)
(* functions.  Its own thread repeats: test looping_, wait for ready       *)
(* channels, handle each of them, swap the vector of pending functions out *)
(* under the mutex and run the swapped-out batch.  Any thread may append   *)
(* to the vector at any moment, the loop's own handlers and functions      *)
(* included; any thread may ask the loop to stop.                          *)
(***************************************************************************)
EXTENDS Naturals, Sequences

CONSTANTS Posters,      (* the other threads that call RunInLoop            *)
          LoopThread,   (* the loop's own thread                            *)
          Channels,     (* the channels registered with the multiplexer     *)
          MaxPosts      (* bound: calls of RunInLoop in a behaviour         *)

ASSUME EventLoopAssumption == MaxPosts \in Nat /\ LoopThread \notin Posters

VARIABLES looping_,         (* the flag of Loop() and Stop()                *)
          pc,               (* where the loop's thread is                   *)
          ready,            (* channels the kernel reports as ready         *)
          active_channels_, (* channels of this round not handled yet       *)
          pending_func_,    (* the vector the mutex protects                *)
          batch,            (* what HandlePendingFunc swapped out, not run  *)
          posts,            (* number of RunInLoop calls so far             *)
          done,             (* history: the functions run, in order         *)
          mark              (* history: posts at the last swap              *)

loopVars == <<looping_, pc, ready, active_channels_, pending_func_, batch,
              posts, done, mark>>

Threads == Posters \cup {LoopThread}

(* A function is identified by the thread that handed it over and a serial *)
(* number.                                                                 *)
Tasks == [by : Threads, no : 1 .. MaxPosts]

(* Positions of Loop(): not called yet; about to test looping_; in         *)
(* LoopOnce; in HandleActiveChannel; in HandlePendingFunc; returned.       *)
Positions == {"new", "test", "wait", "active", "pending", "ended"}

LoopTypeOK ==
    /\ looping_ \in BOOLEAN
    /\ pc \in Positions
    /\ ready \subseteq Channels
    /\ active_channels_ \subseteq Channels
    /\ pending_func_ \in Seq(Tasks)
    /\ batch \in Seq(Tasks)
    /\ posts \in 0 .. MaxPosts
    /\ done \in Seq(Tasks)
    /\ mark \in Nat

-----------------------------------------------------------------------------

LoopInit ==
    /\ looping_ = FALSE
    /\ pc = "new"
    /\ ready = {} /\ active_channels_ = {}
    /\ pending_func_ = <<>> /\ batch = <<>>
    /\ posts = 0 /\ done = <<>> /\ mark = 0

(* Loop() is called: whatever Stop() wrote before is overwritten.          *)
LoopStart ==
    /\ pc = "new"
    /\ pc' = "test" /\ looping_' = TRUE
    /\ UNCHANGED <<ready, active_channels_, pending_func_, batch, posts, done, mark>>

(* while (looping_) { active_channels_.clear(); ...                        *)
TestLooping ==
    /\ pc = "test"
    /\ pc' = IF looping_ THEN "wait" ELSE "ended"
    /\ active_channels_' = IF looping_ THEN {} ELSE active_channels_
    /\ UNCHANGED <<looping_, ready, pending_func_, batch, posts, done, mark>>

(* Mutant: at most one event per epoll_wait, always free to be the same.   *)
LoopOnceOneEvent ==
    /\ pc = "wait"
    /\ pc' = "active"
    /\ active_channels_' \in IF ready = {} THEN {{}} ELSE {{c} : c \in ready}
    /\ UNCHANGED <<looping_, ready, pending_func_, batch, posts, done, mark>>

(* epoll_wait returns every ready channel, or none of them after 20 ms.    *)
LoopOnce ==
    /\ pc = "wait"
    /\ pc' = "active" /\ active_channels_' = ready
    /\ UNCHANGED <<looping_, ready, pending_func_, batch, posts, done, mark>>

(* epoll_wait fails with EINTR: the round goes on with no active channel.  *)
LoopInterrupted ==
    /\ pc = "wait"
    /\ pc' = "active"
    /\ UNCHANGED <<looping_, ready, active_channels_, pending_func_, batch,
                   posts, done, mark>>

(* HandleEventWithGuard of one active channel; epoll is level triggered,   *)
(* so the channel stays ready if its handler left data behind.             *)
HandleActiveChannel(c) ==
    /\ pc = "active" /\ c \in active_channels_
    /\ active_channels_' = active_channels_ \ {c}
    /\ ready' \in {ready, ready \ {c}}
    /\ UNCHANGED <<looping_, pc, pending_func_, batch, posts, done, mark>>

(* Mutant: the vector is copied under the mutex and not cleared.           *)
SwapPendingCopies ==
    /\ pc = "active" /\ active_channels_ = {}
    /\ pc' = "pending" /\ batch' = pending_func_ /\ mark' = posts
    /\ UNCHANGED <<looping_, ready, active_channels_, pending_func_, posts, done>>

(* The locked section of HandlePendingFunc.                                *)
SwapPending ==
    /\ pc = "active" /\ active_channels_ = {}
    /\ pc' = "pending"
    /\ batch' = pending_func_ /\ pending_func_' = <<>>
    /\ mark' = posts
    /\ UNCHANGED <<looping_, ready, active_channels_, posts, done>>

(* Mutant: runs the functions off the member until it is empty.            *)
RunTaskUntilEmpty ==
    LET all == batch \o pending_func_ IN
    /\ pc = "pending" /\ all # <<>>
    /\ done' = Append(done, Head(all))
    /\ batch' = Tail(all) /\ pending_func_' = <<>>
    /\ UNCHANGED <<looping_, pc, ready, active_channels_, posts, mark>>

(* One func() of the loop over the swapped-out vector.                     *)
RunTask ==
    /\ pc = "pending" /\ batch # <<>>
    /\ done' = Append(done, Head(batch)) /\ batch' = Tail(batch)
    /\ UNCHANGED <<looping_, pc, ready, active_channels_, pending_func_, posts, mark>>

(* Mutant: leaves the loop over the batch before its end.                  *)
BatchDoneEarly ==
    /\ pc = "pending" /\ pc' = "test"
    /\ UNCHANGED <<looping_, ready, active_channels_, pending_func_, batch,
                   posts, done, mark>>

BatchDone ==
    /\ pc = "pending" /\ batch = <<>>
    /\ pc' = "test"
    /\ UNCHANGED <<looping_, ready, active_channels_, pending_func_, batch,
                   posts, done, mark>>

(* RunInLoop: append under the mutex.  The loop's own thread gets here     *)
(* only from a handler or from a function it is running.                   *)
RunInLoop(t) ==
    /\ posts < MaxPosts
    /\ t = LoopThread =>
          \/ pc = "active" /\ active_channels_ # {}
          \/ pc = "pending" /\ batch # <<>>
    /\ posts' = posts + 1
    /\ pending_func_' = Append(pending_func_, [by |-> t, no |-> posts + 1])
    /\ UNCHANGED <<looping_, pc, ready, active_channels_, batch, done, mark>>

Stop ==
    /\ looping_' = FALSE
    /\ UNCHANGED <<pc, ready, active_channels_, pending_func_, batch, posts,
                   done, mark>>

(* The environment: a descriptor becomes ready.                            *)
ChannelReady(c) ==
    /\ pc # "ended" /\ ready' = ready \cup {c}
    /\ UNCHANGED <<looping_, pc, active_channels_, pending_func_, batch, posts,
                   done, mark>>

(* The steps of the loop's own thread, except its calls of RunInLoop.      *)
LoopStep ==
    \/ LoopStart \/ TestLooping \/ LoopOnce \/ LoopInterrupted
    \/ \E c \in Channels : HandleActiveChannel(c)
    \/ SwapPending \/ RunTask \/ BatchDone

LoopNext ==
    \/ LoopStep
    \/ \E t \in Threads : RunInLoop(t)
    \/ \E c \in Channels : ChannelReady(c)
    \/ Stop

LoopSpec == LoopInit /\ [][LoopNext]_loopVars

-----------------------------------------------------------------------------
(* EventLoop.cpp:61-89: nothing handed to RunInLoop is lost, duplicated or *)
(* reordered between the two vectors, whatever the threads interleave.     *)
TQ == INSTANCE TaskQueue WITH posted <- done \o batch \o pending_func_
ImplementsTaskQueue == TQ!Spec

(* EventLoop.cpp:76-88: a round runs only functions handed over before its *)
(* swap.  A function that hands itself over again cannot keep the thread   *)
(* from going back to its channels.                                        *)
RoundIsBounded == Len(done) <= mark

(* Every function handed over is run, unless the loop is stopped.          *)
EveryTaskRuns ==
    \A n \in 1 .. MaxPosts : posts >= n ~> Len(done) >= n \/ pc = "ended"

(* A ready channel gets its turn, unless the loop is stopped, however many *)
(* functions are handed over and whatever the other channels do.           *)
EveryChannelServed ==
    \A c \in Channels : c \in ready ~> c \in active_channels_ \/ pc = "ended"
=============================================================================
