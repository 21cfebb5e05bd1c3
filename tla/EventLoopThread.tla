-------------------------- MODULE EventLoopThread --------------------------
(***************************************************************************)
(* EventLoopThread: the object that owns one io thread and its EventLoop   *)
(* (network/EventLoopThread.cpp).  Start() creates the thread and sleeps   *)
(* on a condition variable until the thread has published loop_; the       *)
(* destructor stops the loop and joins the thread.                         *)
(*                                                                         *)
(* The EventLoop is a local variable of ThreadFunc: the module EventLoop   *)
(* gives the steps of that thread between publishing loop_ and clearing it.*)
(***************************************************************************)
EXTENDS EventLoop

CONSTANT Owner          (* the thread that starts and destroys the object  *)

ASSUME OwnerAssumption == Owner \in Posters

VARIABLES loop_,        (* the member loop_ is not nullptr                 *)
          thread,       (* the io thread                                   *)
          owner         (* where the owner is                              *)

vars == <<loopVars, loop_, thread, owner>>

(* The owner: object constructed; in the while of Start(); asleep in       *)
(* cond_.Wait(); holds the returned EventLoop*; in thread_.Join(); the     *)
(* object is destroyed.                                                    *)
OwnerPositions == {"new", "check", "asleep", "running", "joining", "gone"}

TypeOK ==
    /\ LoopTypeOK
    /\ loop_ \in BOOLEAN
    /\ thread \in {"none", "created", "running", "ended"}
    /\ owner \in OwnerPositions

Init ==
    /\ LoopInit
    /\ loop_ = FALSE /\ thread = "none" /\ owner = "new"

-----------------------------------------------------------------------------
(* Start().                                                                *)

StartThread ==
    /\ owner = "new" /\ owner' = "check"
    /\ thread' = "created"
    /\ UNCHANGED <<loopVars, loop_>>

(* while (loop_ == nullptr) cond_.Wait(): tested with the mutex held, which *)
(* Wait() releases in the same step as it goes to sleep.                   *)
CheckLoop ==
    /\ owner = "check"
    /\ owner' = IF loop_ THEN "running" ELSE "asleep"
    /\ UNCHANGED <<loopVars, loop_, thread>>

(* Mutant: if instead of while around cond_.Wait().                        *)
SpuriousWakeupReturns ==
    /\ owner = "asleep" /\ owner' = "running"
    /\ UNCHANGED <<loopVars, loop_, thread>>

SpuriousWakeup ==
    /\ owner = "asleep" /\ owner' = "check"
    /\ UNCHANGED <<loopVars, loop_, thread>>

-----------------------------------------------------------------------------
(* ThreadFunc().                                                           *)

(* Mutant: the condition is not signalled.                                 *)
PublishLoopSilently ==
    /\ thread = "created" /\ thread' = "running"
    /\ loop_' = TRUE
    /\ UNCHANGED <<loopVars, owner>>

(* loop_ = &loop and WakeUpOne(), with the mutex held.                     *)
PublishLoop ==
    /\ thread = "created" /\ thread' = "running"
    /\ loop_' = TRUE
    /\ owner' = IF owner = "asleep" THEN "check" ELSE owner
    /\ UNCHANGED loopVars

(* loop.Loop(), while the thread runs it.                                  *)
LoopRuns ==
    /\ thread = "running"
    /\ \/ LoopStep
       \/ RunInLoop(LoopThread)
       \/ \E c \in Channels : ChannelReady(c)
    /\ UNCHANGED <<loop_, thread, owner>>

(* Mutant: the destructor holds mutex_ while it joins the thread.          *)
ThreadEndsUnlessJoined ==
    /\ thread = "running" /\ pc = "ended" /\ owner # "joining"
    /\ thread' = "ended" /\ loop_' = FALSE
    /\ UNCHANGED <<loopVars, owner>>

(* loop_ = nullptr, with the mutex held; the EventLoop is destroyed as     *)
(* ThreadFunc returns.                                                     *)
ThreadEnds ==
    /\ thread = "running" /\ pc = "ended"
    /\ thread' = "ended" /\ loop_' = FALSE
    /\ UNCHANGED <<loopVars, owner>>

-----------------------------------------------------------------------------
(* The owner, and whoever it gives the pointer Start() returned, as a      *)
(* TcpServer does, hand functions over.                                    *)
OwnerPosts ==
    /\ owner = "running"
    /\ \E t \in Posters : RunInLoop(t)
    /\ UNCHANGED <<loop_, thread, owner>>

(* Mutant: the destructor does not join the thread.                        *)
DestroyWithoutJoin ==
    /\ owner \in {"new", "running"}
    /\ owner' = "gone"
    /\ IF loop_ THEN Stop ELSE UNCHANGED loopVars
    /\ UNCHANGED <<loop_, thread>>

(* ~EventLoopThread(): loop_ is read without the mutex; it is nullptr if   *)
(* Start() was never called.  The loop may not have begun by then.         *)
Destroy ==
    /\ owner \in {"new", "running"}
    /\ \/ loop_ /\ Stop /\ owner' = "joining"
       \/ ~loop_ /\ owner' = "gone" /\ UNCHANGED loopVars
    /\ UNCHANGED <<loop_, thread>>

(* thread_.Join() returns.                                                 *)
Joined ==
    /\ owner = "joining" /\ thread = "ended"
    /\ owner' = "gone"
    /\ UNCHANGED <<loopVars, loop_, thread>>

IoThread == PublishLoop \/ LoopRuns \/ ThreadEnds
StartReturns == StartThread \/ CheckLoop

Next ==
    \/ IoThread
    \/ StartReturns \/ SpuriousWakeup
    \/ OwnerPosts \/ Destroy \/ Joined

Spec == Init /\ [][Next]_vars

(* Both threads are scheduled, and signals do not interrupt every single   *)
(* wait of the loop.  Nothing is assumed of spurious wake-ups, and the     *)
(* owner need never destroy the object.                                    *)
InThread(A) == thread = "running" /\ A /\ UNCHANGED <<loop_, thread, owner>>

ThreadStep == PublishLoop \/ ThreadEnds \/ InThread(LoopStep)

FairSpec ==
    /\ Spec
    /\ WF_vars(ThreadStep)
    /\ SF_vars(InThread(LoopOnce))
    /\ WF_vars(StartReturns)
    /\ WF_vars(Joined)

-----------------------------------------------------------------------------
(* EventLoopThread.cpp:26-41: the pointer Start() returns designates a     *)
(* loop that exists for as long as the owner may hand functions to it.     *)
OwnerHoldsLiveLoop == owner = "running" => thread = "running" /\ loop_

(* EventLoopThread.cpp:20-24 joins: once the object is gone, its thread no *)
(* longer runs and touches none of its members.                            *)
DestroyedAfterThread == owner = "gone" => thread \in {"none", "ended"}

(* EventLoopThread.cpp:32-37: the wake-up cannot be lost, Start() returns. *)
StartTerminates == owner = "check" ~> owner \in {"running", "joining", "gone"}

(* EventLoopThread.cpp:19-23, 52-54, EventLoop.cpp:27-45: a Stop() that    *)
(* was not overwritten ends the loop, and the destructor returns.          *)
DestroyTerminates ==
    owner = "joining" /\ pc # "new" /\ ~looping_ ~> owner = "gone"

-----------------------------------------------------------------------------
(* What the code does not do.                                              *)

(* EventLoopThread.cpp:17-24: the destructor returns.  Start() returns     *)
(* before the loop has begun, and EventLoop.cpp:29 then overwrites what    *)
(* Stop() wrote: the loop never ends.                                      *)
DestructorReturns == owner = "joining" ~> owner = "gone"
=============================================================================
