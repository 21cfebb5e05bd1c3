----------------------- MODULE EventLoopThreadProofs -----------------------
(***************************************************************************)
(* Proofs about EventLoop, for any number of threads, channels and calls,  *)
(* and about EventLoopThread, whenever the object is destroyed: the        *)
(* thread's life, and that the loop it runs does what is proved of every   *)
(* loop.                                                                   *)
(***************************************************************************)
EXTENDS EventLoopThread, SequenceTheorems, TLAPS

-----------------------------------------------------------------------------
(* Queues in two parts.                                                    *)

(* Appending to the last of two parts of a queue appends to the queue.     *)
LEMMA AppendToConcat ==
  ASSUME NEW S, NEW s \in Seq(S), NEW t \in Seq(S), NEW x \in S
  PROVE  Append(s \o t, x) = s \o Append(t, x)
<1> DEFINE lhs == Append(s \o t, x)
           rhs == s \o Append(t, x)
<1>1. /\ s \o t \in Seq(S)
      /\ Len(s \o t) = Len(s) + Len(t)
      /\ \A i \in 1 .. Len(s) + Len(t) :
            (s \o t)[i] = IF i <= Len(s) THEN s[i] ELSE t[i - Len(s)]
  BY ConcatProperties
<1>2. /\ Append(t, x) \in Seq(S)
      /\ Len(Append(t, x)) = Len(t) + 1
      /\ \A i \in 1 .. Len(t) : Append(t, x)[i] = t[i]
      /\ Append(t, x)[Len(t) + 1] = x
  BY AppendProperties
<1>3. Len(s) \in Nat /\ Len(t) \in Nat
  BY LenProperties
<1>4. /\ lhs \in Seq(S) /\ Len(lhs) = Len(s) + Len(t) + 1
      /\ \A i \in 1 .. Len(s) + Len(t) : lhs[i] = (s \o t)[i]
      /\ lhs[Len(s) + Len(t) + 1] = x
  BY <1>1, <1>3, AppendProperties
<1>5. /\ rhs \in Seq(S) /\ Len(rhs) = Len(s) + (Len(t) + 1)
      /\ \A i \in 1 .. Len(s) + (Len(t) + 1) :
            rhs[i] = IF i <= Len(s) THEN s[i] ELSE Append(t, x)[i - Len(s)]
  BY <1>2, ConcatProperties
<1> HIDE DEF lhs, rhs
<1>6. ASSUME NEW i \in 1 .. Len(lhs) PROVE lhs[i] = rhs[i]
  <2>1. Len(lhs) = Len(s) + Len(t) + 1
    BY <1>4
  <2>2. CASE i = Len(s) + Len(t) + 1
    <3>1. ~(i <= Len(s)) /\ i - Len(s) = Len(t) + 1
      BY <2>2, <1>3
    <3>2. rhs[i] = Append(t, x)[i - Len(s)]
      BY <2>2, <3>1, <1>3, <1>5
    <3> QED
      BY <2>2, <3>1, <3>2, <1>2, <1>4
  <2>3. CASE i \in 1 .. Len(s)
    <3>1. rhs[i] = s[i]
      BY <2>3, <1>3, <1>5
    <3>2. lhs[i] = s[i]
      BY <2>3, <1>1, <1>3, <1>4
    <3> QED
      BY <3>1, <3>2
  <2>4. CASE i \in Len(s) + 1 .. Len(s) + Len(t)
    <3>1. ~(i <= Len(s)) /\ i - Len(s) \in 1 .. Len(t)
      BY <2>4, <1>3
    <3>2. rhs[i] = Append(t, x)[i - Len(s)]
      BY <2>4, <3>1, <1>3, <1>5
    <3>3. lhs[i] = t[i - Len(s)]
      BY <2>4, <3>1, <1>1, <1>3, <1>4
    <3> QED
      BY <3>1, <3>2, <3>3, <1>2
  <2> QED
    BY <2>1, <2>2, <2>3, <2>4, <1>3
<1>7. lhs = rhs
  BY <1>3, <1>4, <1>5, <1>6, SeqEqual
<1> QED
  BY <1>7 DEF lhs, rhs

(* Moving the head of a queue to the end of what was served before it      *)
(* leaves the whole unchanged.                                             *)
LEMMA MoveHead ==
  ASSUME NEW S, NEW s \in Seq(S), NEW t \in Seq(S), t # <<>>
  PROVE  Append(s, Head(t)) \o Tail(t) = s \o t
<1>1. Head(t) \in S /\ Tail(t) \in Seq(S)
  BY HeadTailProperties
<1>2. Append(s, Head(t)) = s \o <<Head(t)>>
  BY <1>1, AppendIsConcat
<1>3. <<Head(t)>> \in Seq(S)
  BY <1>1
<1>4. (s \o <<Head(t)>>) \o Tail(t) = s \o (<<Head(t)>> \o Tail(t))
  BY <1>1, <1>3, ConcatAssociative
<1>5. <<Head(t)>> \o Tail(t) = t
  BY <1>1, <1>3, ConcatProperties, HeadTailProperties, SeqEqual
<1> QED
  BY <1>2, <1>4, <1>5

(* The element after the first part is the head of the second.             *)
LEMMA ElementAfter ==
  ASSUME NEW S, NEW s \in Seq(S), NEW t \in Seq(S), t # <<>>
  PROVE  /\ Len(s) < Len(s \o t)
         /\ (s \o t)[Len(s) + 1] = Head(t)
<1>1. Len(s) \in Nat /\ Len(t) \in Nat \ {0}
  BY LenProperties, EmptySeq
<1>2. /\ Len(s \o t) = Len(s) + Len(t)
      /\ \A i \in 1 .. Len(s) + Len(t) :
            (s \o t)[i] = IF i <= Len(s) THEN s[i] ELSE t[i - Len(s)]
  BY ConcatProperties
<1> QED
  BY <1>1, <1>2

-----------------------------------------------------------------------------
(* Any event loop.                                                         *)

(* The types of the loop's variables, kept by every step of Loop() and by  *)
(* every call of RunInLoop and Stop (EventLoop.cpp:27-89).                 *)
THEOREM LoopTypeCorrect == LoopSpec => []LoopTypeOK
<1>1. LoopInit => LoopTypeOK
  <2>1. <<>> \in Seq(Tasks)
    BY EmptySeq
  <2>2. 0 \in 0 .. MaxPosts /\ 0 \in Nat
    BY EventLoopAssumption
  <2> QED
    BY <2>1, <2>2 DEF LoopInit, LoopTypeOK, Positions
<1>2. LoopTypeOK /\ [LoopNext]_loopVars => LoopTypeOK'
  <2> SUFFICES ASSUME LoopTypeOK, [LoopNext]_loopVars
               PROVE  LoopTypeOK'
    OBVIOUS
  <2> USE DEF LoopTypeOK, Positions
  <2>1. CASE LoopStart
    BY <2>1 DEF LoopStart
  <2>2. CASE TestLooping
    BY <2>2 DEF TestLooping
  <2>3. CASE LoopOnce
    BY <2>3 DEF LoopOnce
  <2>4. CASE LoopInterrupted
    BY <2>4 DEF LoopInterrupted
  <2>5. ASSUME NEW c \in Channels, HandleActiveChannel(c)
        PROVE  LoopTypeOK'
    BY <2>5 DEF HandleActiveChannel
  <2>6. CASE SwapPending
    BY <2>6, EventLoopAssumption DEF SwapPending
  <2>7. CASE RunTask
    <3>1. Head(batch) \in Tasks /\ Tail(batch) \in Seq(Tasks)
      BY <2>7, HeadTailProperties DEF RunTask
    <3>2. Append(done, Head(batch)) \in Seq(Tasks)
      BY <3>1, AppendProperties
    <3> QED
      BY <2>7, <3>1, <3>2 DEF RunTask
  <2>8. CASE BatchDone
    BY <2>8 DEF BatchDone
  <2>9. ASSUME NEW t \in Threads, RunInLoop(t)
        PROVE  LoopTypeOK'
    <3>1. posts + 1 \in 1 .. MaxPosts
      BY <2>9, EventLoopAssumption DEF RunInLoop
    <3>2. [by |-> t, no |-> posts + 1] \in Tasks
      BY <3>1 DEF Tasks
    <3>3. pending_func_' \in Seq(Tasks)
      BY <2>9, <3>2, AppendProperties DEF RunInLoop
    <3> QED
      BY <2>9, <3>1, <3>3, EventLoopAssumption DEF RunInLoop
  <2>10. ASSUME NEW c \in Channels, ChannelReady(c)
         PROVE  LoopTypeOK'
    BY <2>10 DEF ChannelReady
  <2>11. CASE Stop
    BY <2>11 DEF Stop
  <2>12. CASE UNCHANGED loopVars
    BY <2>12 DEF loopVars
  <2> QED
    BY <2>1, <2>2, <2>3, <2>4, <2>5, <2>6, <2>7, <2>8, <2>9, <2>10, <2>11, <2>12
    DEF LoopNext, LoopStep
<1> QED
  BY <1>1, <1>2, PTL DEF LoopSpec

-----------------------------------------------------------------------------
(* The strengthening of RoundIsBounded: the batch is what the last swap    *)
(* took minus what has been run of it, and it is empty outside             *)
(* HandlePendingFunc, so a swap never overwrites a function not yet run.   *)
RoundInv ==
    /\ pc # "pending" => batch = <<>>
    /\ Len(done) + Len(batch) = mark
    /\ posts = mark + Len(pending_func_)

LEMMA RoundInvInit == LoopInit => RoundInv
  BY DEF LoopInit, RoundInv

LEMMA RoundInvStep ==
  ASSUME LoopTypeOK, RoundInv, [LoopNext]_loopVars
  PROVE  RoundInv'
<1> USE DEF LoopTypeOK, RoundInv, Positions
<1>1. CASE LoopStart
  BY <1>1 DEF LoopStart
<1>2. CASE TestLooping
  BY <1>2 DEF TestLooping
<1>3. CASE LoopOnce
  BY <1>3 DEF LoopOnce
<1>4. CASE LoopInterrupted
  BY <1>4 DEF LoopInterrupted
<1>5. ASSUME NEW c \in Channels, HandleActiveChannel(c)
      PROVE  RoundInv'
  BY <1>5 DEF HandleActiveChannel
<1>6. CASE SwapPending
  <2>1. batch = <<>> /\ Len(batch) = 0
    BY <1>6, EmptySeq DEF SwapPending
  <2>2. Len(done) = mark /\ posts = Len(done) + Len(batch')
    BY <1>6, <2>1, LenProperties DEF SwapPending
  <2>3. Len(pending_func_') = 0
    BY <1>6, EmptySeq DEF SwapPending
  <2> QED
    BY <1>6, <2>2, <2>3, EventLoopAssumption DEF SwapPending
<1>7. CASE RunTask
  <2>1. Len(done') = Len(done) + 1
    BY <1>7, HeadTailProperties, AppendProperties DEF RunTask
  <2>2. Len(batch') = Len(batch) - 1
    BY <1>7, HeadTailProperties DEF RunTask
  <2>3. Len(done) \in Nat /\ Len(batch) \in Nat
    BY LenProperties
  <2>4. Len(done') + Len(batch') = Len(done) + Len(batch)
    BY <2>1, <2>2, <2>3
  <2>5. pc' = pc /\ posts' = posts /\ mark' = mark /\ pending_func_' = pending_func_
    BY <1>7 DEF RunTask
  <2>6. pc = "pending"
    BY <1>7 DEF RunTask
  <2> QED
    BY <2>4, <2>5, <2>6
<1>8. CASE BatchDone
  BY <1>8 DEF BatchDone
<1>9. ASSUME NEW t \in Threads, RunInLoop(t)
      PROVE  RoundInv'
  <2>1. Len(pending_func_') = Len(pending_func_) + 1
    BY <1>9 DEF RunInLoop
  <2> QED
    BY <1>9, <2>1, LenProperties DEF RunInLoop
<1>10. ASSUME NEW c \in Channels, ChannelReady(c)
       PROVE  RoundInv'
  BY <1>10 DEF ChannelReady
<1>11. CASE Stop
  BY <1>11 DEF Stop
<1>12. CASE UNCHANGED loopVars
  BY <1>12 DEF loopVars
<1> QED
  BY <1>1, <1>2, <1>3, <1>4, <1>5, <1>6, <1>7, <1>8, <1>9, <1>10, <1>11, <1>12
  DEF LoopNext, LoopStep

LEMMA RoundInvHolds == LoopSpec => []RoundInv
  BY RoundInvInit, RoundInvStep, LoopTypeCorrect, PTL DEF LoopSpec

(* EventLoop.cpp:76-88: a function run in a round was handed over before   *)
(* that round's swap.                                                      *)
THEOREM RoundBounded == LoopSpec => []RoundIsBounded
<1>1. LoopTypeOK /\ RoundInv => RoundIsBounded
  BY LenProperties DEF LoopTypeOK, RoundInv, RoundIsBounded
<1> QED
  BY <1>1, LoopTypeCorrect, RoundInvHolds, PTL

-----------------------------------------------------------------------------
(* The functions handed over, as the abstract queue sees them.             *)
Handed == done \o batch \o pending_func_

LEMMA HandedStep ==
  ASSUME LoopTypeOK, RoundInv, [LoopNext]_loopVars
  PROVE  [TQ!Next]_<<Handed, done>>
<1> USE DEF LoopTypeOK
<1>1. ASSUME UNCHANGED <<done, batch, pending_func_>>
      PROVE  UNCHANGED <<Handed, done>>
  BY <1>1 DEF Handed
<1>2. CASE LoopStart \/ TestLooping \/ LoopOnce \/ LoopInterrupted \/ BatchDone \/ Stop
  BY <1>1, <1>2
  DEF LoopStart, TestLooping, LoopOnce, LoopInterrupted, BatchDone, Stop
<1>3. ASSUME NEW c \in Channels, HandleActiveChannel(c) \/ ChannelReady(c)
      PROVE  UNCHANGED <<Handed, done>>
  BY <1>1, <1>3 DEF HandleActiveChannel, ChannelReady
<1>4. CASE SwapPending
  <2>1. batch = <<>> /\ batch' = pending_func_ /\ pending_func_' = <<>> /\ done' = done
    BY <1>4 DEF SwapPending, RoundInv
  <2>2. Handed = done \o pending_func_
    BY <2>1, ConcatEmptySeq DEF Handed
  <2>3. done \o pending_func_ \in Seq(Tasks)
    BY ConcatProperties
  <2>4. Handed' = (done \o pending_func_) \o <<>>
    BY <2>1 DEF Handed
  <2> QED
    BY <2>1, <2>2, <2>3, <2>4, ConcatEmptySeq
<1>5. CASE RunTask
  <2>1. /\ batch # <<>>
        /\ done' = Append(done, Head(batch))
        /\ batch' = Tail(batch)
        /\ pending_func_' = pending_func_
    BY <1>5 DEF RunTask
  <2>2. done' \o batch' = done \o batch
    BY <2>1, MoveHead
  <2>3. Handed' = Handed
    BY <2>1, <2>2 DEF Handed
  <2>4. /\ Len(done) < Len(done \o batch)
        /\ (done \o batch)[Len(done) + 1] = Head(batch)
    BY <2>1, ElementAfter
  <2>5. /\ Len(done) < Len(Handed)
        /\ Handed[Len(done) + 1] = Head(batch)
    <3>1. Len(done) \in Nat /\ Len(done \o batch) \in Nat /\ Len(pending_func_) \in Nat
      BY ConcatProperties, LenProperties
    <3>2. done \o batch \in Seq(Tasks)
      BY ConcatProperties
    <3>3. /\ Len(Handed) = Len(done \o batch) + Len(pending_func_)
          /\ \A i \in 1 .. Len(done \o batch) : Handed[i] = (done \o batch)[i]
      BY <3>1, <3>2, ConcatProperties DEF Handed
    <3> QED
      BY <2>4, <3>1, <3>3
  <2> QED
    BY <2>1, <2>3, <2>5 DEF TQ!Next, TQ!Run, Handed
<1>6. ASSUME NEW t \in Threads, RunInLoop(t)
      PROVE  TQ!Next
  <2> DEFINE f == [by |-> t, no |-> posts + 1]
  <2>1. pending_func_' = Append(pending_func_, f) /\ done' = done /\ batch' = batch
    BY <1>6 DEF RunInLoop
  <2>2. f \in Tasks
    BY <1>6, EventLoopAssumption DEF RunInLoop, Tasks
  <2>3. done \o batch \in Seq(Tasks)
    BY ConcatProperties
  <2>4. Handed' = Append(Handed, f)
    BY <2>1, <2>2, <2>3, AppendToConcat DEF Handed
  <2>5. TQ!Post(f)
    BY <2>1, <2>4 DEF TQ!Post, Handed
  <2> QED
    BY <2>2, <2>5 DEF TQ!Next
<1>7. CASE UNCHANGED loopVars
  BY <1>1, <1>7 DEF loopVars
<1> QED
  BY <1>2, <1>3, <1>4, <1>5, <1>6, <1>7 DEF LoopNext, LoopStep

(* EventLoop.cpp:61-89: RunInLoop and HandlePendingFunc implement the      *)
(* queue: every function handed over is run at most once, in order.        *)
THEOREM LoopImplementsTaskQueue == LoopSpec => ImplementsTaskQueue
<1>1. LoopInit => TQ!Init
  BY ConcatEmptySeq, EmptySeq DEF LoopInit, TQ!Init
<1>2. LoopTypeOK /\ RoundInv /\ [LoopNext]_loopVars => [TQ!Next]_<<Handed, done>>
  BY HandedStep
<1> QED
  BY <1>1, <1>2, LoopTypeCorrect, RoundInvHolds, PTL
  DEF LoopSpec, ImplementsTaskQueue, TQ!Spec, Handed


-----------------------------------------------------------------------------
(* Seen from the loop, every step of the owner and of the thread is a step *)
(* of EventLoop or none.                                                   *)
LEMMA StepOfLoop == [Next]_vars => [LoopNext]_loopVars
<1> SUFFICES ASSUME [Next]_vars
             PROVE  [LoopNext]_loopVars
  OBVIOUS
<1>1. CASE LoopRuns
  BY <1>1 DEF LoopRuns, LoopNext, Threads
<1>2. CASE OwnerPosts
  BY <1>2 DEF OwnerPosts, LoopNext, Threads
<1>3. CASE Destroy
  BY <1>3 DEF Destroy, LoopNext
<1>4. CASE PublishLoop \/ ThreadEnds \/ StartReturns \/ SpuriousWakeup \/ Joined
  BY <1>4 DEF PublishLoop, ThreadEnds, StartReturns, StartThread, CheckLoop,
              SpuriousWakeup, Joined
<1>5. CASE UNCHANGED vars
  BY <1>5 DEF vars
<1> QED
  BY <1>1, <1>2, <1>3, <1>4, <1>5 DEF Next, IoThread

LEMMA ThreadRunsLoop == Spec => LoopSpec
<1>1. Init => LoopInit
  BY DEF Init
<1> QED
  BY <1>1, StepOfLoop, PTL DEF Spec, LoopSpec

(* The types of the loop's and the object's variables.                     *)
THEOREM ThreadTypeCorrect == Spec => []TypeOK
<1> DEFINE Own == /\ loop_ \in BOOLEAN
                  /\ thread \in {"none", "created", "running", "ended"}
                  /\ owner \in OwnerPositions
<1>1. Init => Own
  BY DEF Init, OwnerPositions
<1>2. Own /\ [Next]_vars => Own'
  BY DEF OwnerPositions, Next, IoThread, StartReturns, PublishLoop, LoopRuns,
         ThreadEnds, StartThread, CheckLoop, SpuriousWakeup, OwnerPosts, Destroy,
         Joined, vars
<1>3. LoopTypeOK /\ Own => TypeOK
  BY DEF TypeOK
<1> QED
  BY <1>1, <1>2, <1>3, ThreadRunsLoop, LoopTypeCorrect, PTL DEF Spec

-----------------------------------------------------------------------------
(* How far the thread has got, by where the owner is.  The loop goes on    *)
(* until it is told to stop, which the owner does as it begins to join, so *)
(* nobody who got the pointer from Start() sees the loop end.              *)
LifeInv ==
    /\ loop_ <=> thread = "running"
    /\ owner = "new" => thread = "none"
    /\ owner \in {"check", "asleep"} => thread \in {"created", "running"}
    /\ owner = "running" => thread = "running"
    /\ owner = "joining" => thread \in {"running", "ended"}
    /\ owner = "gone" => thread \in {"none", "ended"}
    /\ owner \in {"new", "check", "asleep", "running"} =>
          pc # "ended" /\ (pc = "new" \/ looping_)

(* The loop's own steps end it only after it was told to stop.             *)
LEMMA LoopGoesOn ==
  ASSUME pc # "ended", pc = "new" \/ looping_,
         \/ LoopStep
         \/ RunInLoop(LoopThread)
         \/ \E t \in Posters : RunInLoop(t)
         \/ \E c \in Channels : ChannelReady(c)
  PROVE  pc' # "ended" /\ (pc' = "new" \/ looping_')
  BY DEF LoopStep, LoopStart, TestLooping, LoopOnce, LoopInterrupted,
         HandleActiveChannel, SwapPending, RunTask, BatchDone, RunInLoop, ChannelReady

LEMMA LifeInvStep ==
  ASSUME LifeInv, [Next]_vars
  PROVE  LifeInv'
<1> USE DEF LifeInv
<1>1. CASE StartThread
  BY <1>1 DEF StartThread, loopVars
<1>2. CASE CheckLoop
  BY <1>2 DEF CheckLoop, loopVars
<1>3. CASE SpuriousWakeup
  BY <1>3 DEF SpuriousWakeup, loopVars
<1>4. CASE PublishLoop
  BY <1>4 DEF PublishLoop, loopVars
<1>5. CASE LoopRuns
  <2>1. UNCHANGED <<loop_, thread, owner>>
    BY <1>5 DEF LoopRuns
  <2>2. \/ LoopStep
        \/ RunInLoop(LoopThread)
        \/ \E c \in Channels : ChannelReady(c)
    BY <1>5 DEF LoopRuns
  <2>3. pc # "ended" /\ (pc = "new" \/ looping_) =>
           pc' # "ended" /\ (pc' = "new" \/ looping_')
    BY <2>2, LoopGoesOn
  <2> QED
    BY <2>1, <2>3
<1>6. CASE ThreadEnds
  BY <1>6 DEF ThreadEnds, loopVars
<1>7. CASE OwnerPosts
  <2>1. UNCHANGED <<loop_, thread, owner>> /\ \E t \in Posters : RunInLoop(t)
    BY <1>7 DEF OwnerPosts
  <2>2. pc # "ended" /\ (pc = "new" \/ looping_) =>
           pc' # "ended" /\ (pc' = "new" \/ looping_')
    BY <2>1, LoopGoesOn
  <2> QED
    BY <2>1, <2>2
<1>8. CASE Destroy
  BY <1>8 DEF Destroy
<1>9. CASE Joined
  BY <1>9 DEF Joined, loopVars
<1>10. CASE UNCHANGED vars
  BY <1>10 DEF vars, loopVars
<1> QED
  BY <1>1, <1>2, <1>3, <1>4, <1>5, <1>6, <1>7, <1>8, <1>9, <1>10
  DEF Next, IoThread, StartReturns

LEMMA LifeInvHolds == Spec => []LifeInv
<1>1. Init => LifeInv
  BY DEF Init, LoopInit, LifeInv
<1> QED
  BY <1>1, LifeInvStep, PTL DEF Spec

(* EventLoopThread.cpp:26-41: whoever has the pointer Start() returned has *)
(* a loop that still runs, even if the destructor may come at any moment.  *)
THEOREM OwnerLoopLives == Spec => []OwnerHoldsLiveLoop
<1>1. LifeInv => OwnerHoldsLiveLoop
  BY DEF LifeInv, OwnerHoldsLiveLoop
<1> QED
  BY <1>1, LifeInvHolds, PTL

(* EventLoopThread.cpp:17-24: the destructor returns after ThreadFunc.     *)
THEOREM ThreadEndsFirst == Spec => []DestroyedAfterThread
<1>1. LifeInv => DestroyedAfterThread
  BY DEF LifeInv, DestroyedAfterThread
<1> QED
  BY <1>1, LifeInvHolds, PTL

-----------------------------------------------------------------------------
(* EventLoop.cpp:76-88, for a loop on its own thread: a round runs only    *)
(* functions handed over before its swap.                                  *)
THEOREM ThreadRoundBounded == Spec => []RoundIsBounded
  BY ThreadRunsLoop, RoundBounded, PTL

(* EventLoop.cpp:61-89, for a loop on its own thread: the functions handed *)
(* over to it form one queue, from Start() until the loop is destroyed.    *)
THEOREM ThreadImplementsTaskQueue == Spec => ImplementsTaskQueue
  BY ThreadRunsLoop, LoopImplementsTaskQueue, PTL
=============================================================================
