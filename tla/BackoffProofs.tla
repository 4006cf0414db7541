--------------------------- MODULE BackoffProofs ---------------------------
(* Proofs about Backoff, for any uptimes. *)
EXTENDS Backoff, TLAPS

-----------------------------------------------------------------------------
\* Inductive: the next delay is the next of the sequence.
IInv ==
    /\ TypeOK
    /\ \/ restarted = FALSE /\ backoff = 0 /\ quick = 0 /\ BackoffSeconds = 1
       \/ /\ restarted = TRUE
          /\ \/ quick = 0 /\ backoff = 1 /\ BackoffSeconds = 1
             \/ quick = 1 /\ backoff = 1 /\ BackoffSeconds = 2
             \/ quick = 2 /\ backoff = 2 /\ BackoffSeconds = 4
             \/ quick = 3 /\ backoff = 4 /\ BackoffSeconds = 8
             \/ quick = 4 /\ backoff = 8 /\ BackoffSeconds = 16
             \/ quick = 5 /\ backoff = 16 /\ BackoffSeconds = 32
             \/ quick = 6 /\ backoff = 32 /\ BackoffSeconds = 60
             \/ quick = 7 /\ backoff = 60 /\ BackoffSeconds = 60

\* The invariant holds before the first exit.
LEMMA InitIInv == Init => IInv
<1> SUFFICES ASSUME Init PROVE IInv
  OBVIOUS
<1>1. BackoffSeconds \in Nat /\ backoff \in Nat /\ quick \in 0 .. 7
  BY DEF Init
<1>2. restarted \in BOOLEAN /\ uptime \in Uptimes \cup {0}
  BY DEF Init
<1>3. QED
  BY <1>1, <1>2 DEF Init, IInv, TypeOK, Steps

\* Every restart keeps it.
LEMMA StepIInv ==
    ASSUME IInv, [Next]_vars
    PROVE  IInv'
<1>1. CASE UNCHANGED vars
  BY <1>1 DEF vars, IInv, TypeOK
<1>2. ASSUME NEW up \in Uptimes, Exited(up)
      PROVE  IInv'
  <2>1. CASE Reset(up)
    BY <1>2, <2>1 DEF Exited, Reset, IInv, TypeOK, Steps
  <2>2. CASE Grow(up)
    BY <1>2, <2>2 DEF Exited, Grow, Doubled, Delay, AtMost, MaxBackoff, IInv, TypeOK, Steps
  <2>3. QED
    BY <1>2, <2>1, <2>2 DEF Exited
<1>3. QED
  BY <1>1, <1>2 DEF Next

\* supervisor.go 585: the delays are 1, 2, 4, 8, 16, 32, 60, 60, ... seconds.
THEOREM DelaysFollowSequence == Spec => []FollowsSequence
<1>1. IInv => FollowsSequence
  BY DEF IInv, TypeOK, FollowsSequence, Sequence
<1>2. QED
  BY <1>1, InitIInv, StepIInv, PTL DEF Spec

\* supervisor.go 596: the delay shrinks only 5 minutes or more after the last restart.
THEOREM DelaysShrinkOnlyAfterLong == Spec => ShrinksOnlyAfterLong
<1>1. IInv /\ [Next]_vars => [backoff' < backoff => backoff + uptime' > HealthyAfter]_vars
  <2> SUFFICES ASSUME IInv, NEW up \in Uptimes, Exited(up), backoff' < backoff
               PROVE  backoff + uptime' > HealthyAfter
    BY DEF Next
  <2>1. CASE Reset(up)
    BY <2>1 DEF Exited, Reset, LongSince
  <2>2. CASE Grow(up)
    BY <2>2 DEF Grow, Delay, AtMost, MaxBackoff, IInv
  <2>3. QED
    BY <2>1, <2>2 DEF Exited
<1>2. QED
  BY <1>1, InitIInv, StepIInv, PTL DEF Spec, ShrinksOnlyAfterLong

=============================================================================
