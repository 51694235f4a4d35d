------------------------------- MODULE Clock -------------------------------
(***************************************************************************)
(* The Clock replacement policy (second chance), as the server thread and  *)
(* every private cache use it.  A frame's state is 0 when it is not in the *)
(* clock, 2 when it was pushed or accessed since the hand last cleared it, *)
(* 1 when the hand has cleared it and may take it.  The two loops of pop   *)
(* are modelled one iteration per step.                                    *)
(***************************************************************************)
EXTENDS Integers, FiniteSets

CONSTANTS
    max_ppage_id,  \* number of frames
    MaxLoops       \* bound of the loop that looks for the frame to prefetch, 1024

ASSUME SizeAssumption == max_ppage_id \in Nat \ {0} /\ MaxLoops \in Nat \ {0}

PPages == 0 .. max_ppage_id - 1

None == -1

VARIABLES
    states, hand, count,
    pop_pc,  \* "idle", or the loop of pop the thread is in: "sweep", "prefetch"
    loops,   \* iterations left of the prefetch loop
    popped,  \* del_hand: the frame the last pop took
    age      \* history: pops since the frame was last pushed

clock_vars == <<states, hand, count, pop_pc, loops, popped, age>>

InClock == {p \in PPages : states[p] # 0}

ClockTypeOK ==
    /\ states \in [PPages -> 0..2]
    /\ hand \in PPages
    /\ count \in Nat
    /\ pop_pc \in {"idle", "sweep", "prefetch"}
    /\ loops \in 0..MaxLoops
    /\ popped \in PPages \cup {None}
    /\ age \in [PPages -> Nat]

ClockInit ==
    /\ states = [p \in PPages |-> 0]
    /\ hand = 0
    /\ count = 0
    /\ pop_pc = "idle"
    /\ loops = 0
    /\ popped = None
    /\ age = [p \in PPages |-> 0]

\* push of a frame that is not in the clock
Push(p) ==
    /\ pop_pc = "idle"
    /\ states[p] = 0
    /\ count' = count + 1
    /\ states' = [states EXCEPT ![p] = 2]
    /\ age' = [age EXCEPT ![p] = 0]
    /\ UNCHANGED <<hand, pop_pc, loops, popped>>

\* push of a frame that is in the clock already: access
Access(p) ==
    /\ pop_pc = "idle"
    /\ states[p] # 0
    /\ states' = [states EXCEPT ![p] = 2]
    /\ age' = [age EXCEPT ![p] = 0]
    /\ UNCHANGED <<hand, count, pop_pc, loops, popped>>

Removed(p) == states' = [states EXCEPT ![p] = 0] /\ count' = count - 1

Erase(p) ==
    /\ pop_pc = "idle"
    /\ states[p] # 0
    /\ Removed(p)
    /\ age' = [age EXCEPT ![p] = 0]
    /\ UNCHANGED <<hand, pop_pc, loops, popped>>

\* Mutant: every pop starts at the first frame.
PopCalledRestarts ==
    /\ pop_pc = "idle"
    /\ count > 0
    /\ pop_pc' = "sweep"
    /\ hand' = 0
    /\ UNCHANGED <<states, count, loops, popped, age>>

\* pop is called; its caller has to make sure that there is a frame.
PopCalled ==
    /\ pop_pc = "idle"
    /\ count > 0
    /\ pop_pc' = "sweep"
    /\ UNCHANGED <<states, hand, count, loops, popped, age>>

Advance == hand' = (hand + 1) % max_ppage_id

\* Mutant: the hand stops at a frame that is not in the clock.
TakeableAbsent == states[hand] # 2

\* Mutant: the hand does not take the second chance away.
ClearedNever(s) == s

Takeable == states[hand] = 1

Cleared(s) == IF s = 2 THEN 1 ELSE s

\* The hand passes a frame, taking away its second chance.
Sweep ==
    /\ pop_pc = "sweep"
    /\ ~Takeable
    /\ states' = [states EXCEPT ![hand] = Cleared(@)]
    /\ Advance
    /\ UNCHANGED <<count, pop_pc, loops, popped, age>>

\* The hand is at a frame without a second chance: this one is popped.
TakeFrame ==
    /\ pop_pc = "sweep"
    /\ Takeable
    /\ Removed(hand)
    /\ popped' = hand
    /\ age' = [p \in PPages |-> IF states[p] = 0 \/ p = hand THEN 0 ELSE age[p] + 1]
    /\ pop_pc' = "prefetch"
    /\ loops' = MaxLoops
    /\ UNCHANGED hand

\* The hand moves on to the next frame without a second chance, which becomes the
\* prefetch hint; this loop clears nothing.
Prefetch ==
    /\ pop_pc = "prefetch"
    /\ ~Takeable
    /\ loops' = loops - 1
    /\ IF loops > 1 THEN Advance /\ UNCHANGED pop_pc ELSE pop_pc' = "idle" /\ UNCHANGED hand
    /\ UNCHANGED <<states, count, popped, age>>

PopReturns ==
    /\ pop_pc = "prefetch"
    /\ Takeable
    /\ pop_pc' = "idle"
    /\ loops' = 0
    /\ UNCHANGED <<states, hand, count, popped, age>>

PopStep == Sweep \/ TakeFrame \/ Prefetch \/ PopReturns

ClockNext ==
    \/ \E p \in PPages : Push(p) \/ Access(p) \/ Erase(p)
    \/ PopCalled
    \/ PopStep

ClockSpec == ClockInit /\ [][ClockNext]_clock_vars

\* A thread inside pop runs on.
ClockFairSpec == ClockSpec /\ WF_clock_vars(PopStep)

-----------------------------------------------------------------------------
\* A frame that is not accessed again is not starved, however the others are pushed
\* and accessed in between.  With every jump over it the prefetch loop starts from a
\* frame further away, so there are less than MaxLoops jumps, and between two of
\* them the hand takes at most every other frame once.
SecondChanceBound ==
    \A p \in PPages :
        /\ age[p] <= (MaxLoops + 1) * (max_ppage_id - 1)
        /\ age[p] <= max_ppage_id * (max_ppage_id - 1)

\* What SharedCache assumes of its replacement policy, of the frames in the clock.
R == INSTANCE Replacement WITH pages <- InClock

\* Frames not in the clock never come out of pop, and pop takes exactly one frame.
ImplementsReplacement == R!Spec

\* pop terminates: the hand reaches a frame it may take, and the prefetch loop ends.
PopTerminates == pop_pc # "idle" ~> pop_pc = "idle"
=============================================================================
