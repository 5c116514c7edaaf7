------------------------- MODULE FrameMailboxProofs -------------------------
(***************************************************************************)
(* What TLC checks of FrameMailbox for two threads and six frames, proved  *)
(* for every set of threads and every number of frames: the type           *)
(* invariant, the single callback, the absence of stranded frames, the     *)
(* exact count, and that each step is a step of LatestFrame or a stutter.  *)
(***************************************************************************)
EXTENDS FrameMailbox, TLAPS

\* The slot holds the newest frame, and what the loop took before is older.
Newest ==
    /\ latest \in {NoFrame, sent}
    /\ held <= sent /\ handled <= sent
    /\ latest # NoFrame => held < latest /\ handled < latest
    /\ held # NoFrame => handled < held

\* A thread is refused only by a closed loop.
RefusedByClosed == \A t \in Threads : pc[t] = "refused" => ~running

\* The inductive invariant.
IInv ==
    /\ TypeOK
    /\ AtMostOneCallback
    /\ NoStrandedFrame
    /\ RefusedByClosed
    /\ Newest
    /\ Conservation

\* The initial state satisfies the inductive invariant.
LEMMA InitIInv == Init => IInv
<1> SUFFICES ASSUME Init PROVE IInv
    OBVIOUS
<1> USE FramesAssumption DEF Init, NoFrame
<1>1. TypeOK
    <2>1. /\ latest \in 0 .. MaxFrames /\ held \in 0 .. MaxFrames
          /\ handled \in 0 .. MaxFrames /\ sent \in 0 .. MaxFrames
        OBVIOUS
    <2>2. coalesced \in Nat /\ queued \in Nat /\ delivered \in Nat
        OBVIOUS
    <2>3. pc \in [Threads -> {"idle", "waking", "refused"}]
        OBVIOUS
    <2>4. scheduled \in BOOLEAN /\ running \in BOOLEAN
        OBVIOUS
    <2> QED BY <2>1, <2>2, <2>3, <2>4 DEF TypeOK
<1>2. AtMostOneCallback
    BY DEF AtMostOneCallback, Busy
<1>3. NoStrandedFrame /\ RefusedByClosed /\ Newest
    BY DEF NoStrandedFrame, RefusedByClosed, Newest
<1>4. Conservation
    BY DEF Conservation, Outstanding
<1> QED BY <1>1, <1>2, <1>3, <1>4 DEF IInv

\* The variables stay in their types.
LEMMA NextTypeOK == TypeOK /\ AtMostOneCallback /\ [Next]_vars => TypeOK'
<1> SUFFICES ASSUME TypeOK, AtMostOneCallback, [Next]_vars PROVE TypeOK'
    OBVIOUS
<1> USE FramesAssumption DEF TypeOK, NoFrame
<1>1. ASSUME NEW t \in Threads, Put(t) PROVE TypeOK'
    <2>1. sent' \in 0 .. MaxFrames /\ latest' \in 0 .. MaxFrames
        BY <1>1 DEF Put
    <2>2. pc' \in [Threads -> {"idle", "waking", "refused"}]
        BY <1>1 DEF Put
    <2>3. scheduled' \in BOOLEAN /\ coalesced' \in Nat
        BY <1>1 DEF Put
    <2> QED BY <1>1, <2>1, <2>2, <2>3 DEF Put, loop
<1>2. ASSUME NEW t \in Threads, Wake(t) PROVE TypeOK'
    BY <1>2 DEF Wake, mailbox
<1>3. ASSUME NEW t \in Threads, Unschedule(t) PROVE TypeOK'
    BY <1>3 DEF Unschedule, loop
<1>4. CASE Deliver
    <2>1. queued' \in Nat
        BY <1>4 DEF Deliver
    <2>2. latest' \in 0 .. MaxFrames /\ held' \in 0 .. MaxFrames
        BY <1>4 DEF Deliver
    <2>3. scheduled' \in BOOLEAN
        BY <1>4 DEF Deliver
    <2> QED BY <1>4, <2>1, <2>2, <2>3 DEF Deliver
<1>5. CASE Handle
    BY <1>5 DEF Handle, mailbox
<1>6. CASE Close
    BY <1>6 DEF Close, mailbox
<1>7. CASE UNCHANGED vars
    BY <1>7 DEF vars, mailbox, loop
<1> QED BY <1>1, <1>2, <1>3, <1>4, <1>5, <1>6, <1>7 DEF Next

\* The flag stands for one wake-up, whatever the step.
LEMMA NextOneCallback ==
    TypeOK /\ AtMostOneCallback /\ [Next]_vars => AtMostOneCallback'
<1> SUFFICES ASSUME TypeOK, AtMostOneCallback, [Next]_vars PROVE AtMostOneCallback'
    OBVIOUS
<1> USE DEF TypeOK, AtMostOneCallback, Busy, NoFrame
<1>1. ASSUME NEW t \in Threads, Put(t) PROVE AtMostOneCallback'
    <2>1. CASE scheduled
        <3>1. pc' = pc /\ queued' = queued /\ scheduled' = TRUE
            BY <1>1, <2>1 DEF Put, loop
        <3> QED BY <2>1, <3>1
    <2>2. CASE ~scheduled
        <3>1. pc' = [pc EXCEPT ![t] = "waking"] /\ queued' = queued /\ scheduled' = TRUE
            BY <1>1, <2>2 DEF Put, loop
        <3>2. queued = 0 /\ \A u \in Threads : pc[u] = "idle"
            BY <2>2
        <3> QED BY <3>1, <3>2
    <2> QED BY <2>1, <2>2
<1>2. ASSUME NEW t \in Threads, Wake(t) PROVE AtMostOneCallback'
    BY <1>2 DEF Wake, mailbox
<1>3. ASSUME NEW t \in Threads, Unschedule(t) PROVE AtMostOneCallback'
    BY <1>3 DEF Unschedule, loop
<1>4. CASE Deliver
    BY <1>4 DEF Deliver
<1>5. CASE Handle
    BY <1>5 DEF Handle, mailbox
<1>6. CASE Close
    BY <1>6 DEF Close, mailbox
<1>7. CASE UNCHANGED vars
    BY <1>7 DEF vars, mailbox, loop
<1> QED BY <1>1, <1>2, <1>3, <1>4, <1>5, <1>6, <1>7 DEF Next

\* Frames are conserved, ordered and never stranded, whatever the step.
LEMMA NextFrames == IInv /\ [Next]_vars =>
    NoStrandedFrame' /\ RefusedByClosed' /\ Newest' /\ Conservation'
<1> DEFINE Goal == NoStrandedFrame /\ RefusedByClosed /\ Newest /\ Conservation
<1> SUFFICES ASSUME IInv, [Next]_vars PROVE Goal'
    OBVIOUS
<1> USE FramesAssumption
    DEF IInv, TypeOK, NoStrandedFrame, RefusedByClosed, Newest, Conservation,
        Outstanding, NoFrame
<1>1. ASSUME NEW t \in Threads, Put(t) PROVE Goal'
    <2>1. NoStrandedFrame'
        BY <1>1 DEF Put, loop
    <2>2. RefusedByClosed'
        <3>1. \A u \in Threads : pc'[u] = "refused" => pc[u] = "refused"
            BY <1>1 DEF Put
        <3> QED BY <1>1, <3>1 DEF Put, loop
    <2>3. Newest'
        <3>1. latest' = sent' /\ sent' = sent + 1 /\ held' = held /\ handled' = handled
            BY <1>1 DEF Put, loop
        <3>2. held <= sent /\ handled <= sent
            OBVIOUS
        <3> QED BY <3>1, <3>2
    <2>4. Conservation'
        <3>1. latest' # NoFrame /\ held' = held /\ delivered' = delivered
            BY <1>1 DEF Put, loop
        <3>2. coalesced' = coalesced + Outstanding(latest)
            BY <1>1 DEF Put
        <3>3. sent' = sent + 1
            BY <1>1 DEF Put
        <3> QED BY <3>1, <3>2, <3>3
    <2> QED BY <2>1, <2>2, <2>3, <2>4
<1>2. ASSUME NEW t \in Threads, Wake(t) PROVE Goal'
    BY <1>2 DEF Wake, mailbox
<1>3. ASSUME NEW t \in Threads, Unschedule(t) PROVE Goal'
    BY <1>3 DEF Unschedule, loop
<1>4. CASE Deliver
    BY <1>4 DEF Deliver
<1>5. CASE Handle
    BY <1>5 DEF Handle, mailbox
<1>6. CASE Close
    BY <1>6 DEF Close, mailbox
<1>7. CASE UNCHANGED vars
    BY <1>7 DEF vars, mailbox, loop
<1> QED BY <1>1, <1>2, <1>3, <1>4, <1>5, <1>6, <1>7 DEF Next

\* Every step preserves the inductive invariant.
LEMMA NextIInv == IInv /\ [Next]_vars => IInv'
BY NextTypeOK, NextOneCallback, NextFrames DEF IInv

\* The inductive invariant holds in every reachable state.
THEOREM Invariance == Spec => []IInv
<1>1. Init => IInv
    BY InitIInv
<1>2. IInv /\ [Next]_vars => IInv'
    BY NextIInv
<1> QED BY <1>1, <1>2, PTL DEF Spec

\* The variables of the mailbox keep their types.
THEOREM TypeCorrect == Spec => []TypeOK
<1>1. IInv => TypeOK
    BY DEF IInv
<1> QED BY <1>1, Invariance, PTL

\* However many threads put, the loop is woken by one callback at a time.
THEOREM SingleCallback == Spec => []AtMostOneCallback
<1>1. IInv => AtMostOneCallback
    BY DEF IInv
<1> QED BY <1>1, Invariance, PTL

\* A frame in the slot of a running loop always has a wake-up on its way.
THEOREM NoFrameStranded == Spec => []NoStrandedFrame
<1>1. IInv => NoStrandedFrame
    BY DEF IInv
<1> QED BY <1>1, Invariance, PTL

\* The coalesced counter accounts for every frame that was not handled.
THEOREM ExactCount == Spec => []Conservation
<1>1. IInv => Conservation
    BY DEF IInv
<1> QED BY <1>1, Invariance, PTL

\* The mailbox's steps are the register's: it starts as one, and each step offers
\* a frame, takes the freshest, closes the loop or is invisible.
THEOREM RefinesRegister == Spec => Register!Init /\ [][Register!Next]_(Register!vars)
<1> USE DEF Register!vars, Register!NoFrame
<1>1. Init => Register!Init
    BY DEF Init, Register!Init, NoFrame
<1>2. IInv /\ [Next]_vars => [Register!Next]_(Register!vars)
    <2> SUFFICES ASSUME IInv, [Next]_vars PROVE [Register!Next]_(Register!vars)
        OBVIOUS
    <2> USE DEF NoFrame
    <2>1. ASSUME NEW t \in Threads, Put(t) PROVE Register!Offer
        BY <2>1 DEF Put, loop, Register!Offer
    <2>2. ASSUME NEW t \in Threads, Wake(t) PROVE UNCHANGED Register!vars
        BY <2>2 DEF Wake, mailbox
    <2>3. ASSUME NEW t \in Threads, Unschedule(t) PROVE UNCHANGED Register!vars
        BY <2>3 DEF Unschedule, loop
    <2>4. CASE Deliver
        BY <2>4 DEF Deliver, Register!Take, Register!Next
    <2>5. CASE Handle
        BY <2>5 DEF Handle, mailbox
    <2>6. CASE Close
        BY <2>6 DEF Close, mailbox, Register!Close, Register!Next
    <2>7. CASE UNCHANGED vars
        BY <2>7 DEF vars, mailbox, loop
    <2> QED BY <2>1, <2>2, <2>3, <2>4, <2>5, <2>6, <2>7 DEF Next, Register!Next
<1> QED BY <1>1, <1>2, Invariance, PTL DEF Spec
=============================================================================
