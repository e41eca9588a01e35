------------------------------ MODULE LogIntake ------------------------------
(***************************************************************************)
(* How the log streamer cuts the multiplexed stream of a container into    *)
(* frames and limits their rate: processBuffer of attachToContainerLogs    *)
(* and TokenBucket in src/monitoring/log-streamer.ts.                      *)
(*                                                                         *)
(* A frame is a header of 8 bytes, which tells the size of the payload, and*)
(* the payload; bytes are only counted.  Time runs in units of which there *)
(* are Second in a second, and tokens are counted in the same fraction, so *)
(* that the arithmetic of consume is exact.                                *)
(***************************************************************************)
EXTENDS Integers, Sequences

CONSTANTS Payloads,    \* the sizes a payload may have
          Frames,      \* bound: frames on the wire
          Chunks,      \* the numbers of bytes a read may bring
          Rate,        \* LOG_MAX_LINES_PER_SEC, also the bucket's capacity
          Second,
          Horizon      \* bound: the last instant

ASSUME IntakeAssumption ==
    /\ Payloads \subseteq Nat /\ Chunks \subseteq Nat
    /\ Frames \in Nat /\ Rate \in Nat \ {0} /\ Second \in Nat \ {0} /\ Horizon \in Nat

VARIABLES
    wire,      \* the payload sizes of the frames that Docker sends
    got,       \* bytes received so far
    held,      \* buffer.length
    cut,       \* frames cut off so far
    clock,     \* Date.now()
    tokens,    \* tokens, in units of 1/Second
    refilled,  \* lastRefill
    passed     \* history: when each line that consume let through arrived

intakeVars == <<wire, got, held, cut, clock, tokens, refilled, passed>>

IntakeInit ==
    /\ wire \in UNION {[1..n -> Payloads] : n \in 0..Frames}
    /\ got = 0 /\ held = 0 /\ cut = 0
    /\ clock = 0
    /\ tokens = Rate * Second /\ refilled = 0
    /\ passed = <<>>

Header == 8
Smaller(a, b) == IF a < b THEN a ELSE b

\* consume: refill by the time that has passed, then take a whole token.
Consume(b) ==
    LET filled == Smaller(Rate * Second, b.tokens + (clock - b.refilled) * Rate)
    IN  IF filled >= Second
        THEN [b EXCEPT !.tokens = filled - Second, !.refilled = clock,
                       !.passed = Append(b.passed, clock)]
        ELSE [b EXCEPT !.tokens = filled, !.refilled = clock]

\* The first byte after each frame of w.
FrameEnds(w) ==
    LET end[k \in 0..Len(w)] == IF k = 0 THEN 0 ELSE end[k - 1] + Header + w[k]
    IN  end
EndOf(k) == FrameEnds(wire)[k]

\* Defect: the loop asks only for the header.
CutHeader(b) ==
    IF b.held < Header \/ b.cut = Len(wire) THEN b
    ELSE Consume([b EXCEPT !.held = b.held - Smaller(b.held, Header + wire[b.cut + 1]),
                           !.cut = b.cut + 1])

\* One round of the loop of processBuffer: if a whole frame is there it is cut off,
\* and its line asks the bucket.
CutFrame(b) ==
    IF b.held >= Header /\ b.held >= Header + wire[b.cut + 1]
    THEN Consume([b EXCEPT !.held = b.held - (Header + wire[b.cut + 1]), !.cut = b.cut + 1])
    ELSE b

\* The rounds of the loop, of which each but the last cuts off a frame.
ProcessBuffer(b) ==
    LET after[k \in 0..Frames] == IF k = 0 THEN b ELSE CutFrame(after[k - 1])
    IN  after[Frames]

\* A read brings n bytes, which are appended to the buffer.
Receive(n) ==
    /\ got + n <= EndOf(Len(wire))
    /\ got' = got + n
    /\ LET b == ProcessBuffer([held |-> held + n, cut |-> cut, tokens |-> tokens,
                               refilled |-> refilled, passed |-> passed])
       IN  /\ held' = b.held /\ cut' = b.cut
           /\ tokens' = b.tokens /\ refilled' = b.refilled /\ passed' = b.passed
    /\ UNCHANGED <<wire, clock>>

TimePasses ==
    /\ clock < Horizon
    /\ clock' = clock + 1
    /\ UNCHANGED <<wire, got, held, cut, tokens, refilled, passed>>

IntakeNext == TimePasses \/ \E n \in Chunks : Receive(n)

IntakeSpec == IntakeInit /\ [][IntakeNext]_intakeVars

-----------------------------------------------------------------------------
IntakeTypeOK ==
    /\ got \in Nat /\ held \in Nat /\ cut \in 0..Len(wire)
    /\ clock \in 0..Horizon /\ refilled \in 0..clock
    /\ tokens \in 0..(Rate * Second)
    /\ passed \in Seq(0..Horizon)

\* However the stream is split into reads, the frames cut off are exactly those
\* that have arrived whole, and no byte is lost between them.
FramesWhole ==
    /\ \A k \in 1..Len(wire) : k <= cut <=> EndOf(k) <= got
    /\ held = got - EndOf(cut)

\* Any stretch of time lets through at most what a full bucket holds and what is
\* refilled meanwhile.
RateKept ==
    \A i, j \in 1..Len(passed) :
      i <= j => (j - i + 1) * Second <= Rate * Second + (passed[j] - passed[i]) * Rate

\* What the intake makes of a container's stream: its frames, and of its lines no
\* more than the rate.
StreamIntact == FramesWhole /\ RateKept
=============================================================================
