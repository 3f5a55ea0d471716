------------------------------ MODULE Segments ------------------------------
(***************************************************************************)
(* The path of a motion through stepper.c, step by step: st_prep_buffer()  *)
(* checks steps out of the planner's first block into a ring of short      *)
(* constant-speed segments, and the step interrupt traces them with        *)
(* Bresenham's algorithm, multiplied by the smoothing level (AMASS).       *)
(*                                                                         *)
(* Distances are in half steps, so a segment may end within a step; speeds *)
(* are only zero or not; where a segment ends and which smoothing level    *)
(* its rate selects are choices.  The interrupt runs between any two steps *)
(* of the main program, as often as it likes.                              *)
(***************************************************************************)
EXTENDS Ring, FiniteSetsExt

CONSTANTS Axis,               \* the machine's axes
          Moves,              \* moves that are queued: functions Axis -> Int
          SegmentBufferSize,  \* SEGMENT_BUFFER_SIZE
          MaxAmassLevel,      \* MAX_AMASS_LEVEL
          MaxSegment,         \* half steps the fastest segment covers
          WordSize,           \* of a uint16_t, 65536 on the machine
          QueueSize,          \* blocks the planner holds
          MaxMoves            \* bound: moves queued in a behaviour

ASSUME SegmentsAssumption ==
  /\ IsFiniteSet(Axis) /\ Moves \subseteq [Axis -> Int]
  /\ \A v \in Moves : \E a \in Axis : v[a] # 0
  /\ SegmentBufferSize \in Nat \ {0, 1} /\ MaxAmassLevel \in Nat
  /\ QueueSize \in Nat /\ MaxMoves \in Nat

(* What a smoothing level divides the step events of a tick by, with what  *)
(* the provers do not know of powers.                                      *)
Factor(level) == 2 ^ level

ASSUME PowersOfTwo ==
  /\ MaxAmassLevel > 0 => Factor(MaxAmassLevel) > 1
  /\ \A l \in 0 .. MaxAmassLevel :
       \E q \in 1 .. Factor(MaxAmassLevel) :
         Factor(l) \in 1 .. Factor(MaxAmassLevel) /\ Factor(MaxAmassLevel) = q * Factor(l)

(* A segment lasts DT_SEGMENT, or for the time of MinSegment when that is  *)
(* longer: at the rates a step interrupt can follow, its steps fit the 16  *)
(* bits of n_step.                                                         *)
ASSUME SegmentFits ==
  /\ MaxSegment \in Nat /\ MaxSegment >= 3 /\ WordSize \in Nat
  /\ MaxSegment * Factor(MaxAmassLevel) < WordSize

VARIABLES
  queue,     \* planner blocks not completely checked out; the first one runs
  planned,   \* pl.position: where the last queued block ends
  made,      \* moves queued so far (bounds the behaviour)
  state,     \* sys.state: IDLE, CYCLE, HOLD or MOTION_CANCEL
  ready,     \* SUSPEND_ENABLE_READY: the hold is complete
  cancel,    \* SUSPEND_MOTION_CANCEL: the motion held is not to be resumed
  job,       \* of the main program: "lines", or where mc_probe_cycle() stands
  cycleStop, \* EXEC_CYCLE_STOP
  prep,      \* st_prep_t, and where st_prep_buffer() stands
  blocks,    \* st_block_buffer
  ring, head, tail,   \* segment_buffer and its indices
  st,        \* stepper_t
  timer,     \* the step interrupt is enabled
  position,  \* sys.position
  motor,     \* where the pulses sent have brought the motors
  dry,       \* auxiliary: the last stop came with steps left to prepare
  starved,   \* history: so did the stop of a hold, or a hold after such a stop
  restarted  \* history: the rest of a probing motion was started at its end

control == <<job, cancel, restarted>>
main == <<queue, planned, made, state, ready, prep, blocks, control>>
interrupt == <<st, timer, position, motor, dry, starved>>
buffer == <<ring, head, tail>>
rest == <<interrupt, cycleStop, buffer>>
vars == <<main, rest>>

Zero == [a \in Axis |-> 0]
Slots == 0 .. SegmentBufferSize - 2
Scale == Factor(MaxAmassLevel)
Steps(halves) == (halves + 1) \div 2                         \* ceil()
Magnitude(v) == [a \in Axis |-> IF v[a] < 0 THEN -v[a] ELSE v[a]]
Events(v) == Max({Magnitude(v)[a] : a \in Axis})

(* A segment is given at least REQ_MM_INCREMENT_SCALAR (1.25) steps, and   *)
(* no more than the time it lasts has room for.                            *)
MinSegment == 3

NextSlot(i) == NextIndex(i, SegmentBufferSize)
NextBlockShort(i) == NextIndex(i, SegmentBufferSize - 2)      \* mutant
NextBlockLong(i) == NextIndex(i, SegmentBufferSize)           \* mutant
NextBlock(i) == NextIndex(i, SegmentBufferSize - 1)

EmptyPrep == [loaded |-> FALSE, partial |-> FALSE, index |-> 0, exit |-> FALSE,
              speed |-> FALSE, complete |-> 0, at |-> "main"]
EmptyStepper == [segment |-> FALSE, index |-> 0, counter |-> Zero,
                 steps |-> Zero, count |-> 0, dir |-> {}, out |-> {}]
EmptySegment == [n |-> 0, index |-> 0, level |-> 0]
EmptyBlock == [steps |-> Zero, events |-> 0, dir |-> {}]

Init ==
  /\ queue = <<>> /\ planned = Zero /\ made = 0
  /\ state = "IDLE" /\ ready = FALSE /\ cancel = FALSE /\ cycleStop = FALSE
  /\ job = "lines" /\ restarted = FALSE
  /\ prep = EmptyPrep /\ st = EmptyStepper
  /\ blocks = [i \in Slots |-> EmptyBlock]
  /\ ring = [i \in 0 .. SegmentBufferSize - 1 |-> EmptySegment]
  /\ head = 0 /\ tail = 0
  /\ timer = FALSE /\ position = Zero /\ motor = Zero
  /\ dry = FALSE /\ starved = FALSE

Holding == state \in {"HOLD", "MOTION_CANCEL"}
AtMain == prep.at = "main"

(* st_update_plan_block_parameters(): reload the block under its new plan. *)
Replanned(p) ==
  IF p.loaded THEN [p EXCEPT !.loaded = FALSE, !.partial = TRUE] ELSE p

-----------------------------------------------------------------------------
(* The main program.                                                       *)

(* plan_buffer_line(): the new block may change the plan of the running one*)
BufferLine ==
  /\ AtMain /\ made < MaxMoves /\ Len(queue) < QueueSize
  /\ \E v \in Moves, replan \in BOOLEAN :
       /\ queue' = Append(queue, [move |-> v, left |-> 2 * Events(v)])
       /\ planned' = [a \in Axis |-> planned[a] + v[a]]
       /\ prep' = IF replan THEN Replanned(prep) ELSE prep
  /\ made' = made + 1
  /\ UNCHANGED <<state, ready, cancel, restarted, blocks, rest>>

Queue == state \in {"IDLE", "CYCLE"} /\ job = "lines" /\ BufferLine /\ job' = job

(* mc_probe_cycle(): when all that is queued has run, a motion that the    *)
(* probe may cancel; it waits for it to end, ...                           *)
Probe == state = "IDLE" /\ queue = <<>> /\ job = "lines" /\ BufferLine /\ job' = "begin"

ProbeDone ==
  /\ AtMain /\ job = "probe" /\ state = "IDLE" /\ job' = "finish"
  /\ UNCHANGED <<queue, planned, made, state, ready, cancel, restarted, prep,
                 blocks, rest>>

(* ... and, after one more checkpoint, drops the rest: st_reset(),         *)
(* plan_reset(), plan_sync_position().                                     *)
ProbeFinish ==
  /\ AtMain /\ job = "finish" /\ state \in {"IDLE", "CYCLE"} /\ job' = "lines"
  /\ queue' = <<>> /\ planned' = position
  /\ prep' = EmptyPrep /\ st' = EmptyStepper
  /\ head' = 0 /\ tail' = 0 /\ timer' = FALSE /\ dry' = FALSE
  /\ UNCHANGED <<made, state, ready, cancel, restarted, blocks, ring, position,
                 motor, cycleStop, starved>>

(* Where flags are handled: not between the end of the probing motion and  *)
(* the test that leaves its loop, nor between a start in the last          *)
(* checkpoint and its return.                                              *)
Checkpoint ==
  AtMain /\ <<job, state>> \notin {<<"probe", "IDLE">>, <<"finish", "CYCLE">>}

(* EXEC_CYCLE_START: the segment buffer is filled, then the timer starts.  *)
(* A motion that is canceled is not resumed.                               *)
CycleStart ==
  /\ Checkpoint
  /\ state = "IDLE" \/ (Holding /\ ready)
  /\ IF queue # <<>> /\ ~cancel
       THEN /\ state' = "CYCLE" /\ prep' = [prep EXCEPT !.at = "start"]
            /\ job' = IF job = "begin" THEN "probe" ELSE job
            /\ restarted' = (restarted \/ job = "finish")
       ELSE state' = "IDLE" /\ UNCHANGED <<prep, job, restarted>>
  /\ ready' = FALSE /\ cancel' = FALSE /\ dry' = (dry /\ state' = "IDLE")
  /\ UNCHANGED <<queue, planned, made, blocks, st, timer, position, motor,
                 starved, cycleStop, buffer>>

(* EXEC_FEED_HOLD, or EXEC_MOTION_CANCEL, which the step interrupt flags   *)
(* when the probe is triggered while the probing motion runs.              *)
Hold ==
  /\ Checkpoint
  /\ \E flag \in {"hold", "cancel"} :
       /\ flag = "cancel" => job = "probe" /\ (timer \/ cycleStop)
       /\ state' = IF flag = "hold" THEN "HOLD"
                   ELSE IF state = "CYCLE" THEN "MOTION_CANCEL" ELSE state
       /\ cancel' = (flag = "cancel" \/ (state # "CYCLE" /\ cancel))
  /\ prep' = IF state = "CYCLE" THEN Replanned(prep) ELSE prep
  /\ ready' = (state = "IDLE" \/ (state # "CYCLE" /\ ready))
  /\ starved' = (starved \/ dry)
  /\ UNCHANGED <<queue, planned, made, job, restarted, blocks, st, timer,
                 position, motor, dry, cycleStop, buffer>>

(* EXEC_CYCLE_STOP: a hold is complete, or the motion is over.             *)
CycleStop ==
  /\ Checkpoint /\ cycleStop
  /\ cycleStop' = FALSE
  /\ ready' = (state = "HOLD")
  /\ cancel' = (state = "HOLD" /\ cancel)
  /\ state' = IF state = "HOLD" THEN "HOLD" ELSE "IDLE"
  /\ UNCHANGED <<queue, planned, made, job, restarted, prep, blocks, interrupt,
                 buffer>>

-----------------------------------------------------------------------------
(* st_prep_buffer(), which a checkpoint calls after it handled the flags.  *)

Room == NextSlot(head) # tail
StoppedShort == Holding /\ ~prep.speed
CanPrepare == /\ state # "IDLE" /\ ~StoppedShort /\ Room
              /\ prep.loaded \/ queue # <<>>

(* Where a forced deceleration of a block ends: at once, within it, or     *)
(* beyond it, unless it is the last one, by whose end the plan is at rest. *)
Profiles(moving, left) ==
  IF ~Holding THEN [complete : {0}, exit : {FALSE, Len(queue) > 1}]
  ELSE IF ~moving THEN {[complete |-> left, exit |-> FALSE]}
  ELSE [complete : {0}, exit : {Len(queue) > 1}]
       \cup [complete : 0 .. left - 1, exit : {FALSE}]

BresenhamUnscaled(v) ==                                      \* mutant
  [steps |-> Magnitude(v), events |-> Events(v), dir |-> {a \in Axis : v[a] < 0}]

(* The block's data, multiplied so that no smoothing level divides below it*)
Bresenham(v) ==
  [steps  |-> [a \in Axis |-> Magnitude(v)[a] * Scale],
   events |-> Events(v) * Scale,
   dir    |-> {a \in Axis : v[a] < 0}]

Enter ==
  /\ AtMain /\ ~cycleStop /\ CanPrepare
  /\ prep' = [prep EXCEPT !.at = "prep"]
  /\ UNCHANGED <<queue, planned, made, state, ready, control, blocks, rest>>

Leave ==
  /\ prep.at = "prep" /\ ~CanPrepare
  /\ prep' = [prep EXCEPT !.at = "main"]
  /\ UNCHANGED <<queue, planned, made, state, ready, control, blocks, rest>>

(* The planner's first block is loaded, or reloaded after a new plan.      *)
Load ==
  /\ prep.at \in {"prep", "start"} /\ CanPrepare /\ ~prep.loaded
  /\ LET i == IF prep.partial THEN prep.index ELSE NextBlock(prep.index)
         moving == IF prep.partial THEN prep.speed
                   ELSE IF Holding THEN prep.exit ELSE TRUE
     IN /\ \E p \in Profiles(moving, Head(queue).left) :
             prep' = [prep EXCEPT !.loaded = TRUE, !.partial = FALSE,
                        !.index = i, !.speed = moving, !.exit = p.exit,
                        !.complete = p.complete,
                        !.at = IF prep.at = "start" THEN "startLoaded" ELSE "loaded"]
        /\ blocks' = IF prep.partial THEN blocks
                     ELSE [blocks EXCEPT ![i] = Bresenham(Head(queue).move)]
  /\ UNCHANGED <<queue, planned, made, state, ready, control, rest>>

EndsAnywhere(left) == prep.complete .. left                  \* mutant

(* Half steps left in the block after the next segment.                    *)
Ends(left) == {now \in prep.complete .. left :
                 /\ left - now <= MaxSegment
                 /\ left - now >= MinSegment \/ now = prep.complete}

Back == IF prep.at \in {"start", "startLoaded"} THEN "start" ELSE "prep"
Forced == [Replanned(prep) EXCEPT !.speed = FALSE, !.at = Back]

(* The end of a hold within a step: no segment, whole steps are left.      *)
StopShort(now) ==
  /\ prep' = Forced
  /\ queue' = [queue EXCEPT ![1].left = 2 * Steps(now)]
  /\ UNCHANGED <<ring, head>>

(* n_step is 16 bits wide.                                                 *)
Ticks(n, level) == (n * Factor(level)) % WordSize

Publish(n, level) ==
  /\ ring' = [ring EXCEPT ![head] =
                [n |-> Ticks(n, level), index |-> prep.index, level |-> level]]
  /\ head' = NextSlot(head)

(* What is left: part of the block, part of it after a forced stop (rounded*)
(* up to whole steps), or nothing.                                         *)
CheckOut(now) ==
  IF now > prep.complete
    THEN /\ queue' = [queue EXCEPT ![1].left = now]
         /\ prep' = [prep EXCEPT !.speed = TRUE, !.at = Back]
    ELSE IF now > 0
    THEN /\ queue' = [queue EXCEPT ![1].left = 2 * Steps(now)]
         /\ prep' = Forced
    ELSE /\ queue' = Tail(queue)
         /\ prep' = [prep EXCEPT !.loaded = FALSE, !.speed = TRUE, !.at = Back]

Segment ==
  /\ \/ prep.at \in {"loaded", "startLoaded"}
     \/ prep.at \in {"prep", "start"} /\ CanPrepare /\ prep.loaded
  /\ \E now \in Ends(Head(queue).left), level \in 0 .. MaxAmassLevel :
       LET n == Steps(Head(queue).left) - Steps(now)
       IN IF n = 0 /\ Holding
            THEN level = 0 /\ StopShort(now)
            ELSE Publish(n, level) /\ CheckOut(now)
  /\ UNCHANGED <<planned, made, state, ready, control, blocks, interrupt, cycleStop, tail>>

(* st_wake_up(): the outputs are cleared and the timer is started.         *)
WakeUp ==
  /\ prep.at = "start" /\ ~CanPrepare
  /\ prep' = [prep EXCEPT !.at = "main"]
  /\ timer' = TRUE /\ st' = [st EXCEPT !.dir = {}, !.out = {}]
  /\ UNCHANGED <<queue, planned, made, state, ready, control, blocks, position,
                 motor, dry, starved, cycleStop, buffer>>

-----------------------------------------------------------------------------
(* The step interrupt (TIMER1_COMPA).                                      *)

Moved(from, axes, negative) ==
  [a \in Axis |-> IF a \notin axes THEN from[a]
                  ELSE IF a \in negative THEN from[a] - 1 ELSE from[a] + 1]

(* The segment at the tail is popped when none is running; a new block     *)
(* index starts the line tracer afresh.                                    *)
LoadedStepper ==
  LET s == ring[tail]
      b == blocks[s.index]
  IN IF st.segment THEN st
     ELSE [st EXCEPT !.segment = TRUE, !.index = s.index, !.count = s.n,
             !.counter = IF s.index = st.index THEN @
                         ELSE [a \in Axis |-> b.events \div 2],
             !.dir = b.dir, !.steps = [a \in Axis |-> b.steps[a] \div Factor(s.level)]]

(* One tick of the line tracer; step_count is 16 bits wide.                *)
Sum(s) == [a \in Axis |-> s.counter[a] + s.steps[a]]
Stepped(s) == {a \in Axis : Sum(s)[a] > blocks[s.index].events}
CountDown(s) == (s.count + WordSize - 1) % WordSize

Trace(s) ==
  /\ st' = [s EXCEPT !.counter = [a \in Axis |-> IF a \in Stepped(s)
                                    THEN Sum(s)[a] - blocks[s.index].events
                                    ELSE Sum(s)[a]],
                     !.out = Stepped(s), !.count = CountDown(s),
                     !.segment = (CountDown(s) # 0)]
  /\ position' = Moved(position, Stepped(s), blocks[s.index].dir)
  /\ tail' = IF CountDown(s) = 0 THEN NextSlot(tail) ELSE tail

TickStopFirst ==                                             \* mutant
  /\ timer
  /\ IF st.segment \/ head # tail
       THEN /\ motor' = Moved(motor, st.out, st.dir)
            /\ Trace(LoadedStepper) /\ UNCHANGED <<timer, cycleStop, dry, starved>>
       ELSE /\ timer' = FALSE /\ cycleStop' = TRUE /\ dry' = CanPrepare
            /\ starved' = (starved \/ (Holding /\ CanPrepare))
            /\ UNCHANGED <<st, position, tail, motor>>
  /\ UNCHANGED <<main, ring, head>>

(* The pulses computed one tick ago are sent first; an empty buffer stops  *)
(* the timer and flags the end of the cycle.                               *)
Tick ==
  /\ timer
  /\ motor' = Moved(motor, st.out, st.dir)
  /\ IF st.segment \/ head # tail
       THEN Trace(LoadedStepper) /\ UNCHANGED <<timer, cycleStop, dry, starved>>
       ELSE /\ timer' = FALSE /\ cycleStop' = TRUE /\ dry' = CanPrepare
            /\ starved' = (starved \/ (Holding /\ CanPrepare))
            /\ UNCHANGED <<st, position, tail>>
  /\ UNCHANGED <<main, ring, head>>

-----------------------------------------------------------------------------
Next == \/ Queue \/ Probe \/ ProbeDone \/ ProbeFinish \/ CycleStart \/ Hold \/ CycleStop
        \/ Enter \/ Leave \/ Load \/ Segment \/ WakeUp \/ Tick

Spec == Init /\ [][Next]_vars
=============================================================================
