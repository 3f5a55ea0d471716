# BodyPrinter in TLA+

BodyPrinter prints conductive paths on skin: a Processing sketch
(`src/Software/BodyPrinter_ProcessingUI`) turns drawings and g-code files into
lines of g-code and sends them over a serial line to an Arduino running Grbl 0.9
(`src/Software/BodyPrinter_GRBL/grbl-master/grbl`), which moves the machine and
switches the pump (on the spindle and coolant outputs). This directory holds TLA+
models of that code, TLC configurations that check them, and TLAPS proofs. Paths
below are relative to the `grbl` directory unless they name another.

## The system

| Part | State it keeps | Operations | Talks to |
|---|---|---|---|
| Realtime executive (`protocol.c`, `system.h`, `motion_control.c: mc_reset`) | `sys.state`, `sys.suspend`, `sys.abort`, two flag bytes shared with the interrupts | `protocol_execute_realtime()`, the checkpoint of every loop | raised by the serial, pin, limit and step interrupts; starts and refills the stepper |
| Main program (`main.c`, `protocol.c`, `motion_control.c`, `limits.c`, `gcode.c`, `system.c`) | the line being executed | re-initialization, line loop, one handler per kind of line | calls the executive wherever it waits; fills the planner |
| Planner (`planner.c`) | ring of blocks, entry speeds, the planned pointer | append, recalculate, discard, reinitialize | filled by the main program, emptied by segment preparation |
| Stepper (`stepper.c`) | ring of step segments, block data shared with it, tracer counters | `st_prep_buffer()`, the step interrupt, wake up, go idle | raises CYCLE_STOP; calls the probe monitor |
| Homing and limits (`limits.c`) | axis lock | limit interrupt, soft check, homing passes | `mc_reset()`, planner, stepper |
| Probing (`probe.c`, `mc_probe_cycle`) | probe state | monitor in the step interrupt, the cycle | raises MOTION_CANCEL |
| G-code parser (`gcode.c`) | modal state | one block: check everything, then execute in a fixed order | motion, spindle, settings |
| Serial (`serial.c`) | receive and transmit ring | read, write, two interrupts | the host; realtime characters go to the flags |
| Settings, EEPROM (`settings.c`, `eeprom.c`) | records with checksums | store, read, restore | main program |
| Reports (`report.c`, `print.c`) | none | formatting | `serial_write()` |
| Streaming scripts (`../doc/script/*.py`) | characters believed in the receive ring | send, wait for ok | serial line |
| Control sketch (`*.pde`) | tip, target, script position, pump state, calibration grid | `draw()` loop, buttons, keys, mouse | serial line, without flow control |

What is hard in it: there is no operating system. One main program and half a dozen
interrupts share bytes; the main program copies the flag byte and acts on the copy,
so what it acts on may be out of date; every wait of the program is a loop around the
same checkpoint, and a reset has to get it out of any of them; a motion is ended by
an interrupt that reports an empty ring, whatever the reason it is empty for; and a
hold, a door, a limit or a reset may come between any two instructions. What makes
each part correct:

- executive: a state that says "at rest" is at rest; a state only the end of the
  motion leaves always has that end coming; requests are not lost; a hold is resumed by
  the user alone; an alarm stays; the door takes the power away;
- main program: waits end, or at least let a reset through; what must wait for rest
  waits for rest; a line beyond the limits is never executed;
- serial: bytes are neither lost, duplicated nor reordered; the transmit interrupt is
  enabled when and only when there is work;
- planner: no junction faster than the machine can brake for, and the incremental plan
  equal to the full one; stepper: every step of every block executed once;
- settings: a record read back is one that was stored; streaming: the receive ring
  never overflows; homing and probing: what they report is true of the machine;
- g-code: a line does what its words and the modes say, or nothing at all; the parser's
  position, the offsets in force and the outputs agree with the machine and the store;
- sketch: the pump runs only while a stroke is made or the operator switched it on,
  and the position it works with is the nozzle's.

## Modules

| Module | Models | Holds |
|---|---|---|
| `Realtime` | the checkpoint and the interrupts | constants, state, one action per label of the checkpoint, one per interrupt |
| `Grbl` | the main program around it (EXTENDS Realtime) | `Init`, `Next`, `Spec`, `FairSpec` |
| `GrblProperties` | | type invariant, safety, action and liveness properties |
| `GrblClaims` | | three statements of the source's comments that the code does not keep |
| `GrblProofs` | | the inductive invariant and eight theorems |
| `Planner` | `planner.c` and the speeds `stepper.c` exchanges with it | blocks, planned pointer, both passes, one action per operation |
| `PlannerProperties`, `PlannerProofs` | | the best plan as a definition, invariants, six theorems |
| `Ring`, `Serial` | `serial.c` | ring arithmetic, both rings, both interrupts |
| `ByteFifo` | | what a serial buffer promises, the abstract specification |
| `SerialProperties`, `SerialProofs` | | refinement of `ByteFifo`, invariants, proofs |
| `Segments`, `SegmentsProperties` | `stepper.c` to the step: segment preparation, block data, ring, tracer (EXTENDS Ring) | one action per stage of `st_prep_buffer()`, one tick of the step interrupt |
| `SegmentsProofs` | | the order of the block data in the ring, what is left of a block, seven theorems |
| `Cycles`, `CyclesProperties` | `$H` and G38.x: `limits_go_home()`, `mc_homing_cycle()`, `mc_probe_cycle()`, `probe.c` (EXTENDS Grbl) | the machine, the passes, the monitor |
| `CyclesProofs` | | what a pass has left of its way, what a probe may still do, four theorems |
| `Eeprom`, `Settings` | `eeprom.c`, `settings.c` | records, checksum, byte writes; the RAM copy and its encoding |
| `GcodeBlock` | `gcode.c` steps 1 to 3 (EXTENDS Settings) | a line parsed, checked and converted: operators only |
| `Gcode`, `GcodeProperties` | `gcode.c` step 4, `$` commands, start-up, power failure (EXTENDS GcodeBlock) | parser state, one action per kind of line |
| `GcodeProofs` | | what a store with writes under way will hold, what a line may read as, nine theorems |
| `Streaming`, `StreamingProperties` | `stream.py`, `simple_stream.py`, the receive side, line assembly | both protocols, the wire, the ring, the line loop |
| `StreamingProofs` | | what is under way against what is counted, what Grbl still makes of it, two theorems |
| `Printer`, `PrinterProperties` | the Processing sketch | `draw()` in stages, every button, key and click, the loader thread |
| `PrinterProofs` | | what each stage of `draw()` may rely on, two theorems |

### Realtime and Grbl

The main program is one thread of control. `at` is the label it stands at and `ret`
the label its call of the checkpoint will return to; an action is the code from one
label to the next, and an interrupt is an action that leaves `at` alone. Labels are
placed where an interrupt could change something the program has read and not yet
used, or could see something the program has half done: `alarm` (flags copied and the
state set), `halt` (the critical-event loop), `unalarm`, `snap` (the copy of the flag
byte, `exec`), `hold`, `start`, `resume` (after the power-up delay of up to five
seconds), `prime` and `wake` (around `st_prep_buffer()` and `st_wake_up()`), `stop`,
`prep`. In the main program: `reset`, `clearRt`, `clearAlarm`, `boot` (main's
re-initialization), `loop`, `polled`, `line`, and one or more labels per handler.

| Variable | In the code |
|---|---|
| `state`, `suspend`, `abort`, `softLimit` | `sys.state`, `sys.suspend` (a set of bits), `sys.abort`, `sys.soft_limit` |
| `rt`, `alarm` | `sys_rt_exec_state`, `sys_rt_exec_alarm`, as sets |
| `exec` | the local copy `rt_exec` |
| `todo`, `segs` | segments the planner's blocks will be cut into; segments in the ring |
| `moving` | `prep.current_speed` is not zero |
| `brake` | segments a hold in progress still needs; chosen from `0..MaxBrake` when it begins |
| `stepping` | OCIE1A: the step interrupt is enabled |
| `spindle`, `modal` | the output pin; `gc_state.modal.spindle` |
| `asked` | history: the pending CYCLE_START came from a user, not from auto-start |
| `job` | the line being executed |

Motion is counted in segments, not millimetres: what the executive can tell apart is
whether there is a block, whether the ring is empty and whether the profile has come to
zero. A line is one of six kinds (`Jobs`): a motion, a motion beyond the soft limits, a
spindle change (each toggles the modal state, which stands for an M word that changes
it), M0, `$X`, `$C`. Whether the ring may run dry while the planner still feeds it is the
constant `Underrun`: the comment at stepper.c:516-518 says the sizes exclude it. The safety
runs allow it (the properties hold all the same); the runs that show a disagreement
with a comment exclude it, so that they do not depend on it.

### Serial

`at` is again the main program's label, one per access to a volatile index
(`serial_read`: test, fetch, advance; `serial_write`: wait, store, publish, enable).
The compiler is taken to keep the order of the stores of `serial_write()` as written.
`Burst` is the number of transmit interrupts that may come between the last two
stores of a write: the stores are a few cycles apart and a byte takes 87 microseconds, so
0 or 1 (`BurstAssumption`; `sentNow` counts them). With 2 the interrupt could be
enabled on an empty ring and send the ring again.

### Planner

A speed is squared, as in the code, and a distance is the change of squared speed it
allows at the block's acceleration (`reach`, `2*acceleration*millimeters`), so the sums
the planner makes are sums of integers. The ring is a sequence, oldest block first;
`planned` is the position of `block_buffer_planned` in it. The passes are recursive
functions of the blocks (`Backward`, `Forward`), and what they leave behind is
`Replanned` and `PlannedAfter`; `Recalculate` adds the early return and the notice to
the stepper.

| Variable | In the code |
|---|---|
| `blocks` | the ring; `max`, `reach`, `entry` of a block are `max_entry_speed_sqr`, what is left of it, `entry_speed_sqr` |
| `loaded` | `pl_block` is not NULL: the profile of the front block is computed |
| `partial` | `prep.flag_partial_block` |
| `speed`, `exit` | `prep.current_speed`, `prep.exit_speed`, both squared |
| `held` | the state is HOLD, MOTION_CANCEL or SAFETY_DOOR |

The real lengths, accelerations and junction speeds come from the geometry of the path;
here they are any of `Reaches` and `MaxEntries`. A segment of the normal profile covers any
part of the block and ends at any speed from which the exit speed can still be met:
this allows every trapezoid the code computes, and the nominal speed, which only cuts
profiles lower, is not needed. A segment of a hold brakes fully. Left out: rounding to
whole steps and floating point. All operations run in the main program, so they do not
interleave with each other, but a hold may begin between any two. A new line cannot:
`mc_line()` is not reached while the executive is suspended. As
stepper.c:516-518 says, the segment ring is taken not to run dry in the middle of a block;
a hold from IDLE would find that block with its normal profile.

### Segments

Planner, Realtime and Segments look at `stepper.c` from three sides: speeds, flags, and here
steps. A distance is counted in half steps, so that a segment may end within a step; a
speed is only zero or not; where a segment ends, where a forced deceleration ends and which
smoothing level a segment gets are choices, within what the code can compute.
`prep.at` is where `st_prep_buffer()` stands, so that the interrupt (`Tick`) runs between
the loading of a block and its segments. `queue[1].left` is
`pl_block->millimeters`, `prep.complete` is `prep.mm_complete`, `blocks` is
`st_block_buffer`, `st` is `st`, with `dir` and `out` the outputs of the next tick,
`motor` is what has left the port. A segment is no longer than `MaxSegment` (what `DT_SEGMENT`
takes at the highest rate), `Factor` is what a smoothing level multiplies its steps by, and
`n_step` and `step_count` are words of `WordSize` values (65536 on the machine), in which a countdown
from zero wraps; `SegmentFits` says that the ticks fit them, at the rates a step interrupt can follow.

`job` is where `mc_probe_cycle()` stands, if it runs: before its motion has started (`begin`), waiting for it to
end (`probe`), or at the checkpoint behind it (`finish`, motion_control.c:318), after which `ProbeFinish` drops what
is left of the motion. `cancel` is SUSPEND_MOTION_CANCEL: `CycleStop` only ends the state, and a cancelled motion
that is held is not resumed. Two histories name the exceptions. `starved`: the ring ran dry in a hold with steps
left to prepare, or a hold came after such a stop. `restarted`: a cycle start handled at the checkpoint behind the probe's
motion has started the rest of it. Both happen in the run; see the observations.

### Cycles

The machine is real here: `carriage` is where an axis is, `position` where Grbl
counts it, a switch is pressed from `Trip` on, the frame stops the axis at `End`, and a
segment is one step. `pass` is the turn of the do-while loop of `limits_go_home()` (1 and 3
approach, 2 and 4 pull off), `lock` is `sys.homing_axis_lock`, inverted: the
axes that may still step. `fetched` splits the `bit_true()` of the probe monitor into its
read and its write, with the interrupts that may come between. `contact` is
`sys.probe_position`. Two histories name the exceptions: `early`, a reset raised before the state became
HOMING, and `stale`, a CYCLE_STOP of the last search still pending when the last pull-off began (the search
found its switches in the turn of its loop that saw no flag yet). config.h requires `HomingCycle0`. The exact
positions assume that the ring does not run dry (`Underrun = FALSE`).

### Eeprom, Settings, GcodeBlock, Gcode

A line is a sequence of words; `Parse` is step 2 of `gc_execute_line()`, `EarlyFault`,
`OffsetFault` and `LateFault` are the checks of step 3 in their order, with the two
reads of the store between them (each repairs the record it could not read), and `Execute`
is step 4. `gc` is `gc_state`, `machine` the end point of the motions queued. What the
block leaves to the outside is a choice: whether an arc's radius fits, whether a
probe stops at once. A command that writes leaves its bytes in `pending`; nothing but the next
byte or a power failure happens until they are written. `PowerFailure` loses the RAM and the rest of
`pending`, `Wear` erases one checksum byte. `programmed` is a history: the work position the last line named.

### Streaming

Every byte is an action: on the wire, into the ring, out of it into the line. `protocol`
is chosen once. An answer is a status or a report, with its length; what the
host sees of `inbox` (`inWaiting()`) is any prefix, as answers are on the way too. `Limit` is
`RX_BUFFER_SIZE-1 | s.inWaiting()` as Python reads it. `Store` is the execution of a line that writes the EEPROM:
a setting, or a line with one of `StoreWords`, which on the machine are G10, G28.1 and G30.1
(gcode.c:913-946) and the words that read a record, as the repair of one that cannot be read
writes it. Interrupts are off for each byte written, not between two, so that a byte of the line may arrive
(`Receive`) or be overrun (`Overrun`). `lost`, `extra`, `wide` and `stored` are
histories: a byte dropped or overrun, answers no line stands for, a comparison
with a raised limit, a line that came to `Store`. The two seconds both scripts wait at the start are
taken to be enough for the wake-up bytes, and lines are shorter than the ring:
a longer one stops stream.py for good. `Finished` names the two ways in which nothing moves any more,
so that any other is a deadlock. `Sums` is the script's `sum(c_line)`, for every length.
`StreamingAssumption` says of the files what the properties need: lines are sequences of characters
without line ends and short enough for the ring. What a line that is counted may say is left open: a setting or
G10 may be among them.

### Printer

`at` is the stage of `draw()` (`gcode`, `order`, `line`, `arc`, `circle`, `show`, `drag`; `idle`
between two frames, `dead` after an exception). The operator's handlers run between
frames, the loader's lines (`FileSelected`, `LoadLine`) between any two stages, on a thread of their
own. `stateDraw` TRUE is to move, as in the code. Geometry is one axis: a line goes by `Step`
pixels until it is `Near`; an arc goes from where the tip is to anything near it, or, with the vector of another
center, anywhere (`fresh`: a right click moves the tip and leaves that vector behind, BodyPrinter.pde:219). `Points` bounds where motions go. Grbl executes what is sent in
order, with home at 0. `jogged` says what the operator did, not what Grbl is in: a button or key jogged, and since then
START was not pressed, no right click made and no arc begun. `astray` is a position given up or a motion sent while
`jogged`, `silent` counts targets reached without a motion; `byHand` and `meddled` say what the
operator changed, `cut` that START, INIT, HOME or a right click came in the middle of an arc. The height of the nozzle, the sliders and the values of the grid are left out.

## Runs

| Run | Bounds | What it shows |
|---|---|---|
| `GrblSafety` | 2 blocks of 2 segments, ring of 2, brake up to 2, all five events, all six kinds of line | the type invariant and six safety and action properties, below |
| `GrblLiveness` | 1 block of 2 segments, ring of 1; reset, hold, door; move, over, spindle, pause | four liveness properties under `FairSpec` |
| `Serial` | two bytes, rings of 3 (two usable slots), one interrupt per store | `RxIsFifo`, `TxIsFifo`, `UdrieIffWork`, `WriteReturns` |
| `Planner` | 4 blocks of reach 1 to 3, junction speeds 0, 1, 2, 4 | `PlanIsBest`, `ExitFresh`, `HoldFits`, `NoJump` |
| `Segments` | four moves of two axes (3, -1) and (0, 1), ring of 4, block data of 3, one smoothing level, planner of 2, words of 16 values; any move may be a probing motion | `EndsWherePlanned`, `MotorsAreCounted`, `SlotsAreNotReused`, `EverySegmentSteps` |
| `Cycles` | two axes homed together, switch and frame at 2, search of 3, pull-off 2; probe at 1, travel 2; reset, hold, door, start; also `$X` and `$C` | `HomingIsTrue`, `ProbeIsTrue` |
| `Gcode` | three commands of 44 lines, 7 settings, `$RST`, `$C` and reset, from an erased chip; two coordinate systems; one power failure or bad byte; bytes of 16 values, coordinates within 4 | seven properties, below |
| `Streaming` | four lines of 10 (counting) or 4 (answers), one of them a setting and one G10, ring of 7 usable bytes, line buffer of 3 usable characters | `RingHolds`, `LinesAreTails`, no deadlock |
| `Printer` | four files, six operations of the operator, positions -3 to 9, grid 0 to 6, steps of 2, jogs of 3 | `FlowFollowsScript`, `TipIsNozzle` |
| `GrblSyncWedge` | no event at all; move and spindle lines | `SyncReturns` is violated |
| `GrblDoorReset` | reset, door, start; move lines | `ResetKillsMotion` is violated |
| `GrblHalt` | limit, reset; move lines | `HaltIsStill` is violated |

Why the bounds are enough: with two segments to a block a hold can begin before, inside
and at the end of a block; a ring of two can be empty, partly full and full; two blocks
make the planner full and not full with a cycle running; a brake of 0, 1 or 2
segments ends within the ring, within the block and in the next one. Events are not
counted: any number of each may happen, at any point. Nothing in a state counts up, so
the runs are complete for their constants. The serial rings of three slots wrap, fill
and empty. Four planner blocks are the front block, the planned one, one between the
passes' ends and a new one; a junction speed of 0 is a full stop, 1 and 2 are reached or
not depending on the reach, and 4 is more than the longest block can reach from rest.

In `Segments` a move of three steps is cut into one, two or three segments, within
a step or at its end; its second axis steps once, at a place the Bresenham counter decides, and with four
moves the three slots of block data are reused while the ring still holds older
segments. A segment has at most 12 ticks, so that only a countdown from zero wraps. In `Cycles` two axes reach their switches at the same time or, when
one starts closer, one after the other; a search may stop at its switch with the motion ended or not; a pull-off
has two steps, so that it can end early, on the switch or off it; the probe's travel goes beyond the contact,
up to the frame. In `Gcode` three commands are enough
to store a value, select it and use it, or to put a mode, an offset and a motion in
sequence; a coordinate of -1 uses the sign bit of a byte. In `Streaming` an answer (2
bytes) and a report (5) pass RX_BUFFER_SIZE unread, seven bytes of ring hold three lines, and
a line of five characters overflows the line buffer. In `Printer` six operations
include every pair of interruptions of a stroke and an arc, with what prepares them.

The properties of `GrblSafety`: `RestIsStill` (idle, check mode and a hold that is
ready to resume have the steppers off), `MotionEnds` (a state only the end of motion
leaves has the stepper interrupt, CYCLE_STOP or a reset coming), `DoorDeEnergized`,
`SyncAtRest` (`protocol_buffer_synchronize()` returns at rest), `HoldNeedsUser` and
`AlarmLatched`. Those of `GrblLiveness`: `HoldSettles`,
`ResetServed` (from wherever the program is, a reset gets it to the re-initialization or to the halt,
which drops it as it is entered; from within the halt, to the re-initialization),
`HoldHonoured`, `SoftLimitStops`. Those of `Planner`: the entry speeds, which the code
only recomputes from the planned pointer onward and with blocks at their maximum
skipped, are those of a full recomputation over all blocks (`PlanIsBest`); the profile
being executed ends at the speed the next block starts with (`ExitFresh`); a hold ends
before the queued motion does (`HoldFits`); and across blocks, replanning and holds the speed
never changes by more than the distance covered allows (`NoJump`).

Those of `Segments`: all steps queued are traced, once and in their own direction
(`EndsWherePlanned`); the motors have received what is counted (`MotorsAreCounted`);
block data in use is never overwritten (`SlotsAreNotReused`); a segment has a step
(`EverySegmentSteps`: stepper.c:276 expects it, stepper.c:319 says otherwise, stepper.c:391 counts a zero down as
65536). The first and the last except what is `starved`, the second what is `restarted`. Those of `Cycles`: homing that completes is true
of the carriage, homing that does not ends in alarm (`HomingIsTrue`); a probe
that succeeds recorded the point of contact (`ProbeIsTrue`). Those of `Gcode`:
`PositionIsMachine`, `ActiveSystemIsStored`, `SettingsAreStored`, `PinsFollowModes`,
`WorkPositionIsProgrammed` (the inverse conversions of gcode.c and report.c agree under every
offset), `RejectedLineIsDropped` (a line answered with an error changes nothing, but for the program end whose
G54 cannot be read, see the observations) and `ReadFailsOnce`. Those of `Streaming`: `RingHolds` says that no byte is
lost but after one of a few causes, `LinesAreTails` what Grbl makes of the file when none is. Those of `Printer`: `FlowFollowsScript` says when
paste may flow and what is drawn, `TipIsNozzle` how far the sketch may be from the machine.

Every property has a mutant of the code, defined
next to the action it changes, that breaks it.

### Fairness

`FairSpec` assumes three things. The processor always gets back to the main program
(`WF(Main)`): an interrupt handler is finite and the line is slower than the loop. An
enabled timer interrupt fires (`WF(Stepper)`). And while an abort is pending the main
loop, which then drops every line it reads, sees its receive buffer empty
(`SF(abort /\ AutoStart)`): it needs microseconds for a character the serial line
needs 87 for. That is where an abort is acted on; `protocol_execute_line()` alone
does not leave the loop. Nothing is assumed of the user, the host or the switches.
Nothing is assumed in the newer runs, whose properties are safety; `Streaming` is checked
for deadlock instead. The serial module's `FairSpec` assumes that a function once called goes on and that the
transmit interrupt fires when enabled.

### Disagreements with the comments

Three have a run each:

- **A sync can wait for ever** (`SyncReturns`). `protocol_buffer_synchronize()` raises
  CYCLE_START once. If the previous cycle has just ended and its CYCLE_STOP is in the same
  snapshot, the start is judged while the state is still CYCLE and dropped, then the
  state becomes IDLE: with a block queued after the ring ran dry, the loop waits until the
  user sends `~`. The comments at protocol.c:376 and 380 promise that the cycle resumes.
- **A reset during a door stop does not stop the machine** (`ResetKillsMotion`).
  `mc_reset()` tests `sys.suspend == SUSPEND_ENABLE_HOLD`; a safety door adds
  SUSPEND_ENERGIZE to it, so during the deceleration a reset finds no motion state: no
  alarm, and the steppers run until main() resets them. motion_control.c:338-340 and 352
  say it kills them while "actively holding".
- **The halt is not always still** (`HaltIsStill`). A limit switch between the
  acceptance of a cycle start and `st_wake_up()`, a window as long as the spindle's
  power-up delay, finds the machine idle; the start then goes through and the halt is
  entered with the steppers on. And `spindle_run()` switches the spindle after a sync that
  an abort cut short. protocol.c:194 says that everything has shut down.

### Observations

Met while modelling; the properties above state what holds, with these as exceptions.

Stepper:
- A hold whose ring ran dry counts as complete with its deceleration half used; the rest of it is used
  up after the resume and may then end within a step: the zero-step segment is
  refused in a hold only (stepper.c:745). The load of it takes zero for what slow motions may have
  (stepper.c:319), stepper.c:276 expects a step, and the countdown (stepper.c:391) traces it for 65536 ticks.
  The segments of slow motions have a step (`req_mm_increment`); these are the only ones without.
- `sys.position` counts a step one tick before its pulse is sent.

Homing and probing:
- A reset raised between the checkpoint before `$H` and `sys.state = STATE_HOMING` ends the
  homing without an alarm (`early`): `mc_reset()` has nothing left to do.
- A pass does not clear the flags: when a search ends in the very moment its switches are found, its CYCLE_STOP
  cuts the pull-off short once the switches are open, and after the last search machine zero is beyond the
  switch, by up to a pull-off (`stale`).
- Limits are off and feed holds are dropped while homing.
- `probe_state_monitor()` writes back a flag byte read earlier: a reset raised in between is undone.
- A MOTION_CANCEL in the same snapshot as a feed hold is lost (protocol.c:294).
- The checkpoint behind the probe's motion (motion_control.c:318) handles what is pending: a `~` finds
  the machine idle with the rest of the cancelled motion queued, and starts it (protocol.c:304-322).
  `st_reset()` then stops the timer with a step counted and its pulse not sent, and the state stays CYCLE
  with nothing to end it: whatever waits for IDLE waits for a reset.
- A probe that touches before the motion raises an alarm, after which the cycle waits for IDLE
  until a reset. An abort at motion_control.c:305 leaves the monitor active.

G-code and settings:
- The checksum (eeprom.c:133) ors logically: torn records may pass it.
- M2 with an unreadable G54 is refused, with the status of any failed read, after its modes have been
  reset: spindle and coolant stay on with their modes off (gcode.c:1060), and the program flow stays at M2.
  gcode.c:370 says that a line with an error updates no mode, gcode.c:835 that nothing fails from there on.
- G10 without P passes the check meant for P and L (gcode.c:542) and means the active system; G93
  with G0 asks for F (gcode.c:424); changing from G93 to G94 on a G20 line leaves F unscaled.
- In check mode G10, G28.1 and G30.1 write the store, and M2 selects G54 without its vector.

Streaming:
- stream.py:103-106 says "such that we never overflow Grbl's serial read buffer". The limit is a
  bitwise or: with as many answers unread as the ring has bytes it doubles (`wide`).
- A line too long gets two answers, after which the count is one line short.
- `?`, `!` and `~` act inside comments. A setting's bytes keep interrupts off: what arrives
  is overrun. stream.py:92-93 sends settings with `-s` for that; but G10, G28.1, G30.1 and the repair of a
  record write the EEPROM too, and in a counted file may lose bytes (`stored`). A lost line end, or a line of 127
  characters, stops a script for ever. A status report or `$G` shifts the answers the `-s` script reads.

Sketch:
- The last path of a script is never executed, and targets within three pixels are never sent: short segments
  add up to a nozzle that stays behind.
- A pause, DRAW, INIT or HOME in the middle of a stroke makes the rest of it a move; START in the
  middle of an arc turns the next arc about another center (posVector.pde:101); a right click in the middle of one
  lets the rest of it turn about nothing the file names (BodyPrinter.pde:219).
- Jog buttons and the keys that calibrate leave G91 in force, until START, a right click or an arc: a line or click
  in between is a motion relative to where the machine is (`jogged`, `astray`).
- INIT and LOAD leave `order` and `scriptDraw` as they are; with START before a file, a file whose first
  line has no X or Y, or a file loaded while one is drawn, `draw()` ends in an exception; a height
  looked up outside of the grid between M4 and M5 leaves the pump on.
- M8 after PUMPON runs suction and pump together. LOAD has to be clicked twice.

## Proofs

`GrblProofs`, `CyclesProofs`, `SerialProofs`, `PlannerProofs`, `SegmentsProofs`, `GcodeProofs`, `StreamingProofs`
and `PrinterProofs` prove, for every value of the constants that satisfies the named assumptions, what
the runs check on small instances. The assumptions are

- that sizes are positive (`SegsPerBlock`, `MaxBlocks`, `SegCap`, `RxSize > 1`, `TxSize > 1`), `Bytes` is not
  empty, `Burst \in 0..1`, `Jobs \subseteq AllJobs`;
- `CyclesAssumption`: lengths are positive, the switches stand within the frame, there is a first homing cycle;
- `PlannerAssumption`: no block is empty (`plan_buffer_line()` refuses one without steps), speeds are not negative;
- `SegmentsAssumption`: the ring has at least two slots, there are finitely many axes, and a move is a
  vector of integers other than zero; `SegmentFits` (above, on `MaxSegment`, the levels and `WordSize`); `PowersOfTwo` (a level divides the greatest one), true of
  every number of levels but to be said, as the provers know nothing of powers;
- `ByteModAssumption`: a byte has an even number of values, more than the three that the model's two flag bits
  take; `SystemsAssumption`: there is a first coordinate system; `GcodeAssumption`: the settings' numbers
  and values, and coordinates that fit a byte of either sign;
- `StreamingAssumption` (above; no store word is empty), and `PrinterAssumption`: what a line of a file is.

`GrblProofs!Inv` is `TypeOK` and eight conjuncts that say what each label may rely on.
The properties are not inductive alone: `RestIsStill` needs to know that CYCLE_STOP in a
snapshot means the interrupt is off (`StopInv`); that between accepting a start and
waking the stepper nothing but a reset has moved the state (`StartInv`); that an abort
leaves only through the re-initialization (`ResetInv`); which labels a caller may be
waiting at (`ReturnInv`); what the snapshot still shares with the flags (`SnapshotInv`).
`MotionEnds` is itself a conjunct, `DoorInv` follows the de-energizing through the
resume, `AskedInv` ties the snapshot's start to the user's. Each action is shown to
preserve each conjunct it can disturb; interrupts are handled together where they
change the same variables. From `[]Inv` follow `RestTheorem`, `MotionEndsTheorem`,
`DoorTheorem`, `SyncTheorem`, and, with one look at each action, the action
properties `HoldTheorem` and `AlarmTheorem`.

`CyclesProofs` rests on `RestInv`: outside of homing passes and probe motions nothing moves and nothing is
queued (`QuietInv`), so no cycle start finds a block and no step comes; a line does not begin with the CYCLE_STOP
of the motion before it (`StopInv`), which an armed but blocked probe would take for the end of its own; what the
probe monitor will write back is no newer than the flags (`FetchedInv`). `LostTheorem` needs
no more than that (`LostInv`: the reset that fails a homing cycle has raised its alarm). For
`HomingTheorem`, `PassInv` follows one pass: an axis no longer free to step is at its switch; in a pull-off,
where every axis is plus what is left of the way is where the search ended; and a CYCLE_STOP of this pass
means that nothing is left. `HomedInv` keeps the axes homed so far in place. It is proved for `~Underrun`; with a ring
that runs dry TLC finds a pull-off taken for complete. For `ProbeTheorem` a probe either is `Blocked`,
by an alarm that only a reset ends, or `Runs`: not beyond the contact, or beyond it by exactly as much as was counted
since (`Matched`). It is proved for a frame out of the probe's reach, `Touch + ProbeTravel <= End + 1`: an axis held by
the frame goes on being counted, and TLC finds the difference.

`SerialProofs` has lemmas on the ring arithmetic (how storing, advancing the head,
advancing the tail and flushing change `Contents`), an invariant of what the local
variables hold at each label together with `UdrieIffWork`, and from them the two
refinements `RxRefines` and `TxRefines`: every step of the serial module is a `Put`, a
`Get`, a `Flush` or a stutter of `ByteFifo`.

`PlannerProofs` proves the planned pointer (`PointerTheorem`) and `ExitFreshTheorem`
together (`IInv`): the pointer stands on a block, a loaded profile has one, and `ExitFresh`. For these, what the
passes compute is not used, only that they leave every block up to the pointer alone (`ReplannedKeeps`),
that the pointer moves forward (`PlannedMoves`), and that a plan from the front block tells the stepper. What
the passes compute is then proved by induction over the positions of the ring, each time as the least (or
last) position of a set in which a claim fails. `Braking` is the speed from which
the rest of the plan can be braked; `PlanInv` says that every entry speed is the lesser of that and of what can be reached
from the entry before (`Follows`), and that the pointer stands where a longer plan
changes nothing in front of it: on a block at its maximum, or one that accelerates. When a block is
appended, `Braking` only grows (`EarlierKept`), which is why the code may skip all that lies before the pointer: this is `PlanIsBestTheorem`. `SpeedInv`
says that the machine is never faster than it can brake within all that is queued (`First`), which is
`HoldFitsTheorem`, and that between two blocks the speed is the end of one and the start of the other,
which with the profiles gives `NoJumpTheorem`.

`SegmentsProofs` proves `SlotsTheorem` from the order of the block data in the ring (`OrderInv`). A
block is loaded only when the one before has published its last segment, so the k-th oldest of `Waiting`
segments uses data loaded at most `Waiting - k` loads ago, or one more while the
block in hand has published nothing. Block data has one slot less than the
segment ring, and the ring one slot that stays free: the slot loaded next was last loaded longer ago than any
segment can be (`NextIsFree`). That is why the direction the tracer took from its block when it
popped the segment still is its block's (`TracedInv`), and the pulses sent one tick later go
the way they were counted (`PulseInv`), which is `MotorsTheorem`. `PulseInv` lasts until a probing motion is
`restarted`: `RestartInv` says that only then the checkpoint behind it leaves the machine in a cycle, so that the
`st_reset()` of any other probe finds the timer off. `TimerInv` keeps the ring's first filling
and the interrupt apart. `Types` needs to know that a loaded block is in the queue and ends no later than
its forced end (`FrontInv`). `StepsTheorem` is about what a hold that is not `starved` leaves behind: a segment without
steps would need a forced end within a block once the hold is over, and `StopInv` says that by
the time a hold has ended the block it stopped in is either out of the preparation's hands or waits to be loaded again from rest
(`Resting`), with the whole of what is left before it. Whether a hold was starved is decided where the ring runs dry (`Tick`, `Hold`), so
the invariant is kept as `~starved => All`.

`PathTheorem`, for behaviours not `starved`, adds what the state does not keep. `PathOf` speaks of data the code has dropped: the `way`
the planner's corners lie on, and for each slot of block data the move it was loaded for and where that starts (`from`), for each
slot of the ring the step events of its block behind which it starts (`first`) and ends (`last`). `PathInv` says that there
are such data: the segments of a block join without a gap, the first starts at 0, the last ends at the move's `Events`
(`PartInv`), and a block that follows another starts where that one ends. For the tracer, `Balanced` says what Bresenham's
counter stands for: with the steps the axis has taken in this block and what the ticks still due in the segment
will add, it makes up the half event it started from and the axis's share of the step events up to the segment's end, and it never leaves
`1 .. events`. A tick keeps that, whatever the level (`BalancedTick`), since every level divides the
greatest (`LevelTotal`), and once all events are traced every axis has taken all its steps and no more (`BalancedEnd`). TLC finds the two hypotheses on the constants needed. With a ring of two slots there is
one slot of block data, and the interrupt, which starts a block afresh (with its counters in the middle) by a change of its index alone
(stepper.c:322), goes on with the counters of the block before. Without a level the counts are
not doubled, half an event is rounded down, and the last step of an axis may not come. Grbl's sizes are 6 (stepper.h:26) and 3 (stepper.c:41).

`GcodeProofs` follows the modules: what a sequence of byte writes makes of the
memory (`Written`), and when a record of it can be read; what `Parse` makes of any line (a
counterexample would have a shortest prefix); what the three stages of checks let pass (`Passes`);
what `Execute` does to each part of the state. Its invariant speaks of the memory as it will be once the
writes on their way are made (`After`): there the vector in use is the stored one
(`ActiveInv`), the settings are those in use (`SettingsInv`) and, as long as no power failure or bad byte
has come, G54 can be read (`IntactInv`), without which M2 would stop half-way. Soft limits without homing are excluded even
for a record torn by a power failure whose checksum passes, since each byte that may be
on its way is itself one that could be stored (`SoftByte`). `PositionInv` and `WorkInv` are
the two properties with what they say before the parser is ready. `RejectedHolds` and `RepairHolds` are action
properties that follow from what each command writes; the first is proved of every answer that is
an error, the program end that fails after its modes were reset being the exception it names
(`ProgramEndUnread`).

`StreamingProofs` proves `RingTheorem` and `TailsTheorem`. For the first, the script's count covers what is under way (`CoverInv`):
the lines that Grbl has answered, or is about to, are the oldest the script
counts, and from any line end in the pipe onward there are no more bytes than the
lines counted after it have. A byte moved on keeps this, a byte
dropped by `serial_read()` or by the ring only makes the pipe shorter, an answer read takes
the oldest line off both sides. It needs that no line gets an answer of its own too many (`Overflowed`). While no
comparison was wide and no line has written the EEPROM, the pipe is shorter than the ring and interrupts are never
off, so that nothing is lost (`NarrowInv`); after that a byte may be lost, and the count still covers the pipe. The other protocol has one line under way
(`AnswersInv`), and the wake-up bytes fit the ring (`WakeInv`). The lemmas are about running sums, by induction on a well-founded
order; `Char` is there because the provers do not know that a literal is a string.

`TailsTheorem`, that Grbl executes the lines of the file and of one too long its end, rests on `TailInv`: reading
what is in the ring and on the wire, byte after byte (`Advance`), would take the main loop from where it is (`Now`) to the
outcomes of all lines sent, with an empty buffer and outside any comment (`Done`). `Now` counts a line
being executed or stored as done, and a status request taken out on arrival is a byte that `Advance` ignores
(`LeadsWithout`). A byte read is the first step of that reading (`LeadsOn`), and a line sent adds its own outcome behind it
(`LineLeads`): after j characters of it the buffer holds the code behind the last full
buffer (`Within`, `WithinNext`), whatever the size of the buffer. Reading only adds to the log (`LeadsLog`), so the
log is at all times a prefix of the outcomes, and all of them once nothing is left to read. The definitions that
recurse over a sequence (`CommentAfter`, the reading, the outcomes put one after the other) are
unfolded by well-founded induction (`StepByStep`).

`PrinterProofs` proves `FlowTheorem` and `TipTheorem` from what each stage of `draw()` may rely on: when the
pump may be on, which line of a script is being drawn, and how far the tip may be from what Grbl was last sent.

Every safety invariant and every action property of the passing runs is a theorem. Only model-checked: what
needs fairness (the four liveness properties, `WriteReturns`), which is out of the proof system's reach, and the
violated claims.

## Not modelled, and why

Report formatting, number parsing, busy-wait delays, pin maps and configuration
headers have no state the properties could tell apart. The arithmetic of ramps, step
rates and pulse widths, the geometry of arcs and junctions and the heights of the
calibration grid are choices in the models. The startup lines and the build info are records like
the others; the lines run as ordinary ones after the initialization. The sketch's widgets and viewers
are layout, `gcode.pde` is called by nothing. Generated Java, sample g-code and hardware models are not program logic.
XON/XOFF, the safety-door pin, software debounce, CoreXY and STEP_PULSE_DELAY are
compiled out by default. The status-report flag changes nothing but the answers, where `Streaming` has it. How many
of the sketch's bytes wait in Grbl's ring depends on the time motions take, which no module
has.

## Plan

Done: `Realtime`, `Grbl`, `Cycles`, `Serial`, `Planner`, `Segments`, `Gcode` (with `Eeprom`, `Settings`,
`GcodeBlock`), `Streaming` and `Printer`, each with its run and its proofs.

Left to prove: nothing the proof system can reach. Liveness stays with TLC.
