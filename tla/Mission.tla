------------------------------ MODULE Mission ------------------------------
(***************************************************************************)
(* The mission node (uav1_fastlio_mission.py): a phase machine driven by   *)
(* a timer that arms the UAVs, takes them off together, flies the first    *)
(* one around a rectangle and lets all of them hover.  The node has one    *)
(* executor thread.                                                        *)
(*                                                                         *)
(* PX4, behind topics that lose messages, is external: it arms, enters and *)
(* leaves offboard mode, and a UAV that is armed and in offboard mode goes *)
(* to its setpoint.  Heights count upwards.                                *)
(***************************************************************************)
EXTENDS Integers, FiniteSetsExt

CONSTANTS
  ids, Flyer,    \* the UAVs, and the one that flies a rectangle
  home,          \* where each of them starts
  takeoff_z, rect_x, rect_y,
  prestream_sec, arm_timeout_sec, takeoff_sec, settle_sec, leg_sec,
  CommandPeriod,
  Period,        \* times from one timer callback to the next
  Lag,           \* times from one look at the clock to the next in a callback
  MaxDrops, MaxRestarts    \* bounds

Position == Int \X Int \X Int

ASSUME MissionAssumption ==
  /\ Flyer \in ids /\ home \in [ids -> Position] /\ takeoff_z \in [ids -> Nat]
  /\ {rect_x, rect_y, settle_sec} \subseteq Nat
  /\ {prestream_sec, arm_timeout_sec, takeoff_sec, leg_sec, CommandPeriod}
       \subseteq Nat \ {0}
  /\ \A i \in ids : home[i][3] \in 0 .. takeoff_z[i]  \* below where it is to go
  /\ Period \subseteq Nat \ {0} /\ Lag \subseteq Nat
  /\ \A late \in Lag, p \in Period : late <= p   \* callbacks do not overlap
  /\ MaxDrops \in Nat /\ MaxRestarts \in Nat

VARIABLES
  phase,
  phase_age, command_age,    \* times since phase_start and last_command_time
  positions, status, origin,
  setpoint,                  \* published last
  period,                    \* history: the time since the callback before
  stream_age,                \* history: how long setpoints have been sent,
                             \* prestream_sec at most, -1 before the first
  armed, offboard, at,       \* PX4: its state, and where the UAV is
  drops, restarts

node == <<phase, phase_age, command_age, positions, status, origin>>
stream == <<setpoint, period, stream_age>>
px4 == <<armed, offboard, at>>
vars == <<node, stream, px4, drops, restarts>>

Unknown == <<>>
NotReady == [armed |-> FALSE, offboard |-> FALSE]

Init ==
  /\ phase = "WAIT_ODOMETRY" /\ phase_age = 0 /\ command_age = CommandPeriod
  /\ positions = [i \in ids |-> Unknown] /\ origin = home
  /\ status = [i \in ids |-> NotReady]
  /\ setpoint = home /\ period = 0 /\ stream_age = -1
  /\ armed = [i \in ids |-> FALSE] /\ offboard = [i \in ids |-> FALSE]
  /\ at = home
  /\ drops = 0 /\ restarts = 0

-----------------------------------------------------------------------------
(* Targets.                                                                 *)

AtMost(n, cap) == IF n > cap THEN cap ELSE n

\* The point num / den of the way from a to b, and b beyond it.
Lerp(a, b, num, den) ==
  LET part == AtMost(num, den)
  IN <<a[1] + (part * (b[1] - a[1])) \div den,
       a[2] + (part * (b[2] - a[2])) \div den,
       a[3] + (part * (b[3] - a[3])) \div den>>

\* Mutant: the ground is taken to be at height 0.
GroundTargetsAtZero(from) == [i \in ids |-> <<from[i][1], from[i][2], 0>>]

GroundTargets(from) == from

AirborneTargets == [i \in ids |-> <<origin[i][1], origin[i][2], takeoff_z[i]>>]

TakeoffTargets(age) ==
  [i \in ids |-> Lerp(origin[i], AirborneTargets[i], age, takeoff_sec)]

\* The corners of the rectangle, from its start back to it.
Corner(k) ==
  LET p == AirborneTargets[Flyer]
  IN <<IF k \in {1, 2} THEN p[1] + rect_x ELSE p[1],
       IF k \in {2, 3} THEN p[2] + rect_y ELSE p[2], p[3]>>

SquareTargets(age) ==
  LET leg == age \div leg_sec
  IN IF leg >= 4 THEN AirborneTargets
     ELSE [AirborneTargets EXCEPT
             ![Flyer] = Lerp(Corner(leg), Corner(leg + 1), age % leg_sec, leg_sec)]

-----------------------------------------------------------------------------
(* Helpers of the timer callback.                                           *)

Publish(targets) ==
  /\ setpoint' = targets
  /\ stream_age' = IF stream_age < 0 THEN 0
                   ELSE AtMost(stream_age + period', prestream_sec)

\* Mutant: the clock of the phase is not started again.
SetPhaseKeepsClock(next) == phase' = next /\ phase_age' = phase_age + period'

SetPhase(next) == phase' = next /\ phase_age' = 0

StayInPhase == phase' = phase /\ phase_age' = phase_age + period'

\* Every CommandPeriod each UAV is told to enter offboard mode and to arm; any
\* of the commands may be lost or refused.
RequestOffboardAndArm ==
  IF command_age + period' < CommandPeriod
  THEN /\ command_age' = command_age + period'
       /\ UNCHANGED px4
  ELSE /\ command_age' = 0
       /\ \E modes \in SUBSET {i \in ids : ~offboard[i]},
            arms \in SUBSET {i \in ids : ~armed[i]} :
            /\ offboard' = [i \in ids |-> offboard[i] \/ i \in modes]
            /\ armed' = [i \in ids |-> armed[i] \/ i \in arms]
       /\ UNCHANGED at

NoRequest ==
  /\ command_age' = AtMost(command_age + period', CommandPeriod)
  /\ UNCHANGED px4

AllArmedOffboard == \A i \in ids : status[i].armed /\ status[i].offboard

-----------------------------------------------------------------------------
(* timer_cb, phase by phase; Age is elapsed() in this callback.             *)

Age == phase_age + period'

\* Mutant: the first report of any UAV is enough.
WaitOdometryForOne ==
  /\ phase = "WAIT_ODOMETRY"
  /\ IF \A i \in ids : positions[i] = Unknown
     THEN UNCHANGED <<phase, phase_age, origin, setpoint, stream_age>>
     ELSE /\ origin' = positions
          /\ SetPhase("PRESTREAM")
          /\ Publish(GroundTargets(origin'))
  /\ NoRequest /\ UNCHANGED <<positions, status>>

\* Once every UAV has reported, where it is becomes its origin, and the phase
\* after this one begins in the same callback.
WaitOdometry ==
  /\ phase = "WAIT_ODOMETRY"
  /\ IF \E i \in ids : positions[i] = Unknown
     THEN UNCHANGED <<phase, phase_age, origin, setpoint, stream_age>>
     ELSE /\ origin' = positions
          /\ SetPhase("PRESTREAM")
          /\ Publish(GroundTargets(origin'))
  /\ NoRequest /\ UNCHANGED <<positions, status>>

\* Mutant: the commands are sent while setpoints are only being prestreamed.
PrestreamWithRequest ==
  /\ phase = "PRESTREAM"
  /\ Publish(GroundTargets(origin))
  /\ IF Age >= prestream_sec THEN SetPhase("ARM_OFFBOARD") ELSE StayInPhase
  /\ RequestOffboardAndArm /\ UNCHANGED <<positions, status, origin>>

Prestream ==
  /\ phase = "PRESTREAM"
  /\ Publish(GroundTargets(origin))
  /\ IF Age >= prestream_sec THEN SetPhase("ARM_OFFBOARD") ELSE StayInPhase
  /\ NoRequest /\ UNCHANGED <<positions, status, origin>>

\* Mutant: there is no timeout.
ArmOffboardWaits ==
  /\ phase = "ARM_OFFBOARD"
  /\ Publish(GroundTargets(origin))
  /\ RequestOffboardAndArm
  /\ IF AllArmedOffboard THEN SetPhase("TAKEOFF")
     ELSE phase' = phase /\ phase_age' = AtMost(Age, arm_timeout_sec)
  /\ UNCHANGED <<positions, status, origin>>

ArmOffboard ==
  /\ phase = "ARM_OFFBOARD"
  /\ Publish(GroundTargets(origin))
  /\ RequestOffboardAndArm
  /\ IF AllArmedOffboard \/ Age >= arm_timeout_sec THEN SetPhase("TAKEOFF")
     ELSE StayInPhase
  /\ UNCHANGED <<positions, status, origin>>

Takeoff ==
  /\ phase = "TAKEOFF"
  /\ RequestOffboardAndArm
  /\ Publish(TakeoffTargets(Age))
  /\ IF Age >= takeoff_sec THEN SetPhase("SETTLE") ELSE StayInPhase
  /\ UNCHANGED <<positions, status, origin>>

Settle ==
  /\ phase = "SETTLE"
  /\ RequestOffboardAndArm
  /\ Publish(AirborneTargets)
  /\ IF Age >= settle_sec THEN SetPhase("SQUARE") ELSE StayInPhase
  /\ UNCHANGED <<positions, status, origin>>

\* The clock is looked at for the targets and, late after that, for the end.
Square(late) ==
  /\ phase = "SQUARE"
  /\ RequestOffboardAndArm
  /\ Publish(SquareTargets(Age))
  /\ IF Age + late >= 4 * leg_sec THEN SetPhase("FINAL_HOLD") ELSE StayInPhase
  /\ UNCHANGED <<positions, status, origin>>

FinalHold ==
  /\ phase = "FINAL_HOLD"
  /\ Publish(AirborneTargets)
  /\ NoRequest
  /\ UNCHANGED <<phase, phase_age, positions, status, origin>>

TimerCallback ==
  /\ period' \in Period
  /\ \/ WaitOdometry \/ Prestream \/ ArmOffboard \/ Takeoff \/ Settle
     \/ \E late \in Lag : Square(late)
     \/ FinalHold
  /\ UNCHANGED <<drops, restarts>>

-----------------------------------------------------------------------------
(* Subscriptions.  What is stored is read in the phases named here only.    *)

\* A report without finite numbers is dropped.
OdomCallback(i) ==
  /\ phase = "WAIT_ODOMETRY"
  /\ positions' = [positions EXCEPT ![i] = at[i]]
  /\ UNCHANGED <<phase, phase_age, command_age, status, origin, stream, px4,
                 drops, restarts>>

StatusCallback(i) ==
  /\ phase \in {"WAIT_ODOMETRY", "PRESTREAM", "ARM_OFFBOARD"}
  /\ status' = [status EXCEPT ![i] = [armed |-> armed[i], offboard |-> offboard[i]]]
  /\ UNCHANGED <<phase, phase_age, command_age, positions, origin, stream, px4,
                 drops, restarts>>

-----------------------------------------------------------------------------
(* PX4 and the node's process.                                              *)

Flying(i) == armed[i] /\ offboard[i]

\* PX4 reports many times in a timer period: a position once reported keeps up.
Follow(i) ==
  /\ Flying(i)
  /\ at' = [at EXCEPT ![i] = setpoint[i]]
  /\ positions' = IF phase = "WAIT_ODOMETRY" /\ positions[i] # Unknown
                  THEN [positions EXCEPT ![i] = setpoint[i]] ELSE positions
  /\ UNCHANGED <<phase, phase_age, command_age, status, origin, stream,
                 armed, offboard, drops, restarts>>

\* A failsafe or the pilot takes the UAV out of offboard mode; on the ground it
\* may also disarm itself.
Drop(i) ==
  /\ drops < MaxDrops
  /\ drops' = drops + 1
  /\ \/ offboard' = [offboard EXCEPT ![i] = FALSE] /\ UNCHANGED armed
     \/ /\ at[i] = home[i]
        /\ armed' = [armed EXCEPT ![i] = FALSE] /\ UNCHANGED offboard
  /\ UNCHANGED <<node, stream, at, restarts>>

\* The node is started again, whatever the UAVs are doing.
Restart ==
  /\ restarts < MaxRestarts
  /\ restarts' = restarts + 1
  /\ phase' = "WAIT_ODOMETRY" /\ phase_age' = 0 /\ command_age' = CommandPeriod
  /\ positions' = [i \in ids |-> Unknown] /\ origin' = home
  /\ status' = [i \in ids |-> NotReady]
  /\ stream_age' = -1
  /\ UNCHANGED <<setpoint, period, px4, drops>>

Next ==
  \/ TimerCallback
  \/ \E i \in ids : OdomCallback(i) \/ StatusCallback(i) \/ Follow(i) \/ Drop(i)
  \/ Restart

Spec == Init /\ [][Next]_vars

\* The timer keeps firing and PX4 keeps reporting positions.
FairSpec ==
  /\ Spec
  /\ WF_vars(TimerCallback)
  /\ \A i \in ids : WF_vars(OdomCallback(i))

-----------------------------------------------------------------------------
(* Properties.                                                              *)

Phases == {"WAIT_ODOMETRY", "PRESTREAM", "ARM_OFFBOARD", "TAKEOFF", "SETTLE",
           "SQUARE", "FINAL_HOLD"}

\* The type of every variable; an origin is a position that was reported.
TypeOK ==
  /\ phase \in Phases /\ phase_age \in Nat /\ command_age \in 0 .. CommandPeriod
  /\ positions \in [ids -> Position \cup {Unknown}]
  /\ origin \in [ids -> Position] /\ setpoint \in [ids -> Position]
  /\ status \in [ids -> [armed : BOOLEAN, offboard : BOOLEAN]]
  /\ period \in Period \cup {0} /\ stream_age \in -1 .. prestream_sec
  /\ armed \in [ids -> BOOLEAN] /\ offboard \in [ids -> BOOLEAN]
  /\ at \in [ids -> Position]
  /\ drops \in 0 .. MaxDrops /\ restarts \in 0 .. MaxRestarts

Size(n) == IF n < 0 THEN -n ELSE n
Distance(p, q) == Size(p[1] - q[1]) + Size(p[2] - q[2]) + Size(p[3] - q[3])

\* The speed at which the mission flies a UAV, up or along a leg.
CeilDiv(a, b) == (a + b - 1) \div b
LegSpeeds == {CeilDiv(rect_x, leg_sec), CeilDiv(rect_y, leg_sec)}
Speed(i) == Max({CeilDiv(takeoff_z[i], takeoff_sec)}
                \cup (IF i = Flyer THEN LegSpeeds ELSE {}))

\* From the start of the stream to the end of the mission the setpoint of a UAV
\* never moves faster than the mission flies it, across late timer callbacks and
\* changes of phase (uav1_fastlio_mission.py 250-280, 328-375).
SpeedBound ==
  [][phase # "WAIT_ODOMETRY" =>
       \A i \in ids : Distance(setpoint'[i], setpoint[i]) <= Speed(i) * period']_vars

\* No UAV is told to enter offboard mode or to arm before setpoints have been
\* sent for prestream_sec, as PX4 demands (uav1_fastlio_mission.py 327-332).
StreamedBeforeOffboard == command_age < CommandPeriod => stream_age = prestream_sec

\* A node that starts, also in flight, first asks every UAV to stay where it is
\* (uav1_fastlio_mission.py 316-329).
RestartInPlace ==
  [][phase = "WAIT_ODOMETRY" /\ phase' # "WAIT_ODOMETRY" =>
       \A i \in ids : setpoint'[i] = at[i]]_vars

\* Whatever PX4 refuses, the mission gets through all its phases
\* (uav1_fastlio_mission.py 313-375).
MissionCompletes == <>[](phase = "FINAL_HOLD")

\* A UAV that begins to follow its setpoint is close to it: the UAVs climb in
\* step, on a linear ramp (uav1_fastlio_mission.py 347). It does not hold: the
\* ramp runs by the clock, also for a UAV that is armed late (340-350).
ClimbsOnRamp ==
  [][\A i \in ids : ~Flying(i) /\ Flying(i)' =>
       Distance(setpoint'[i], at[i]) <= Speed(i) * Max(Period)]_vars
=============================================================================
