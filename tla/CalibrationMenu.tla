-------------------------- MODULE CalibrationMenu --------------------------
(***************************************************************************)
(* The calibration of the touch screen (menus/calibration_menu.cpp): five  *)
(* points are touched one after the other.  They replace the old ones in   *)
(* RAM as they come; what the screen is read with, Min, Max and Range, is  *)
(* calculated when all have been saved.                                    *)
(* A point is the visit that touched it, Factory before there was any and  *)
(* Stale if it was touched before the visit that took it for a point.      *)
(***************************************************************************)
EXTENDS Gui

CONSTANTS
  TOTAL,      \* 5 points
  MaxVisits   \* bound: visits of the calibration

ASSUME CalibrationAssumption == TOTAL \in Nat \ {0} /\ MaxVisits \in Nat

VARIABLES
  CalibrationLocations,   \* in RAM
  caldata,                \* in flash
  inUse,                  \* those Min, Max and Range were calculated from
  CurrentIndex,
  visit,                  \* history: the number of the visit
  stale                   \* history: touches in the queue made before it

calibrationVars == <<CalibrationLocations, caldata, inUse, CurrentIndex, visit, stale>>

Factory == 0
Stale == MaxVisits + 1
Points == [0..(TOTAL - 1) -> 0..Stale]
AllOf(v) == [n \in 0..(TOTAL - 1) |-> v]
\* calculate reads the corners: not MID, the first.
Corners(points) == [n \in 1..(TOTAL - 1) |-> points[n]]

CalibrationTypeOK ==
  /\ CalibrationLocations \in Points /\ caldata \in Points
  /\ inUse = Corners([n \in 0..(TOTAL - 1) |-> IF n = 0 THEN Factory ELSE inUse[n]])
  /\ CurrentIndex \in 0..TOTAL
  /\ visit \in 0..MaxVisits /\ stale \in 0..QUEUE_SIZE

CalibrationStart ==
  /\ CalibrationLocations = AllOf(Factory)
  /\ caldata = AllOf(Factory)
  /\ inUse = Corners(AllOf(Factory))
  /\ CurrentIndex = TOTAL
  /\ visit = 0 /\ stale = 0

\* loadCalibrationData and calculate, when the badge starts.
initNVS ==
  /\ CalibrationLocations' = caldata
  /\ inUse' = Corners(caldata)
  /\ CurrentIndex' = TOTAL
  /\ stale' = 0
  /\ UNCHANGED <<caldata, visit>>

\* onInit, if the calibration comes next.
CalibrationInit(next) ==
  IF next = "calibration" /\ cur # "calibration"
  THEN /\ visit < MaxVisits
       /\ visit' = visit + 1
       /\ CurrentIndex' = 0
       /\ stale' = Emptied("calibration", queue["calibration"])
       /\ UNCHANGED <<CalibrationLocations, caldata, inUse>>
  ELSE UNCHANGED calibrationVars

-----------------------------------------------------------------------------
Point == IF stale > 0 THEN Stale ELSE visit

\* A release is a point, a press is not.
TakePoint(t) ==
  IF t.up
  THEN /\ CalibrationLocations' = [CalibrationLocations EXCEPT ![CurrentIndex] = Point]
       /\ CurrentIndex' = CurrentIndex + 1
  ELSE UNCHANGED <<CalibrationLocations, CurrentIndex>>

\* setBlob, and calculate if it could be saved.
SaveCalibration ==
  \/ caldata' = CalibrationLocations' /\ inUse' = Corners(CalibrationLocations')
  \/ UNCHANGED <<caldata, inUse>>

\* Any button leaves, and the points touched so far stay in RAM.
RunCalibration ==
  /\ Run("calibration")
  /\ \E t \in Touch :
       /\ IsNext("calibration", t)
       /\ TakePoint(t)
  /\ IF ~wasAnyButtonReleased /\ CurrentIndex' >= TOTAL
     THEN SaveCalibration
     ELSE UNCHANGED <<caldata, inUse>>
  /\ Then(IF wasAnyButtonReleased \/ CurrentIndex' >= TOTAL THEN "main" ELSE "calibration",
          Taken("calibration"))
  /\ stale' = IF stale > 0 THEN stale - 1 ELSE 0
  /\ UNCHANGED visit

-----------------------------------------------------------------------------
(* Properties. *)

\* Points are replaced one by one, the user may leave between any two, touches
\* of an earlier visit may wait in the queue, the save may fail and the badge
\* may restart: still what reads the screen is what is in flash, and that is
\* the points of one visit, each touched during it.
CalibrationWhole ==
  /\ inUse = Corners(caldata)
  /\ \E v \in 0..MaxVisits : caldata = AllOf(v)
=============================================================================
