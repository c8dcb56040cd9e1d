----------------------------- MODULE Colouring -----------------------------
(***************************************************************************)
(* How a scan is undistorted and coloured (imu_processing.cpp:191-327,      *)
(* cam_processing.cpp:86-135): the loop has the camera look for its image,  *)
(* reads the pose of the image's time out of the copy of the IMU states,    *)
(* and then takes the points, each with the pose of its own time, to the    *)
(* frame of the scan and into the image.  The camera's callback goes on     *)
(* meanwhile.                                                               *)
(*                                                                         *)
(* A pose is the time it is for and the two IMU states it is made of.  That  *)
(* of the scan is the pose of one state, the match of the scan's end, at    *)
(* that state's own time.  The other cameras are like this one and share    *)
(* nothing with it.  The points are taken in parallel, each by itself: the  *)
(* model keeps the last one.                                                *)
(***************************************************************************)
EXTENDS CamProcess, TimeMatch

CONSTANT ImuWindows  \* what synced_imu_states_ may hold: times in order

ASSUME WindowsAssumption ==
  \A states \in ImuWindows :
    states \in Seq([time : Int]) /\ states # <<>> /\ Sorted(states)

VARIABLES
  scan_pc,             \* the loop: "idle", "images" or "points"
  synced_imu_states,
  T_world_img,         \* T_world_img_
  T_world_imu_e,
  point                \* the last point: its pose, the one it is moved to
                       \* (end), its colour

scan_vars == <<scan_pc, synced_imu_states, T_world_img, T_world_imu_e, point>>
all_vars == <<vars, scan_vars>>

NoPose == [head |-> 0, tail |-> 0, at |-> 0]
NoColour == [img |-> 0, pose |-> NoPose]
NoPoint == [pose |-> NoPose, end |-> NoPose, colour |-> NoColour]

ColourInit ==
  /\ Init
  /\ scan_pc = "idle"
  /\ synced_imu_states = <<>>
  /\ T_world_img = NoPose /\ T_world_imu_e = NoPose
  /\ point = NoPoint

-----------------------------------------------------------------------------

\* UndistortPointCloud: GetMatchingImages asks the camera.
StartScan(lidar_end_time, states) ==
  /\ scan_pc = "idle"
  /\ AskForImage(lidar_end_time)
  /\ synced_imu_states' = states
  /\ scan_pc' = "images"
  /\ UNCHANGED <<T_world_img, T_world_imu_e, point>>

SearchImage ==
  /\ Search
  /\ UNCHANGED scan_vars

\* GetTimeMatch
Match(states, t) == CHOOSE m \in 1 .. Len(states) : IsTimeMatch(states, t, m)

\* From tail_idx, the state after the time, and the one before it
Pose(states, t) ==
  LET tail_idx == Match(states, t)
      head_idx == IF tail_idx = 1 THEN 1 ELSE tail_idx - 1
  IN  [head |-> states[head_idx].time, tail |-> states[tail_idx].time, at |-> t]

\* The pose a state has
StatePose(state) == [head |-> state.time, tail |-> state.time, at |-> state.time]

\* The pose of the image, if there is one, and that of the state that matches
\* the scan's end, taken as it is
MatchPoses ==
  /\ scan_pc = "images" /\ match_pc = "idle"
  /\ T_world_img' = IF has_img_match THEN Pose(synced_imu_states, matched_img)
                                     ELSE T_world_img
  /\ T_world_imu_e' =
       StatePose(synced_imu_states[Match(synced_imu_states, match_time)])
  /\ scan_pc' = "points"
  /\ UNCHANGED <<vars, synced_imu_states, point>>

\* Mutant of ColourImage: the image that is there now
ColourImageNow == img_buffer[match_idx]

\* ColorPoint looks into the copy.
ColourImage == matched_img

\* ColorPoint, for a point in front of the camera: of the four pixels around,
\* those in the image and not black make the colour, if there is one.
HasColour(pixels) == "colour" \in pixels

UndistortPoint(pt_time, pixels) ==
  /\ scan_pc = "points"
  /\ point' = [pose |-> Pose(synced_imu_states, pt_time), end |-> T_world_imu_e,
               colour |-> IF has_img_match /\ HasColour(pixels)
                            THEN [img |-> ColourImage, pose |-> T_world_img]
                            ELSE NoColour]
  /\ UNCHANGED <<vars, scan_pc, synced_imu_states, T_world_img, T_world_imu_e>>

EndScan ==
  /\ scan_pc = "points"
  /\ scan_pc' = "idle"
  /\ point' = NoPoint
  /\ UNCHANGED <<vars, synced_imu_states, T_world_img, T_world_imu_e>>

Images ==
  /\ \E stamp \in 1 .. MaxTime : CamCallback(stamp)
  /\ UNCHANGED scan_vars

ColourNext ==
  \/ Images \/ SearchImage \/ MatchPoses \/ EndScan
  \/ \E t \in 1 .. MaxTime, states \in ImuWindows : StartScan(t, states)
  \/ \E t \in 1 .. MaxTime, pixels \in SUBSET {"outside", "black", "colour"} :
       UndistortPoint(t, pixels)

ColourSpec == ColourInit /\ [][ColourNext]_all_vars

FairColourSpec == ColourSpec /\ SF_all_vars(SearchImage)

-----------------------------------------------------------------------------
(* Properties *)

\* A pose is made of the states around its time, or of the first or last ones
\* for a time outside.
Around(pose, states) ==
  LET first == states[1].time
      last == states[Len(states)].time
  IN  IF first <= pose.at /\ pose.at < last
        THEN /\ pose.head <= pose.at /\ pose.at < pose.tail
             /\ \A k \in 1 .. Len(states) :
                  states[k].time <= pose.head \/ pose.tail <= states[k].time
        ELSE IF pose.at < first THEN pose.head = first /\ pose.tail = first
                                ELSE pose.tail = last

\* The pose is that of the first state after the time, or of the newest one if
\* there is none after it.
FirstAfter(pose, states, t) ==
  LET last == states[Len(states)].time
  IN  /\ \E k \in 1 .. Len(states) : pose = StatePose(states[k])
      /\ IF t < last
           THEN /\ t < pose.at
                /\ \A k \in 1 .. Len(states) :
                     states[k].time <= t \/ pose.at <= states[k].time
           ELSE pose.at = last

\* A point is moved from the pose of its own time to that of the first state
\* after its scan's end, and coloured from the image that was looked for at this
\* scan's end, through the pose of that image's time, whatever images have come
\* meanwhile; no scan is coloured with the image, or the pose, of the scan
\* before (imu_processing.cpp:199-271, cam_processing.cpp:50-80).
ColouredFromItsImage ==
  scan_pc = "points" /\ point # NoPoint =>
    /\ Around(point.pose, synced_imu_states)
    /\ FirstAfter(point.end, synced_imu_states, match_time)
    /\ point.colour # NoColour =>
         /\ matched_for = match_time
         /\ point.colour.img = matched_img
         /\ point.colour.pose.at = matched_img
         /\ Around(point.colour.pose, synced_imu_states)
=============================================================================
