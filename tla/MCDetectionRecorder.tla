------------------------ MODULE MCDetectionRecorder ------------------------
(* DetectionRecorder on one camera: which topics it sends, how many workers *)
(* listen to it, and the per-camera settings.                               *)
EXTENDS DetectionRecorder

CONSTANTS cam, w1

OneCamera == {cam}
Listening == [w \in Workers |-> cam]
AiCamera == [c \in Cameras |-> {"human", "vehicle"}]
MotionCamera == [c \in Cameras |-> {"cell", "alarm"}]
NoOverride == [c \in Cameras |-> NoType]
WindowOne == [c \in Cameras |-> 1]
=============================================================================
