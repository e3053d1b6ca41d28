----------------------------- MODULE ServerLocks -----------------------------
(***************************************************************************)
(* The lock operations of every task of the server, in the order the code  *)
(* makes them.  A guard lives to the end of its block, or of its statement *)
(* when it is a temporary.                                                 *)
(***************************************************************************)
EXTENDS RwLocks

Within(mode, l, body) ==
  <<[op |-> mode, lock |-> l]>> \o body \o <<[op |-> "free", lock |-> l]>>
Brief(mode, l) == Within(mode, l, <<>>)

\* Bridge::handle on an acquisition event.
HaritoraEvent == Within("write", "registry", Brief("write", "calib"))

\* A reset: by control command, by user action of a tracker, by SolarXR.
ResetBackwards == Within("write", "calib", Within("read", "registry", Brief("read", "hmd")))
Reset == Within("read", "registry", Within("write", "calib", Brief("read", "hmd")))

SetSettings == Brief("write", "lengths") \o Brief("write", "target") \o Brief("write", "calib")
ClearDrift == Brief("write", "calib")
Restart == Brief("write", "registry")

\* A frame: the trackers are copied, the pose is solved under three locks.
Frame ==
  Brief("read", "registry")
    \o Within("read", "calib", Within("read", "lengths", Brief("read", "hmd")))
    \o Brief("write", "pose") \o Brief("write", "autobone")

\* The status snapshot, and the last action that a command leaves in it.
LastAction == Brief("write", "status")
Snapshot ==
  Within("write", "status",
    Brief("read", "registry") \o Brief("read", "ports")
      \o Within("read", "registry",
           Brief("read", "pose") \o Within("read", "calib", Brief("read", "hmd"))))

\* UDP: one datagram, or one round of pings.
Datagram == Brief("write", "registry")
SensorInfo == Brief("write", "registry") \o Brief("write", "calib")
PingDevices == Brief("read", "registry") \o Brief("write", "registry")

\* SolarXR: the feed, and the autobone requests.
ProcessBackwards ==          \* mutant: the lengths are locked before the calibration
  Brief("write", "autobone") \o Within("write", "lengths", Brief("read", "calib"))
BoneFeed == Brief("read", "pose")
StartRecording == Brief("read", "target") \o Brief("write", "autobone")
Process ==
  Brief("read", "target") \o Brief("write", "autobone")
    \o Within("read", "calib", Brief("read", "lengths") \o Brief("write", "lengths"))

\* The services with a single lock operation.
HmdPose == Brief("write", "hmd")
ReadStatus == Brief("read", "status")
PortState == Brief("write", "ports")

AppLoop == {HaritoraEvent, Reset, SetSettings, ClearDrift, Restart, Frame, LastAction, Snapshot}
UdpTask == {Datagram, SensorInfo, Reset, PingDevices}
SolarXr == {BoneFeed, Reset, StartRecording, Process}

\* The services with one lock operation never hold a lock while they want
\* another, and take turns here.
ServerPrograms ==
  [app |-> AppLoop, udp |-> UdpTask, solarxr |-> SolarXr,
   services |-> {HmdPose, ReadStatus, PortState}]
ServerTasks == DOMAIN ServerPrograms
ServerLockNames ==
  {"status", "registry", "ports", "pose", "autobone", "target", "calib", "lengths", "hmd"}
=============================================================================
