----------------------- MODULE MCDeviceConfiguration -----------------------
(* DeviceConfiguration on a small instance: three observers, the workload  *)
(* manager in the middle, two contents besides the default one.            *)
EXTENDS DeviceConfiguration

CONSTANTS c1, c2, default

MCContents == {c1, c2, default}
=============================================================================
