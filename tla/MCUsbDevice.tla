---------------------------- MODULE MCUsbDevice ----------------------------
(***************************************************************************)
(* Instances of UsbDevice.  The module is finite as it stands: an instance *)
(* only says what the host does beyond enumerating the device.             *)
(***************************************************************************)
EXTENDS UsbDevice

\* One request of each kind of wait, and the two that touch the configuration.
SafetyRequests == {"Unconfigure", "BadConfiguration", "GetStatus", "Feature"}
=============================================================================
