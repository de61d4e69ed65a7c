---------------------------- MODULE MCHidDevice ----------------------------
(***************************************************************************)
(* Small instances of HidDevice.  The idle periods are scaled down with    *)
(* ByteBase, which keeps them on both sides of the byte boundary that      *)
(* makes loads and stores of IdleMSRemaining divisible; FrameMod is scaled *)
(* down so that the frame number wraps round.                              *)
(***************************************************************************)
EXTENDS HidDevice

\* Every request the interface answers, and a second SetConfiguration.
AllRequests == {"GetReport", "SetReport", "SetIdle", "GetIdle", "SetProtocol",
                "GetProtocol", "SetConfiguration"}

\* Requests that change what the idle timer is loaded with, or clear it.
IdleRequests == {"SetIdle", "SetConfiguration"}

\* A host that reads reports over both endpoints and sets the idle rate.
AskingHost == {"GetReport", "SetIdle"}
=============================================================================
