--------------------------- MODULE MCJoystickSystem ---------------------------
(***************************************************************************)
(* An instance of JoystickSystem: few turns of the loop for each byte, but *)
(* more than a report needs on its way, and a queue that can be full.      *)
(***************************************************************************)
EXTENDS JoystickSystem
===============================================================================
