------------------------------- MODULE Reflash -------------------------------
(***************************************************************************)
(* What BootReflashAndReset promises its callers, without saying how.      *)
(* The callers (the CD flasher, the CD updater and the web server) rely on *)
(* this: the function either gives up before it has touched the flash and  *)
(* returns, or never returns and reboots the console only when the whole   *)
(* image is in the flash.  In between the content is unspecified, and a    *)
(* power loss keeps whatever was there.                                    *)
(***************************************************************************)

VARIABLES
    phase,      \* "idle", "flashing", "rebooting", "refused" or "off"
    intact,     \* the flash still has the content it had before the call
    complete    \* the requested region of the flash holds the new image

vars == <<phase, intact, complete>>

Phases == {"idle", "flashing", "rebooting", "refused", "off"}

Init ==
    /\ phase = "idle"
    /\ intact = TRUE
    /\ complete \in BOOLEAN

(* A return code: the device is unknown, locked or too small. *)
Refuse ==
    /\ phase = "idle"
    /\ phase' = "refused"
    /\ UNCHANGED <<intact, complete>>

(* "committed to reflash now" *)
Commit ==
    /\ phase = "idle"
    /\ phase' = "flashing"
    /\ UNCHANGED <<intact, complete>>

(* Erasing and programming: the content may become anything. *)
Modify ==
    /\ phase = "flashing"
    /\ phase' = "flashing"
    /\ intact' \in BOOLEAN
    /\ complete' \in BOOLEAN

Reboot ==
    /\ phase = "flashing"
    /\ complete
    /\ phase' = "rebooting"
    /\ UNCHANGED <<intact, complete>>

PowerLoss ==
    /\ phase \in {"idle", "flashing", "rebooting"}
    /\ phase' = "off"
    /\ UNCHANGED <<intact, complete>>

Next == Refuse \/ Commit \/ Modify \/ Reboot \/ PowerLoss

Spec == Init /\ [][Next]_vars
=============================================================================
