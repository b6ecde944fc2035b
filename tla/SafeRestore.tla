----------------------------- MODULE SafeRestore -----------------------------
(***************************************************************************)
(* What a restore promises, whatever is interrupted: the target is either   *)
(* as it was found, or being restored, or installed; what was restored is   *)
(* cleaned before it is installed; and the web service starts to read only  *)
(* what is installed.  RestoreFlow implements this.                         *)
(***************************************************************************)
VARIABLES
    phase,      \* "target" (empty), "underway", "installed"
    content,    \* what the database holds: "nothing", "raw" or "clean"
    reader      \* the web service is connected to it

vars == <<phase, content, reader>>

Init == phase = "target" /\ content = "nothing" /\ reader = FALSE

Begin ==
    /\ phase = "target"
    /\ phase' = "underway"
    /\ UNCHANGED <<content, reader>>

Load ==
    /\ phase = "underway" /\ content = "nothing" /\ ~ reader
    /\ content' = "raw"
    /\ UNCHANGED <<phase, reader>>

Clean ==
    /\ phase = "underway" /\ content = "raw"
    /\ content' = "clean"
    /\ UNCHANGED <<phase, reader>>

Open ==
    /\ phase = "underway" /\ content = "clean"
    /\ phase' = "installed"
    /\ UNCHANGED <<content, reader>>

\* The runtime role turns out not to be able to use it.
CloseAgain ==
    /\ phase = "installed"
    /\ phase' = "underway"
    /\ UNCHANGED <<content, reader>>

Discard ==
    /\ phase = "underway"
    /\ phase' = "target"
    /\ content' = "nothing"
    /\ reader' = FALSE

Connect ==
    /\ phase = "installed"
    /\ reader' = TRUE
    /\ UNCHANGED <<phase, content>>

Leave ==
    /\ reader
    /\ reader' = FALSE
    /\ UNCHANGED <<phase, content>>

Next == Begin \/ Load \/ Clean \/ Open \/ CloseAgain \/ Discard \/ Connect \/ Leave

Spec == Init /\ [][Next]_vars
=============================================================================
