-------------------------------- MODULE Ledger --------------------------------
(***************************************************************************)
(* What one conversation may do to the business's calendar, whatever its   *)
(* requests, transitions and failures: appointments are added and never    *)
(* withdrawn, the one the conversation points at is among them, and a      *)
(* finished conversation stays finished.                                   *)
(***************************************************************************)
EXTENDS Naturals

CONSTANTS Slots

VARIABLES
    booked,    \* the appointments stored for this conversation
    chosen,    \* the one it calls its own, or NoSlot
    finished   \* whether the conversation is over

vars == <<booked, chosen, finished>>

NoSlot == 0

Init == booked = {} /\ chosen = NoSlot /\ finished = FALSE

(* One commit of the database may hold several saves of one request.        *)
Commit ==
    /\ booked' \in SUBSET Slots /\ booked \subseteq booked'
    /\ chosen' = chosen \/ chosen' \in booked'
    /\ finished' \in BOOLEAN /\ (finished => finished')

Spec == Init /\ [][Commit]_vars
===============================================================================
