--------------------------- MODULE SessionContract ---------------------------
(***************************************************************************)
(* What a camera session promises to whoever runs it (run_lan_preview, as  *)
(* the threads of serve.py and manager.py and the command line see it): it *)
(* signals for a bounded time, which stop does not shorten; while it       *)
(* receives, and only then, it holds the media sinks; stop makes it leave  *)
(* its loop; and it leaves every stage for a later one.                    *)
(***************************************************************************)
CONSTANT
  Interruptible    \* Ctrl+C may cut the closing of the sinks short

VARIABLES
  stage,           \* "waiting", "signaling", "media", "closing" or "ended"
  attached,        \* its media sinks are in use
  stop             \* stop_event

vars == <<stage, attached, stop>>

Init == stage \in {"waiting", "signaling"} /\ attached = FALSE /\ stop = FALSE

Begin == stage = "waiting" /\ stage' = "signaling" /\ UNCHANGED <<attached, stop>>

Attach == stage = "signaling" /\ stage' = "media" /\ attached' = TRUE /\ UNCHANGED stop

GiveUp == stage = "signaling" /\ stage' \in {"closing", "ended"} /\ UNCHANGED <<attached, stop>>

Leave ==
  /\ stage = "media" /\ stage' = "closing"
  /\ attached' = FALSE \/ (Interruptible /\ attached' = attached)
  /\ UNCHANGED stop

End == stage = "closing" /\ stage' = "ended" /\ UNCHANGED <<attached, stop>>

Stop == ~stop /\ stop' = TRUE /\ UNCHANGED <<stage, attached>>

Next == Begin \/ Attach \/ GiveUp \/ Leave \/ End \/ Stop

Spec == Init /\ [][Next]_vars

\* nobody has to begin or to stop a session, and an undisturbed loop is for ever
FairSpec ==
  /\ Spec
  /\ WF_vars(Attach \/ GiveUp) /\ WF_vars(stop /\ Leave) /\ WF_vars(End)
=============================================================================
