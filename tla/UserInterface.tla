---------------------------- MODULE UserInterface ----------------------------
(***************************************************************************)
(* What the panels of the RViz plugin share: one thread, Qt's, that runs    *)
(* their slots one after the other, and rclcpp's context.  A slot that      *)
(* shows a modal box runs a second event loop inside; a slot that waits     *)
(* for a service runs none.                                                 *)
(***************************************************************************)
VARIABLES ui,     \* "events", "dialog" (a modal box), "call" (a slot waits), or "ended"
          ok,     \* rclcpp::ok()
          fault   \* "none", or the undefined behaviour that happened

uiVars == <<ui, ok, fault>>

UiInit ==
    /\ ui = "events"
    /\ ok = TRUE
    /\ fault = "none"

\* Timers and posted events are served, also under a modal box ...
Responsive == ui \in {"events", "dialog"}

\* ... but the user can touch the panels only without one.
Clickable == ui = "events"

\* A signal to RViz: the context becomes invalid, the panels are still there.
Interrupt ==
    /\ ok
    /\ ok' = FALSE
    /\ UNCHANGED <<ui, fault>>

UiTypeOK ==
    /\ ui \in {"events", "dialog", "call", "ended"}
    /\ ok \in BOOLEAN
    /\ fault \in {"none", "destroyed panel"}
=============================================================================
