------------------------------- MODULE MCTop -------------------------------
(* TopLoop for models in which other behaviours leave its variables unused. *)
EXTENDS TopLoop

ProcessUnused ==
  /\ live = {} /\ renamed = {} /\ clock = 1 /\ run = Command(SignalOptions(NoProcess))
LoopUnused ==
  /\ open = FALSE /\ frame = <<>> /\ view = "list" /\ inspected = NoProcess /\ selected = 0
  /\ narrow = FALSE /\ reversed = FALSE /\ box = "none" /\ paused = FALSE /\ failed = FALSE
  /\ inFlight = FALSE /\ available = TRUE /\ due = FALSE
  /\ worker = "idle" /\ asked = 0 /\ answers = <<>> /\ dialog = NoDialog
  /\ keys = 0 /\ faults = 0
=============================================================================
