--------------------------- MODULE BackendPromise ---------------------------
(***************************************************************************)
(* What the backend supervisor promises the rest of the application.  The   *)
(* backend is down, being started, up, or waiting to be restarted.  Only    *)
(* the application starts one that is down; one that stops by itself, or    *)
(* fails to come up again, is restarted at most MaxAttempts times in a row  *)
(* without having been up; and a stop is final until the next start.        *)
(***************************************************************************)
EXTENDS Naturals

CONSTANT MaxAttempts

VARIABLES phase, attempts

vars == <<phase, attempts>>

Init == phase = "down" /\ attempts = 0

Start ==
  /\ phase = "down" /\ phase' = "starting"
  /\ attempts' = 0

ComesUp ==
  /\ phase = "starting" /\ phase' = "up"
  /\ attempts' = 0

\* A first start that fails, a backend that is not to be restarted, a restart
\* that is blocked or one too many.  One that fails at once was never starting.
GoesDown ==
  /\ phase # "down" /\ phase' = "down"
  /\ UNCHANGED attempts

WillRetry ==
  /\ phase = "up" \/ (phase \in {"starting", "waiting"} /\ attempts > 0)
  /\ attempts < MaxAttempts
  /\ phase' = "waiting"
  /\ attempts' = attempts + 1

Retry ==
  /\ phase = "waiting" /\ phase' = "starting"
  /\ UNCHANGED attempts

Stop == phase' = "down" /\ attempts' = 0

Next == Start \/ ComesUp \/ GoesDown \/ WillRetry \/ Retry \/ Stop

Spec == Init /\ [][Next]_vars
=============================================================================
