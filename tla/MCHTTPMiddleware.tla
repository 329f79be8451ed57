--------------------------- MODULE MCHTTPMiddleware ---------------------------
(* HTTPMiddleware for TLC: everything that can go wrong, and nothing but the
   limiter. *)
EXTENDS HTTPMiddleware

MCSettings ==
    { [bearers |-> {"valid"} \cup TokenErrors, limited |-> TRUE, rngFails |-> TRUE, lossy |-> TRUE],
      [bearers |-> {"valid"}, limited |-> TRUE, rngFails |-> FALSE, lossy |-> FALSE],
      [bearers |-> {"valid"}, limited |-> FALSE, rngFails |-> FALSE, lossy |-> FALSE] }
=============================================================================
