--------------------------- MODULE MCRateLimiter ---------------------------
(* Two limits, a disabled one and a negative rate, which SetRate accepts.   *)
EXTENDS RateLimiter

MCRates == {<<4, 1>>, <<3, 2>>, <<0, 0>>, <<2, -1>>}
=============================================================================
