---------------------------- MODULE MCRedisLimiter ----------------------------
(* RedisLimiter for TLC: callers c1 and c2 in instance i1, c3 in i2. *)
EXTENDS RedisLimiter, TLC

CONSTANTS i1, i2, c1, c2, c3

HomeOf == [c \in Callers |-> IF c = c3 THEN i2 ELSE i1]

\* Two instances with a caller each are interchangeable.
SwapInstances == c1 :> c3 @@ c3 :> c1 @@ i1 :> i2 @@ i2 :> i1

Symmetry == {SwapInstances}
================================================================================
