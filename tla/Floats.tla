--------------------------------- MODULE Floats ---------------------------------
(***************************************************************************)
(* The floats of Python, as far as the generators use them: fractions,     *)
(* counted in units of the smallest one.  What is computed is rounded to   *)
(* the nearest of them, and half way between two to the one whose mantissa *)
(* is even.                                                                *)
(***************************************************************************)
EXTENDS Integers

CONSTANT Floats   \* the numbers a float can hold, in the smallest unit

\* Of two floats next to each other one has an even mantissa, whose unit is their distance.
Even(f, unit) == f % (2 * unit) = 0
Neighbours(f, g) == f < g /\ \A h \in Floats : h <= f \/ g <= h

ASSUME FloatsAssumption ==
    /\ Floats \subseteq Int /\ 0 \in Floats
    /\ \A f, g \in Floats : Neighbours(f, g) => Even(f, g - f) \/ Even(g, g - f)

Absolute(x) == IF x < 0 THEN -x ELSE x

\* How far x is from the nearest floats, and these: one or two.
At(x, d) == {x - d, x + d} \cap Floats
Error(x) == CHOOSE d \in 0 .. Absolute(x) : At(x, d) # {} /\ \A e \in 0 .. d - 1 : At(x, e) = {}
Nearest(x) == At(x, Error(x))

Round(x) == CHOOSE f \in Nearest(x) : \A g \in Nearest(x) \ {f} : Even(f, 2 * Error(x))
================================================================================
