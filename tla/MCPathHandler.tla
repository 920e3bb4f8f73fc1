----------------------------- MODULE MCPathHandler -----------------------------
(* Plans without a cusp, with one, with two apart and with two in a row.    *)
EXTENDS PathHandler

MCPlans ==
    { [n |-> 0, cusps |-> {}], [n |-> 1, cusps |-> {}], [n |-> 3, cusps |-> {}],
      [n |-> 3, cusps |-> {2}], [n |-> 5, cusps |-> {2, 4}], [n |-> 6, cusps |-> {3, 4}],
      [n |-> 7, cusps |-> {2, 4, 5}] }
===============================================================================
