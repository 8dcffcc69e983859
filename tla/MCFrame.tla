------------------------------ MODULE MCFrame ------------------------------
(* Small instances of Frame for TLC. *)
EXTENDS Frame

CONSTANTS v, a, t, u

SizeFun == [x \in Fixed |-> IF x = a THEN 2 ELSE 1]

(* Blocks that hold temporaries, variables and array elements over calls.  *)
ShapeSet ==
    { <<>>,
      <<<<"store", t, 0>>, <<"call", 0>>, <<"load", t, 0>>>>,
      <<<<"store", v, 0>>, <<"store", t, 0>>, <<"call", 1>>, <<"store", u, 0>>,
        <<"call", 0>>, <<"load", t, 0>>, <<"load", u, 0>>>>,
      <<<<"store", a, 1>>, <<"load", v, 0>>, <<"call", 2>>, <<"store", a, 0>>,
        <<"load", a, 1>>>> }
=============================================================================
