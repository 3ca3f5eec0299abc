---------------------------- MODULE MCConnection ----------------------------
(***************************************************************************)
(* A buffer of two bytes: every frame and every message is longer than it, *)
(* or ends inside it, and a read may end anywhere.                         *)
(***************************************************************************)
EXTENDS Connection

F(fields, length, throws) == [fields |-> fields, length |-> length, throws |-> throws]

MCFrames ==
  {F(<<"length">>, 1, FALSE), F(<<"field", "length">>, 3, FALSE), F(<<"length">>, 1, TRUE),
   F(<<"field">>, 1, FALSE), F(<<"length">>, 0, FALSE), F(<<"length">>, NaN, FALSE)}
=============================================================================
