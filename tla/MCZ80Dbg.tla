------------------------------ MODULE MCZ80Dbg ------------------------------
(* Operands that look like a prefix and that do not; a data byte or none.  *)
EXTENDS Z80Dbg

MCOperands == {<<>>, <<"dd">>, <<"op", "op">>}
MCData     == {<<>>, <<"op">>}
=============================================================================
