---------------------------- MODULE MCWordMemory ----------------------------
(***************************************************************************)
(* Words of two bytes: a write has whole words and a tail, and the words   *)
(* of the addresses 1 and 2 overlap.  The word at 3 can be read and its    *)
(* first byte written, that at 4 only read, those at 0 and 5 neither.      *)
(***************************************************************************)
EXTENDS WordMemory

MCAccess == [a \in Addr |-> IF a \in 1..3 THEN "write" ELSE IF a > 3 THEN "read" ELSE "none"]

MCLine ==
  {<<>>,
   <<Quoted(<<>>, 0)>>,
   <<Number(204)>>,
   <<Quoted(<<255>>, 1), Number(255)>>,
   <<Number(0), Unreadable, Number(0)>>,
   <<Quoted(<<255, 204>>, 0), Quoted(<<255>>, 1)>>,
   <<Quoted(<<255, 204>>, 0), Number(0), Number(0)>>,
   <<Quoted(<<0, 0, 204>>, 0), Unreadable>>}
=============================================================================
