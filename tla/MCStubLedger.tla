---------------------------- MODULE MCStubLedger ----------------------------
(***************************************************************************)
(* StubLedger for TLC.  The code points are 0 (the delimiter), 1, 2 and 3  *)
(* (the largest); the components include the empty string, strings with    *)
(* the reserved characters, and a string that extends another.             *)
(***************************************************************************)
EXTENDS StubLedger

MCComponents == {<<>>, <<1>>, <<1, 1>>, <<2>>, <<0>>, <<3>>, <<1, 0>>}

MCSimpleKeys == {<<>>, <<1>>, <<2, 0>>}

MCCollections == {<<>>, <<1>>}

=============================================================================
