------------------------------- MODULE MCSink -------------------------------
(***************************************************************************)
(* Sink over up to five bytes, with characters of one and of two bytes.    *)
(* The formatters are those of up to three pieces, the last one of which   *)
(* may be a fault.                                                         *)
(***************************************************************************)
EXTENDS Sink, SequencesExt

MCSlices ==
  {<<>>, <<"a">>, <<"a", "a">>, <<"lead", "tail">>, <<"a", "lead", "tail">>,
   <<"lead">>, <<"tail">>, <<"tail", "lead">>, <<"a", "lead">>}

MCPieces == {<<"a">>, <<"a", "a">>, <<"lead", "tail">>}

MCFormatters ==
  BoundedSeq(MCPieces, 3) \cup {Append(t, Fault) : t \in BoundedSeq(MCPieces, 2)}

=============================================================================
