------------------------------ MODULE MCClient ------------------------------
(* Client for TLC: commands that send, send nothing and exit, and a line    *)
(* longer than fgets' buffer whose rest begins with '/' and so is executed. *)
EXTENDS ClientRefinement

MCLines ==
  {<<JoinPiece(1)>>, <<InvalidPiece>>, <<ExitPiece>>, <<TextPiece(1), JoinPiece(2)>>}

TwoMessages == <<ReplyMessage("joined", 1), ReplyMessage("already_in", 1)>>
=============================================================================
