------------------------------ MODULE Channel ------------------------------
(***************************************************************************)
(* One direction of a connection as the two programs see it, once sendall  *)
(* and recvall have done their work: whole messages go in at one end and   *)
(* come out at the other, in order.  It is what the queues of Server,      *)
(* Client and ChatRooms take for granted and what Framing implements.      *)
(***************************************************************************)
EXTENDS Naturals, SequencesExt

VARIABLES
  given,   \* the messages sendall has handed over completely
  taken,   \* the messages recvall has returned
  ended,   \* "no", or how the sender closed: "fin" or "rst"
  closed   \* whether recvall has reported the close

vars == <<given, taken, ended, closed>>

Init ==
  /\ given = << >> /\ taken = << >>
  /\ ended = "no" /\ closed = FALSE

Give ==
  /\ ended = "no"
  /\ IsPrefix(given, given') /\ Len(given') = Len(given) + 1
  /\ UNCHANGED <<taken, ended, closed>>

End ==
  /\ ended = "no"
  /\ ended' \in {"fin", "rst"}
  /\ UNCHANGED <<given, taken, closed>>

Take ==
  /\ ~closed /\ Len(taken) < Len(given)
  /\ taken' = Append(taken, given[Len(taken) + 1])
  /\ UNCHANGED <<given, ended, closed>>

(* After a FIN all that was given is taken first; a RST may lose the rest. *)
NoticeEnd ==
  /\ ~closed
  /\ (ended = "fin" /\ taken = given) \/ ended = "rst"
  /\ closed' = TRUE
  /\ UNCHANGED <<given, taken, ended>>

Receiver == Take \/ NoticeEnd

Next == Give \/ End \/ Receiver

Spec == Init /\ [][Next]_vars

(* What has been given is taken, and the end noticed. *)
FairSpec == Spec /\ WF_vars(Receiver)
=============================================================================
