------------------------------- MODULE Client -------------------------------
(***************************************************************************)
(* The chat client (client.c): a single thread that polls the server's     *)
(* socket and standard input, prints what the server sends, and sends what *)
(* the user types.  One action is one iteration of main's inner loop,      *)
(* except that sendall, where the client may have to wait, is SendStep.    *)
(*                                                                         *)
(* poll() sees the kernel's side of standard input, fgets takes lines from *)
(* a stdio buffer it fills with one read(): from a terminal a read returns *)
(* one line, from a pipe everything that is there.  A line longer than     *)
(* fgets' buffer is taken in pieces, each handled as input of its own.  Of *)
(* a line that is not finished poll() sees the beginning, and fgets waits  *)
(* for the rest.                                                           *)
(***************************************************************************)
EXTENDS Messages, Naturals, SequencesExt

CONSTANTS
  Lines,        \* what the user may type: sequences of pieces
  ServerSends,  \* messages the server may send, one of each at most
  SockBuf,      \* messages the socket buffers towards the server hold
  MaxLines      \* bound of the model: lines typed

(* A piece of input: text, or a command with its argument. *)
TextPiece(id) == [kind |-> "text", id |-> id]
JoinPiece(n) == [kind |-> "join", number |-> n]
NamePiece(n) == [kind |-> "name", name |-> n]
ExitPiece == [kind |-> "exit"]
InvalidPiece == [kind |-> "invalid"]

ASSUME ClientAssumption ==
  /\ \A l \in Lines : l \in Seq(Range(l)) /\ Len(l) > 0
  /\ ServerSends \in Seq(Range(ServerSends))
  /\ SockBuf \in Nat \ {0} /\ MaxLines \in Nat

VARIABLES
  \* the client process
  i,         \* position of the inner loop: 1 the server, 2 standard input
  revents,   \* what poll() said of the two
  stdio,     \* pieces of input in the stdio buffer
  sending,   \* the message sendall is waiting to send, or NoMessage
  status,    \* "running", or why the process ended
  handled,   \* the pieces handle_input has taken (a history)
  sent,      \* the messages sent to the server (a history)
  printed,   \* the messages printed (a history)
  \* the kernel and the world
  typed,     \* finished lines that the process has not read
  begun,     \* of an unfinished line: "no", or its last part is "unread" or "read"
  stdin,     \* standard input: a terminal or a pipe, and whether it has ended
  inbox,     \* messages from the server, not yet received
  server,    \* "open", or how the server closed: "fin" or "rst"
  unread,    \* how many of sent the server has not read
  lines,     \* every line typed (a history)
  nserver    \* messages sent by the server so far

process == <<i, revents, stdio, sending, status, handled, sent, printed>>
world == <<typed, begun, stdin, inbox, server, unread, lines, nserver>>
vars == <<process, world>>

Running == status = "running"

Init ==
  /\ i = 3
  /\ revents = [k \in 1 .. 2 |-> {}]
  /\ stdio = << >> /\ sending = NoMessage /\ status = "running"
  /\ handled = << >> /\ sent = << >> /\ printed = << >>
  /\ typed = << >> /\ begun = "no" /\ stdin \in [terminal : BOOLEAN, ended : {FALSE}]
  /\ inbox = << >> /\ server = "open" /\ unread = 0
  /\ lines = << >> /\ nserver = 0

-----------------------------------------------------------------------------
(* The user and the server.  A part of a line that is not finished yet     *)
(* reaches the process through a pipe, or by Ctrl-D in mid-line.           *)
BeginLine ==
  /\ Running /\ ~stdin.ended /\ Len(lines) < MaxLines
  /\ begun # "unread"
  /\ begun' = "unread"
  /\ UNCHANGED <<process, typed, stdin, inbox, server, unread, lines, nserver>>

FinishLine(line) ==
  /\ typed' = Append(typed, line)
  /\ lines' = Append(lines, line)
  /\ begun' = "no"

Type(line) ==
  /\ Running /\ ~stdin.ended /\ Len(lines) < MaxLines
  /\ FinishLine(line)
  /\ UNCHANGED <<process, stdin, inbox, server, unread, nserver>>

(* The end of the input finishes a line that was begun. *)
EndInput ==
  /\ Running /\ ~stdin.ended
  /\ stdin' = [stdin EXCEPT !.ended = TRUE]
  /\ \/ begun = "no" /\ UNCHANGED <<typed, begun, lines>>
     \/ begun # "no" /\ \E l \in Lines : FinishLine(l)
  /\ UNCHANGED <<process, inbox, server, unread, nserver>>

ServerSend ==
  /\ Running /\ server = "open" /\ nserver < Len(ServerSends)
  /\ nserver' = nserver + 1
  /\ inbox' = Append(inbox, ServerSends[nserver'])
  /\ UNCHANGED <<process, typed, begun, stdin, server, unread, lines>>

ServerRead ==
  /\ Running /\ server = "open" /\ unread > 0
  /\ unread' = unread - 1
  /\ UNCHANGED <<process, typed, begun, stdin, inbox, server, lines, nserver>>

(* The server's process ends: a RST if it leaves something unread. *)
ServerClose ==
  /\ Running /\ server = "open"
  /\ server' = IF unread > 0 THEN "rst" ELSE "fin"
  /\ unread' = 0
  /\ UNCHANGED <<process, typed, begun, stdin, inbox, lines, nserver>>

-----------------------------------------------------------------------------
PollServer_DataOnly ==
  {e \in {"IN"} : inbox # << >>}

PollServer ==
  {e \in {"IN", "HUP"} : \/ e = "IN" /\ (inbox # << >> \/ server # "open")
                         \/ e = "HUP" /\ server = "rst"}

(* The end of a terminal's input is read as an end of file; a pipe whose   *)
(* writer is gone is reported as hung up.                                  *)
PollStdin ==
  {e \in {"IN", "HUP"} :
     \/ /\ e = "IN"
        /\ typed # << >> \/ begun = "unread" \/ (stdin.terminal /\ stdin.ended)
     \/ e = "HUP" /\ ~stdin.terminal /\ stdin.ended}

PollFails ==
  /\ Running /\ sending = NoMessage /\ i = 3
  /\ status' = "poll_failed"
  /\ UNCHANGED <<i, revents, stdio, sending, handled, sent, printed, world>>

Poll_OnlyServer ==
  /\ Running /\ sending = NoMessage /\ i = 3
  /\ revents' = <<PollServer, {}>>
  /\ PollServer # {}
  /\ i' = 1
  /\ UNCHANGED <<stdio, sending, status, handled, sent, printed, world>>

Poll_FromSecond ==
  /\ Running /\ sending = NoMessage /\ i = 3
  /\ revents' = <<PollServer, PollStdin>>
  /\ revents'[1] \cup revents'[2] # {}
  /\ i' = 2
  /\ UNCHANGED <<stdio, sending, status, handled, sent, printed, world>>

Poll ==
  /\ Running /\ sending = NoMessage /\ i = 3
  /\ revents' = <<PollServer, PollStdin>>
  /\ revents'[1] \cup revents'[2] # {}
  /\ i' = 1
  /\ UNCHANGED <<stdio, sending, status, handled, sent, printed, world>>

Scanning == Running /\ sending = NoMessage /\ i \in 1 .. 2

Skip ==
  /\ Scanning /\ revents[i] = {}
  /\ i' = i + 1
  /\ UNCHANGED <<revents, stdio, sending, status, handled, sent, printed, world>>

HangUp ==
  /\ Scanning /\ "HUP" \in revents[i]
  /\ status' = "hung_up"
  /\ UNCHANGED <<i, revents, stdio, sending, handled, sent, printed, world>>

ReadyAt(k) == Scanning /\ i = k /\ revents[k] = {"IN"}

handle_server_message_CloseFirst ==
  /\ ReadyAt(1)
  /\ IF server # "open"
     THEN status' = "server_closed" /\ UNCHANGED <<i, printed, inbox>>
     ELSE /\ printed' = Append(printed, Head(inbox))
          /\ inbox' = Tail(inbox)
          /\ i' = i + 1
          /\ UNCHANGED status
  /\ UNCHANGED <<revents, stdio, sending, handled, sent, typed, begun, stdin,
                 server, unread, lines, nserver>>

(* handle_server_message: print a message, or exit at end of stream. *)
handle_server_message ==
  /\ ReadyAt(1)
  /\ \/ /\ inbox # << >>
        /\ printed' = Append(printed, Head(inbox))
        /\ inbox' = Tail(inbox)
        /\ i' = i + 1
        /\ UNCHANGED status
     \/ /\ inbox = << >> /\ server # "open"
        /\ status' = "server_closed"
        /\ UNCHANGED <<i, printed, inbox>>
  /\ UNCHANGED <<revents, stdio, sending, handled, sent, typed, begun, stdin,
                 server, unread, lines, nserver>>

-----------------------------------------------------------------------------
(* What one read() of standard input returns, and what it leaves. *)
ReadInput_LastLine(ls) == <<ls[Len(ls)], << >>>>

ReadInput(ls) ==
  IF stdin.terminal THEN <<Head(ls), Tail(ls)>> ELSE <<FlattenSeq(ls), << >>>>

(* It takes what there is of an unfinished line along from a pipe. *)
BegunAfterRead == IF ~stdin.terminal /\ begun = "unread" THEN "read" ELSE begun

(* The message a piece of input makes, if any.  sscanf's %hhd keeps the    *)
(* low byte of a room number.                                              *)
Request(piece) ==
  CASE piece.kind = "text" -> ChatRequest(piece.id)
    [] piece.kind = "name" -> NameRequest(piece.name)
    [] piece.kind = "join" -> JoinRequest(piece.number % 256)
    [] OTHER -> NoMessage

HandlePiece_ExitIgnored(input, rest) ==
  /\ handled' = Append(handled, Head(input))
  /\ stdio' = Tail(input)
  /\ typed' = rest
  /\ sending' = Request(Head(input))
  /\ i' = i + 1
  /\ UNCHANGED status

(* handle_input: fgets, then execute_command or send_chat_message. *)
HandlePiece(input, rest) ==
  LET piece == Head(input) IN
  /\ handled' = Append(handled, piece)
  /\ stdio' = Tail(input)
  /\ typed' = rest
  /\ IF piece.kind = "exit"
     THEN status' = "exited" /\ UNCHANGED <<i, sending>>
     ELSE /\ sending' = Request(piece)
          /\ i' = i + 1
          /\ UNCHANGED status

(* The call has found a line begun, and waits for its end. *)
InFgets == ReadyAt(2) /\ stdio = << >> /\ typed = << >> /\ ~stdin.ended

FromBuffer == stdio # << >> /\ HandlePiece(stdio, typed) /\ UNCHANGED begun

FromRead ==
  /\ stdio = << >> /\ typed # << >>
  /\ HandlePiece(ReadInput(typed)[1], ReadInput(typed)[2])
  /\ begun' = BegunAfterRead

handle_input_EndFirst ==
  /\ ReadyAt(2)
  /\ IF stdin.ended
     THEN status' = "end_of_input" /\ UNCHANGED <<i, stdio, sending, handled, typed, begun>>
     ELSE FromBuffer \/ FromRead
  /\ UNCHANGED <<revents, sent, printed, stdin, inbox, server, unread, lines, nserver>>

(* It returns only when fgets has a whole line, a buffer full of one, or   *)
(* the end of the input; until then the client is InFgets.                 *)
handle_input ==
  /\ ReadyAt(2)
  /\ \/ FromBuffer
     \/ FromRead
     \/ /\ stdio = << >> /\ typed = << >> /\ stdin.ended
        /\ status' = "end_of_input"
        /\ UNCHANGED <<i, stdio, sending, handled, typed, begun>>
  /\ UNCHANGED <<revents, sent, printed, stdin, inbox, server, unread, lines, nserver>>

MaySend_Always == TRUE

MaySend == unread < SockBuf

(* sendall: waits while the buffers are full; once the server has closed,  *)
(* a send is lost, raises SIGPIPE, or returns -1, on which                 *)
(* send_chat_message makes the client exit and a command is only logged.   *)
SendStep ==
  /\ Running /\ sending # NoMessage
  /\ \/ /\ server = "open" /\ MaySend
        /\ sent' = Append(sent, sending)
        /\ unread' = unread + 1
        /\ UNCHANGED <<status, server>>
     \/ /\ server = "fin"
        /\ server' \in {"fin", "rst"}
        /\ UNCHANGED <<status, sent, unread>>
     \/ /\ server = "rst"
        /\ \/ status' = "sigpipe"
           \/ status' = IF sending.type = "CHAT" THEN "send_failed" ELSE "running"
        /\ UNCHANGED <<sent, unread, server>>
  /\ sending' = NoMessage
  /\ UNCHANGED <<i, revents, stdio, handled, printed, typed, begun, stdin, inbox,
                 lines, nserver>>

-----------------------------------------------------------------------------
(* What the client does when poll() works. *)
ClientRuns ==
  Poll \/ Skip \/ HangUp \/ handle_server_message \/ handle_input \/ SendStep

ClientNext == ClientRuns \/ PollFails

WorldNext ==
  \/ BeginLine \/ EndInput \/ ServerSend \/ ServerRead \/ ServerClose
  \/ \E l \in Lines : Type(l)

Next == ClientNext \/ WorldNext

Spec == Init /\ [][Next]_vars

(* The client's process is scheduled, and the server reads what it is      *)
(* sent.  Nobody has to type, finish a line, send or close.                *)
FairSpec == Spec /\ WF_vars(ClientRuns) /\ WF_vars(ServerRead)

-----------------------------------------------------------------------------
RequestsOf(pieces) ==
  FlattenSeq([k \in DOMAIN pieces |->
    IF Request(pieces[k]) = NoMessage THEN << >> ELSE <<Request(pieces[k])>>])

(* Type invariant. *)
Pieces == UNION {Range(l) : l \in Lines}

TypeOK ==
  /\ i \in 1 .. 3
  /\ revents \in [1 .. 2 -> SUBSET {"IN", "HUP"}]
  /\ handled \in Seq(Pieces) /\ stdio \in Seq(Pieces)
  /\ typed \in Seq(Lines) /\ lines \in Seq(Lines)
  /\ begun \in {"no", "unread", "read"}
  /\ sending \in {Request(p) : p \in Pieces} \cup {NoMessage}
  /\ sent \in Seq({Request(p) : p \in Pieces} \ {NoMessage})
  /\ status \in {"running", "poll_failed", "hung_up", "server_closed",
                 "end_of_input", "exited", "sigpipe", "send_failed"}
  /\ stdin \in [terminal : BOOLEAN, ended : BOOLEAN]
  /\ server \in {"open", "fin", "rst"}
  /\ unread \in 0 .. SockBuf
  /\ nserver \in 0 .. Len(ServerSends)
  /\ inbox \in Seq(Range(ServerSends)) /\ printed \in Seq(Range(ServerSends))

(***************************************************************************)
(* What reaches the server is what was typed, in order, none twice and     *)
(* none skipped, whatever was read ahead into the stdio buffer; while the  *)
(* server is there, nothing that was handled is missing either             *)
(* (handle_input, execute_command, send_chat_message).                     *)
(***************************************************************************)
SentIsWhatWasTyped ==
  /\ IsPrefix(sent, RequestsOf(FlattenSeq(lines)))
  /\ server = "open" =>
       RequestsOf(handled) = IF sending = NoMessage THEN sent ELSE Append(sent, sending)

(* A pipe's writer is gone: poll() says so at once, whatever is left in it. *)
PipeEnded == ~stdin.terminal /\ stdin.ended

(***************************************************************************)
(* When the client reports the end of the stream, it has printed all the   *)
(* server sent.  It ends over a lost server with messages unprinted only   *)
(* when the connection was reset (by a server that left something unread,  *)
(* or because the client sent after the server had closed) or the pipe it  *)
(* reads its input from has ended (main takes POLLHUP before POLLIN).      *)
(***************************************************************************)
PrintsAllBeforeClose ==
  /\ status = "server_closed" => Len(printed) = nserver
  /\ status \in {"hung_up", "sigpipe", "send_failed"} /\ Len(printed) < nserver
       => server = "rst" \/ PipeEnded

(***************************************************************************)
(* /exit is the last thing the client does: nothing typed after it is sent *)
(* even if it was read together with it.                                   *)
(***************************************************************************)
ExitIsLast ==
  \A k \in 1 .. Len(handled) :
    handled[k].kind = "exit" => k = Len(handled) /\ status = "exited"

(***************************************************************************)
(* When the client ends over the end of its input it has handled all of    *)
(* it, what lay in the stdio buffer and a last line that was not finished  *)
(* included (handle_input).  It reports a hang-up instead, with lines left *)
(* unhandled, only if the server reset the connection or the input came    *)
(* from a pipe.                                                            *)
(***************************************************************************)
EndOfInputLosesNothing ==
  /\ status = "end_of_input" => handled = FlattenSeq(lines)
  /\ status = "hung_up" /\ handled # FlattenSeq(lines) => server = "rst" \/ PipeEnded

(***************************************************************************)
(* While the client runs, all input poll() can see is taken; at a terminal *)
(* whose lines fit fgets' buffer that is all input, none being left behind *)
(* in the stdio buffer, where poll() does not see it (handle_input, main). *)
(***************************************************************************)
LinesFit == \A k \in DOMAIN lines : Len(lines[k]) = 1

InputHandled ==
  typed # << >> ~>
    (~Running \/ (typed = << >> /\ (stdin.terminal /\ LinesFit => stdio = << >>)))

(* The user finishes every line fgets waits for, or the input ends. *)
LinesFinished == []<>~InFgets

(***************************************************************************)
(* While the client runs and lines that were begun are finished, what the  *)
(* server sends is printed, however much the user types, and a connection  *)
(* the server has closed ends the client (handle_server_message, main).    *)
(***************************************************************************)
ServerHeard ==
  LinesFinished =>
    /\ inbox # << >> ~> (inbox = << >> \/ ~Running)
    /\ server # "open" ~> ~Running
=============================================================================
