----------------------------- MODULE StreamCopy -----------------------------
(***************************************************************************)
(* apps/bidirectional_stream_copy.cc over util/eventloop.cc: standard      *)
(* input goes through one ByteStream to a socket, the socket through       *)
(* another to standard output.  A pass of the loop is a poll and then the  *)
(* callbacks of the rules found ready; whoever writes standard input,      *)
(* holds the other end of the socket or reads standard output acts in      *)
(* between.  Bytes keep their order (module ByteStream), so counts do.     *)
(***************************************************************************)
EXTENDS Streams

CONSTANTS
  BufferSize,   \* buffer_size
  CopyLimit,    \* max_copy_length
  Room,         \* what the kernel holds for the reader of a descriptor
  StdinBytes,   \* bound on what is written to standard input
  PeerBytes     \* bound on what the socket's peer writes

ASSUME CopyAssumption ==
  /\ BufferSize \in Nat \ {0} /\ CopyLimit \in Nat \ {0} /\ Room \in Nat \ {0}
  /\ StdinBytes \in Nat /\ PeerBytes \in Nat

VARIABLES
  outbound, inbound,   \* the two streams
  flags,               \* _input.eof(), socket.eof(), _outbound_shutdown, _inbound_shutdown
  loop,                \* at, the rules not cancelled, and what poll saw and is not yet handled
  stdin,               \* its kind, bytes given and taken, whether it can get more
  link,                \* the socket: bytes sent and got by the peer, offered by it and taken
  stdout               \* bytes put and taken, whether closed, whether it has a reader

vars == <<outbound, inbound, flags, loop, stdin, link, stdout>>

-----------------------------------------------------------------------------
(* The rules: 1 stdin to outbound, 2 outbound to the socket, 3 the socket  *)
(* to inbound, 4 inbound to stdout.                                        *)

Rules == 1 .. 4

Space(st) == remaining_capacity(st, BufferSize)

WantsInput(out, in) == ~out.failed /\ Space(out) > 0 /\ ~in.failed

\* The end of the stream is not passed on.
WantsToSendBytes(out) == buffer_size(out) > 0

\* The end is passed on again and again.
WantsToSendAgain(out) == buffer_size(out) > 0 \/ eof(out)

WantsToSend(out) == buffer_size(out) > 0 \/ (eof(out) /\ ~flags.outbound_shutdown)

\* Rules 1 and 3 ask the same stream for space.
WantsSocketSharing(out, in) == ~in.failed /\ Space(in) > 0 /\ Space(out) > 0 /\ ~out.failed

WantsSocket(out, in) == ~in.failed /\ Space(in) > 0 /\ ~out.failed

WantsToPutOut(in) == buffer_size(in) > 0 \/ (eof(in) /\ ~flags.inbound_shutdown)

interest(i, out, in) ==
  CASE i = 1 -> WantsInput(out, in)
    [] i = 2 -> WantsToSend(out)
    [] i = 3 -> WantsSocket(out, in)
    [] i = 4 -> WantsToPutOut(in)

\* poll(2).  A file (or terminal) at its end is readable, a pipe at its end only
\* hangs up; a local socket hangs up when both directions are shut down.
Ready(i) ==
  CASE i = 1 -> stdin.taken < stdin.given \/ (stdin.kind = "file" /\ ~stdin.open)
    [] i = 2 -> link.sent - link.got < Room
    [] i = 3 -> link.taken < link.offered \/ link.peer # "open"
    [] i = 4 -> stdout.put - stdout.took < Room

HungUp(i) ==
  CASE i = 1 -> stdin.kind = "pipe" /\ ~stdin.open
    [] i \in {2, 3} -> link.peer = "gone" \/ (link.peer = "ended" /\ link.shut)
    [] i = 4 -> FALSE

Failed(i) == i = 4 /\ ~stdout.reader

Init ==
  /\ outbound = NewStream /\ inbound = NewStream
  /\ flags = [input_eof |-> FALSE, socket_eof |-> FALSE,
              outbound_shutdown |-> FALSE, inbound_shutdown |-> FALSE]
  /\ loop = [at |-> "poll", rules |-> Rules, todo |-> {}]
  /\ \E kind \in {"pipe", "file"} :
       stdin = [kind |-> kind, given |-> 0, taken |-> 0, open |-> TRUE]
  /\ link = [sent |-> 0, got |-> 0, shut |-> FALSE, offered |-> 0, taken |-> 0, peer |-> "open"]
  /\ stdout = [put |-> 0, took |-> 0, closed |-> FALSE, reader |-> TRUE]

-----------------------------------------------------------------------------
(* EventLoop::wait_next_event.                                             *)

\* Rules for reading whose descriptor is at its end, and rules whose descriptor
\* is closed (only standard output is), are cancelled before poll.
AtEnd == {i \in loop.rules : \/ i = 1 /\ flags.input_eof
                             \/ i = 3 /\ flags.socket_eof
                             \/ i = 4 /\ stdout.closed}

\* What the cancel callbacks of a set of rules do to the streams.
cancel_outbound(rules) == IF rules \cap {1, 2} # {} THEN end_input(outbound) ELSE outbound

cancel_inbound(rules) == IF rules \cap {3, 4} # {} THEN end_input(inbound) ELSE inbound

Interested ==
  {i \in loop.rules \ AtEnd : interest(i, cancel_outbound(AtEnd), cancel_inbound(AtEnd))}

\* Every rule left is polled for errors and hang-ups; poll waits for one event.
Polled ==
  {<<i, "error">> : i \in {j \in loop.rules \ AtEnd : Failed(j)}}
    \cup {<<i, "ready">> : i \in {j \in Interested : Ready(j) /\ ~Failed(j)}}
    \cup {<<i, "hangup">> : i \in {j \in Interested : HungUp(j) /\ ~Ready(j)}}

Poll ==
  /\ loop.at = "poll" /\ Interested # {}
  /\ Polled # {} \/ \E i \in loop.rules \ AtEnd : HungUp(i)
  /\ outbound' = cancel_outbound(AtEnd) /\ inbound' = cancel_inbound(AtEnd)
  /\ loop' = [at |-> IF Polled = {} THEN "poll" ELSE "serve", rules |-> loop.rules \ AtEnd, todo |-> Polled]
  /\ UNCHANGED <<flags, stdin, link, stdout>>

\* Result::Exit: nothing left to poll.
Return ==
  /\ loop.at = "poll" /\ Interested = {}
  /\ outbound' = cancel_outbound(AtEnd) /\ inbound' = cancel_inbound(AtEnd)
  /\ loop' = [loop EXCEPT !.at = "returned", !.rules = @ \ AtEnd]
  /\ UNCHANGED <<flags, stdin, link, stdout>>

\* The results of poll are gone through in the order of the rules.
Serve(i, event, rules) ==
  /\ loop.at = "serve" /\ <<i, event>> \in loop.todo /\ \A e \in loop.todo : i <= e[1]
  /\ loop' = [at |-> IF loop.todo = {<<i, event>>} THEN "poll" ELSE "serve",
              rules |-> rules, todo |-> loop.todo \ {<<i, event>>}]

Dies(i, event, how) ==
  /\ loop.at = "serve" /\ <<i, event>> \in loop.todo /\ \A e \in loop.todo : i <= e[1]
  /\ loop' = [loop EXCEPT !.at = how]
  /\ UNCHANGED <<outbound, inbound, flags, stdin, link, stdout>>

\* "error on polled file descriptor"
Throw == Dies(4, "error", "threw")

HangUp(i) ==
  /\ Serve(i, "hangup", loop.rules \ {i})
  /\ outbound' = cancel_outbound({i}) /\ inbound' = cancel_inbound({i})
  /\ UNCHANGED <<flags, stdin, link, stdout>>

-----------------------------------------------------------------------------
(* The callbacks.  read(2) and write(2) may move fewer bytes than asked.   *)

Moves(n, m) == IF n = 0 \/ m = 0 THEN {0} ELSE 1 .. smaller(n, m)

\* A read that returns less than it was asked for is taken for the last one.
InputShortIsLast ==
  /\ Serve(1, "ready", loop.rules)
  /\ \E n \in Moves(stdin.given - stdin.taken, Space(outbound)) :
       LET ended == n < Space(outbound)
           filled == write(outbound, n, BufferSize)
       IN  /\ stdin' = [stdin EXCEPT !.taken = @ + n]
           /\ outbound' = IF ended THEN end_input(filled) ELSE filled
           /\ flags' = [flags EXCEPT !.input_eof = @ \/ (n = 0 /\ Space(outbound) > 0)]
  /\ UNCHANGED <<inbound, link, stdout>>

InputToOutbound ==
  /\ Serve(1, "ready", loop.rules)
  /\ \E n \in Moves(stdin.given - stdin.taken, Space(outbound)) :
       LET ended == n = 0 /\ Space(outbound) > 0
           filled == write(outbound, n, BufferSize)
       IN  /\ stdin' = [stdin EXCEPT !.taken = @ + n]
           /\ flags' = [flags EXCEPT !.input_eof = @ \/ ended]
           /\ outbound' = IF flags'.input_eof THEN end_input(filled) ELSE filled
  /\ UNCHANGED <<inbound, link, stdout>>

SocketToInbound ==
  /\ Serve(3, "ready", loop.rules)
  /\ \E n \in Moves(link.offered - link.taken, Space(inbound)) :
       LET ended == n = 0 /\ Space(inbound) > 0
           filled == write(inbound, n, BufferSize)
       IN  /\ link' = [link EXCEPT !.taken = @ + n]
           /\ flags' = [flags EXCEPT !.socket_eof = @ \/ ended]
           /\ inbound' = IF flags'.socket_eof THEN end_input(filled) ELSE filled
  /\ UNCHANGED <<outbound, stdin, stdout>>

\* bytes_to_write
Chunk(st) == smaller(CopyLimit, buffer_size(st))

\* All that was offered to the socket is popped, not what it took.
SocketPopsChunk ==
  /\ ~(link.peer = "gone" /\ Chunk(outbound) > 0)
  /\ Serve(2, "ready", loop.rules)
  /\ \E n \in Moves(Chunk(outbound), Room - (link.sent - link.got)) :
       LET popped == read(outbound, Chunk(outbound))
       IN  /\ outbound' = popped
           /\ link' = [link EXCEPT !.sent = @ + n, !.shut = @ \/ eof(popped)]
           /\ flags' = [flags EXCEPT !.outbound_shutdown = @ \/ eof(popped)]
  /\ UNCHANGED <<inbound, stdin, stdout>>

OutboundToSocket ==
  /\ ~(link.peer = "gone" /\ Chunk(outbound) > 0)
  /\ Serve(2, "ready", loop.rules)
  /\ \E n \in Moves(Chunk(outbound), Room - (link.sent - link.got)) :
       LET popped == read(outbound, n)
       IN  /\ outbound' = popped
           /\ link' = [link EXCEPT !.sent = @ + n, !.shut = @ \/ eof(popped)]
           /\ flags' = [flags EXCEPT !.outbound_shutdown = @ \/ eof(popped)]
  /\ UNCHANGED <<inbound, stdin, stdout>>

\* Standard output is closed as soon as the stream has ended.
CloseWithBytesLeft ==
  /\ ~(~stdout.reader /\ Chunk(inbound) > 0)
  /\ Serve(4, "ready", loop.rules)
  /\ \E n \in Moves(Chunk(inbound), Room - (stdout.put - stdout.took)) :
       LET popped == read(inbound, n)
       IN  /\ inbound' = popped
           /\ stdout' = [stdout EXCEPT !.put = @ + n, !.closed = @ \/ popped.ended]
           /\ flags' = [flags EXCEPT !.inbound_shutdown = @ \/ popped.ended]
  /\ UNCHANGED <<outbound, stdin, link>>

InboundToOutput ==
  /\ ~(~stdout.reader /\ Chunk(inbound) > 0)
  /\ Serve(4, "ready", loop.rules)
  /\ \E n \in Moves(Chunk(inbound), Room - (stdout.put - stdout.took)) :
       LET popped == read(inbound, n)
       IN  /\ inbound' = popped
           /\ stdout' = [stdout EXCEPT !.put = @ + n, !.closed = @ \/ eof(popped)]
           /\ flags' = [flags EXCEPT !.inbound_shutdown = @ \/ eof(popped)]
  /\ UNCHANGED <<outbound, stdin, link>>

\* Bytes are written to a descriptor nobody can read any more: SIGPIPE.
BrokenPipe ==
  \/ link.peer = "gone" /\ Chunk(outbound) > 0 /\ Dies(2, "ready", "killed")
  \/ ~stdout.reader /\ Chunk(inbound) > 0 /\ Dies(4, "ready", "killed")

Loop == \/ Poll \/ Return \/ Throw \/ (\E i \in Rules : HangUp(i)) \/ BrokenPipe
        \/ InputToOutbound \/ OutboundToSocket \/ SocketToInbound \/ InboundToOutput

-----------------------------------------------------------------------------
(* The others.                                                             *)

StdinGets ==
  /\ stdin.open /\ stdin.given < StdinBytes /\ stdin.given - stdin.taken < Room
  /\ stdin' = [stdin EXCEPT !.given = @ + 1]
  /\ UNCHANGED <<outbound, inbound, flags, loop, link, stdout>>

StdinEnds ==
  /\ stdin.open
  /\ stdin' = [stdin EXCEPT !.open = FALSE]
  /\ UNCHANGED <<outbound, inbound, flags, loop, link, stdout>>

PeerSends ==
  /\ link.peer = "open" /\ link.offered < PeerBytes /\ link.offered - link.taken < Room
  /\ link' = [link EXCEPT !.offered = @ + 1]
  /\ UNCHANGED <<outbound, inbound, flags, loop, stdin, stdout>>

PeerGets ==
  /\ link.peer # "gone" /\ link.got < link.sent
  /\ link' = [link EXCEPT !.got = @ + 1]
  /\ UNCHANGED <<outbound, inbound, flags, loop, stdin, stdout>>

\* shutdown of one direction, or of both as _tcp_main does at its end.
PeerEnds ==
  /\ \/ link.peer = "open" /\ link' = [link EXCEPT !.peer = "ended"]
     \/ link.peer # "gone" /\ link' = [link EXCEPT !.peer = "gone"]
  /\ UNCHANGED <<outbound, inbound, flags, loop, stdin, stdout>>

StdoutIsRead ==
  /\ stdout.reader /\ stdout.took < stdout.put
  /\ stdout' = [stdout EXCEPT !.took = @ + 1]
  /\ UNCHANGED <<outbound, inbound, flags, loop, stdin, link>>

ReaderLeaves ==
  /\ stdout.reader
  /\ stdout' = [stdout EXCEPT !.reader = FALSE]
  /\ UNCHANGED <<outbound, inbound, flags, loop, stdin, link>>

Over == loop.at \in {"returned", "threw", "killed"}

Next == Loop \/ StdinGets \/ StdinEnds \/ PeerSends \/ PeerGets \/ PeerEnds
        \/ StdoutIsRead \/ ReaderLeaves

Spec == Init /\ [][Next]_vars

FairSpec == Spec /\ WF_vars(Loop)

-----------------------------------------------------------------------------

TypeOK ==
  /\ outbound \in Stream /\ inbound \in Stream
  /\ flags \in [input_eof : BOOLEAN, socket_eof : BOOLEAN,
                outbound_shutdown : BOOLEAN, inbound_shutdown : BOOLEAN]
  /\ loop \in [at : {"poll", "serve", "returned", "threw", "killed"}, rules : SUBSET Rules,
               todo : SUBSET (Rules \X {"ready", "hangup", "error"})]
  /\ stdin \in [kind : {"pipe", "file"}, given : Nat, taken : Nat, open : BOOLEAN]
  /\ link \in [sent : Nat, got : Nat, shut : BOOLEAN, offered : Nat, taken : Nat,
               peer : {"open", "ended", "gone"}]
  /\ stdout \in [put : Nat, took : Nat, closed : BOOLEAN, reader : BOOLEAN]

(***************************************************************************)
(* The end of either direction is passed on only when its source has ended *)
(* and every byte of it has been passed on: neither the socket's peer nor  *)
(* the reader of standard output takes a part for the whole.               *)
(***************************************************************************)
EndMeansAll ==
  /\ link.shut => ~stdin.open /\ link.sent = stdin.given
  /\ stdout.closed => link.peer # "open" /\ stdout.put = link.offered

(***************************************************************************)
(* Whatever part of a chunk a descriptor takes, the bytes read are the     *)
(* bytes passed on and those in the stream: none is lost and none sent     *)
(* twice, and a stream never holds more than its buffer.                   *)
(***************************************************************************)
EveryByteOnce ==
  /\ stdin.taken = link.sent + buffer_size(outbound)
  /\ link.taken = stdout.put + buffer_size(inbound)
  /\ buffer_size(outbound) \in 0 .. BufferSize /\ buffer_size(inbound) \in 0 .. BufferSize

(***************************************************************************)
(* bidirectional_stream_copy returns when it is done: both ends were       *)
(* passed on, unless the socket hung up on bytes still to be sent.         *)
(***************************************************************************)
ReturnsWhenDone ==
  loop.at = "returned" => stdout.closed /\ (link.shut \/ (link.peer = "gone" /\ 2 \notin loop.rules))

(***************************************************************************)
(* "The writer can end the input, and then no more bytes can be written"   *)
(* (byte_stream.hh:10-11).  ByteStream does not enforce it; the rules do   *)
(* not write to a stream they have ended, except that standard input is    *)
(* still read into a stream whose socket hung up.                          *)
(***************************************************************************)
NothingAfterEnd ==
  [][/\ outbound.ended /\ outbound'.written # outbound.written => link.peer = "gone" /\ 2 \notin loop.rules
     /\ inbound.ended => inbound'.written = inbound.written]_vars

(***************************************************************************)
(* Each direction completes whatever the other does: with a peer that goes *)
(* on reading, the end of standard input reaches it, and with a reader of  *)
(* standard output, the end of the peer's stream reaches that; a slow or   *)
(* silent party of one direction does not hold up the other.               *)
(***************************************************************************)
DirectionsIndependent ==
  /\ []<>(link.got = link.sent) =>
       (~stdin.open ~> (link.shut \/ link.peer = "gone" \/ loop.at \in {"threw", "killed"}))
  /\ []<>(stdout.took = stdout.put) =>
       (link.peer # "open" ~> (stdout.closed \/ loop.at \in {"threw", "killed"}))

(***************************************************************************)
(* The loop ends when standard input and the peer's stream end and both    *)
(* outputs are read: a rule with nothing left to do stops being polled.    *)
(***************************************************************************)
CopyEnds ==
  /\ <>(~stdin.open) /\ <>(link.peer # "open")
  /\ []<>(link.got = link.sent \/ link.peer = "gone") /\ []<>(stdout.took = stdout.put)
  => <>Over
=============================================================================
