# A TLA+ model of Sponge, the CS144 user-space TCP

This directory models the TCP library in `libsponge/`: its data structures, the
two halves of an endpoint, the connection that joins them, the socket that runs
a connection in a thread of its own, the adapters that turn segments into
datagrams and back, the frames and buffers below them, and the loop with which
the applications join a socket to standard input and output.  The modules are
model-checked with TLC on small instances; sequence numbers, `ByteStream`, the
reassembler, the sender and the copying loop are also proved correct with TLAPS
for every value of their constants.

## 1. The system

| Part | State | Operations | What makes it hard |
|---|---|---|---|
| `WrappingInt32` (wrapping_integers) | none | `wrap`, `unwrap` | unsigned arithmetic around 2^32 and 2^64, ties |
| `ByteStream` | ring, start, size, two counters, end and error flags | `write`, `peek_output`, `pop_output`, `read`, `end_input`, `set_error` | copies split at the end of the ring |
| `StreamReassembler` | ring of unassembled bytes, interval map, end index, output stream | `push_substring` | overlaps, touching intervals, cutting at both ends, the end mark before the data |
| `TCPSender` (with `Timer`) | outstanding queue, counters, window, timer | `fill_window`, `ack_received`, `tick`, `send_empty_segment` | partial, old and impossible ACKs, closed windows, backoff |
| `TCPReceiver` | isn, listening flag, reassembler | `segment_received`, `ackno`, `window_size` | numbers wrapped relative to the stream |
| `TCPConnection`, `TCPState` | sender, receiver, clock, `active`, `linger`, pending reset | `connect`, `write`, `end_input_stream`, `segment_received`, `tick`, destructor | loss, duplication, reordering; simultaneous open and close; lingering |
| `TCPSpongeSocket`, `EventLoop` | four rules, four flags, pipe, two threads | `connect`, `listen_and_accept`, `wait_until_closed`, destructor, the callbacks | callbacks run on stale readiness; ending the thread; resets |
| adapters over UDP and TUN, lossy adapter | addresses and ports of both ends, listening flag | `read`, `write`, `unwrap_tcp_in_ip`, `wrap_tcp_in_ip` | binding to the first SYN, a second client, a SYN dropped after it was read |
| TCP and IPv4 headers, `NetParser`, `InternetChecksum` | none | `parse`, `serialize` | errors kept in two places, checksums over pieces |
| Ethernet and ARP, `BufferList`, `FileDescriptor::write` | the parts still to be written | `parse`, `serialize`, `remove_prefix`, `write` | partial writes across parts, empty parts, frames cut off anywhere |
| `bidirectional_stream_copy`, `EventLoop` | four rules, two streams, two flags | the rules, `wait_next_event` | short reads and writes; ends, hang-ups and a peer that goes away between poll and callback |
| `NetworkInterface` | none | empty methods | nothing to model |

A segment that arrives goes through an adapter and rule 1 of the event loop to
`TCPConnection::segment_received`, which hands it to the receiver (and so to the
reassembler, whose output is a ByteStream) and its acknowledgment to the sender.
The sender reads its own ByteStream and queues segments, which the connection
stamps with the receiver's `ackno` and window and rule 4 sends.  Rules 2 and 3
connect the two streams to a local socket pair whose other end the owner holds.
The owner is usually `bidirectional_stream_copy`, which runs four more rules on
an event loop of its own: standard input to a stream to the socket, and the
socket to a stream to standard output.

What has to hold: what one application reads is what the other wrote; a sender
forgets only what was received; windows keep buffers within their capacity; the
timer runs exactly while something is outstanding; everything arrives and both
sides end when the network loses a bounded number of segments; a socket's
thread ends, after handing over everything; the copying loop loses nothing,
passes on an end only after everything before it, lets neither direction wait
for the other, and returns when both are done.

## 2. Modules

| Module | Models | Remarks |
|---|---|---|
| `WrappingIntegers` | wrapping_integers | `Mod` is 2^32, `AbsMod` 2^64; the differences wrap as `uint64_t` does |
| `SequenceNumbers` | | a walk over all initial numbers, sequence numbers and checkpoints |
| `ByteStream` | byte_stream | one action per method; the ring with its split copies; `passed` is the string of the last call |
| `BoundedFifo` | | abstract: a bounded queue with an end and an error mark; bytes put in after the end have an action of their own |
| `Streams` | byte_stream | the same component by its counters, as the other parts use it |
| `StreamReassembler` | stream_reassembler | `push_substring` as an operator on the record of all fields |
| `InOrderAssembly` | | abstract: the set of received indices |
| `ReassemblerSpec`, `ReassemblerLoop` | | a reassembler between a peer and a reader; the iterator loop of `MergeInterval` |
| `TCPSender`, `SenderSpec`, `SenderLoops` | tcp_sender | the methods; a driver with arbitrary ACKs; the loops one iteration at a time |
| `TCPReceiver` | tcp_receiver | |
| `TCPConnection` | tcp_connection, tcp_state | one operator per method, in the order of its calls |
| `TCPPair`, `MCTCPPair` | | two connections and a network |
| `TCPSpongeSocket` | tcp_sponge_socket, eventloop | poll, callbacks and tick as separate steps; owner and peer between them, and the peer may vanish |
| `Datagrams` | tcp_header, tcp_segment, ipv4_header, ipv4_datagram, parser, util, buffer | bytes of segments and datagrams with their real layout and checksums |
| `Adapters`, `MCAdapters` | fd_adapter, tcp_over_ip, tuntap_adapter, lossy_fd_adapter | a listening server and clients over a network that reorders, loses and changes bytes |
| `BufferLists` | buffer, file_descriptor | lists of parts, `remove_prefix`, one turn of the loop of `FileDescriptor::write` |
| `Frames`, `MCFrames` | ethernet_frame, ethernet_header, arp_message | real layouts; a frame handed to a descriptor that takes any number of bytes or fails |
| `StreamCopy` | bidirectional_stream_copy, eventloop | the pass of the event loop in steps (poll, one callback, cancelling); the writer of standard input, the socket's peer and the reader of standard output act in between |
| `WrappingIntegers_proofs`, `ByteStream_proofs`, `ReassemblerSpec_proofs`, `SenderSpec_proofs`, `StreamCopy_proofs` | | theorems |
| `NumberFacts` | | lemmas on least and greatest members and on remainders |

Components that others contain (streams, reassembler, sender, receiver,
connection) are records, and a method is an operator that takes the record and
returns it changed; an action of the driver modules calls one method and applies
its result, so an action is always the whole call.  Field names follow the
source without the trailing underscore.

Data is abstracted as follows.  A byte is the index it has in the stream it was
written to, so that "the right byte in the right place" can be stated.  A
segment is its flags, numbers and payload; ports, checksums and options appear
only in `Datagrams`, `Frames` and `Adapters`, where a segment has its real bytes and a
32-bit number is the pair of its halves.  In `StreamCopy` bytes are counted: the
streams are queues (`ImplementsFifo`), so the order needs no second look.  Loops
over queues and maps are given in closed form (`Pieces`,
`FirstUnacked`, `MergeInterval`), and the loops themselves are checked to
compute these forms (`LoopsAgree`, `LoopMerges`).  An assert
of the code that would fail sets the field `asserted` to FALSE.

Some modules contain, just before a definition, a variant of it with a mistake
(`FinAgain`, `DropKeepingTimer`, ...).  They are used by nothing; PROJECT.json
names, for each property, the variant that the property rejects.

## 3. What the runs show

`tlc -config X.cfg M` runs each of them; times are for two cores.

| Run | Configuration | Question and answer |
|---|---|---|
| `seqno` | SequenceNumbers | `unwrap` undoes `wrap` whenever the checkpoint is less than half a turn away, and always returns a closest representative. |
| `bytestream` | MCByteStream | The ring implements `BoundedFifo`: it delivers, in order and once, what was written and fitted, also what was written after the end (`AcceptAfterEnd`), which byte_stream.hh:10-11 says does not happen and the code allows. |
| `reassembler` | Reassembler | With a peer inside the window: intervals disjoint and counted once, stored bytes found where the ring will look for them, output a prefix of the stream; implements `InOrderAssembly`, so the capacity is kept, nothing inside it is forgotten and the end comes with the last byte; everything comes out. |
| `sender` | Sender | The outstanding queue describes exactly what is unacknowledged; timer iff outstanding; timeout doubled once per counted retransmission; numbers match the stream; new data inside the window. |
| `pair` | TCPPair | Transfer, buffers, shutdown and monotone states with one segment lost, duplicated or held past a timeout, and any reordering. |
| `pair_ends` | TCPPairEnds | Liveness: all data arrives, and both sides end without a reset, with closing windows, one fault, and also when both sides connect at once. |
| `socket` | TCPSpongeSocket | The owner's end of file means everything arrived; a thread that ends leaves nothing unsent or undelivered; the process dies of a broken pipe only after a reset; `wait_until_closed` and the destructor return, also when the peer has vanished, unless the FIN of that peer is all that is missing (FIN_WAIT_2, which has no timeout). |
| `adapters` | Adapters | What an adapter returns is, field for field and with its ports, what its one peer sent to this host; a byte that changed on the way gets through only in the parts of an IPv4 header that say nothing of the segment; a peer's undamaged segments pass the filters; once bound, an adapter is never bound to somebody else. |
| `frames` | Frames | However the descriptor splits a list of parts, it gets out once and in order, all of it unless a `writev` fails, which is an exception, and `write` ends; a reader of the frame understands the whole and no proper prefix, and gets every field back; an ARP message that `parse` accepts, whichever byte of it is changed, is one that `serialize` does not refuse, and gives the same bytes. |
| `stream_copy` | StreamCopy | Every byte taken from a source is passed on or still in the stream; an end is passed on only after everything before it; the loop returns for want of interest only when it is done, or the socket hung up with bytes left for it; neither direction waits for the other; once both sources have ended and both outputs are read, it ends. |

Two runs show that the code does not do what a comment says.  Each was
reproduced with the C++ code.

| Run | The comment | The code |
|---|---|---|
| `pair_closing` | `active()` is true "if either stream is still running or if the TCPConnection is lingering after both streams have finished" (tcp_connection.hh:93-94) | after the peer's FIN the lingering clock runs although the own SYN or FIN is unacknowledged (SYN_RCVD, CLOSING); with a backed-off timer the endpoint ends first |
| `socket_destructor` | "When a connected socket is destructed, it will send a RST" (tcp_sponge_socket.hh:75) | the RST is queued in the object being destroyed |

More was met while modelling that has no run of its own.  A client whose SYN is
repeated can get a bare ACK for it and then has a synchronised sender and a
listening receiver, which is none of the states tcp_state.hh:19-22 compares
with.  After a reset with more bytes buffered than one write to the pipe takes
(with the default socket buffers of Linux only when `recv_capacity` is above
65536) rule 3 shuts the pipe down, stays interested and writes again
(tcp_sponge_socket.cc:128-136); SIGPIPE then ends the process (`BrokenPipe`, taken
in the run `socket`).  A peer that vanishes with its window closed is probed for
ever, because probes are not counted (tcp_sender.cc:122).
`TCPOverUDPSocketAdapter::read` compares the address a datagram came from but not
the ports in the TCP header, which fd_adapter.cc:12-14 says it checks; the
client's adapter in fact sends 0 as its source port.  The adapter's flag `_listen`, "Is
the connected TCP FSM in listen state?" (fd_adapter.hh:21), is cleared by a
SYN+ACK, which a listening TCPConnection ignores, and by a SYN that the lossy
adapter then drops.  `TCPSegment::parse` does not look at `HeaderTooShort`.
`ByteStream::write` accepts bytes after `end_input` (byte_stream.hh:10-11 says it
does not); for a peer that ignores the window, the reassembler counts its
capacity from `bytes_written` and so holds more than `capacity` bytes
(stream_reassembler.hh:53-54); and a substring that starts more than the
capacity past the output makes `capacity_ - (index - bytes_written)` wrap and
reaches the assert at stream_reassembler.cc:12 instead of being "silently
discarded" (hh:60); and a last substring that is cut at the capacity sets the
end before its last byte (hh:64: "the last byte of `data` will be the last byte
in the entire stream").  These three do not happen between two endpoints of this
code (`BuffersHold`).

`IPv4Datagram::parse` drops the result of `IPv4Header::parse`, so a datagram with
a wrong version or a bad header checksum delivers its segment, against
ipv4_header.cc:13-22 ("It is important to check for (at least) the following
potential errors"); the TCP checksum still covers addresses, protocol and
length.  `EthernetFrame::parse` in the same way drops the header's
`PacketTooShort`: a frame cut inside its header parses without an error, and it
is the parser of the payload that refuses it (`UnderstoodWhenWhole`).  The event
loop returns `Success`, "At least one Rule was triggered" (eventloop.hh:44), and
at once, when all that happened is a hang-up on a descriptor that no rule is
interested in; the copying loop then spins until a rule is.  `as_string` of
`ParseResult` has no name for `Unsupported`.  The usage texts of the TCP
applications give 1000 as the default of `-w`; the capacity is 64000.

## 4. Bounds

* Sequence numbers have 8 or 16 values instead of 2^32; the initial number 14 of
  16 makes them wrap within the SYN and the first bytes.  Windows and streams
  stay below half the number space, as 64 KiB windows do in 2^32.
* `ByteStream`: capacity 3, at most 6 bytes in strings of up to 4: every
  offset of the ring with writes and reads that straddle its end.
* `Reassembler`: capacity 5, stream of 7: up to two separate stored intervals
  plus the gap before them and one that joins them, at every ring offset.
* `Sender`: payload 2, capacity 3, 4 bytes, windows 0, 1, 3, 5; the timer counts
  in half timeouts; `MaxRetx` bounds the backoff as `TCPConnection` does.
* `TCPPair`: 4 bytes in one direction in segments of at most 2, through a send
  buffer of 3 and a receive buffer of 2, so that the window closes, segments of
  different sizes overtake one another, and bytes are still unread when more
  arrive.  `MaxFaults` bounds what the network does wrong: a segment lost, one
  delivered and kept, or the clock ticking (a timeout, as `RtTimeout` is 1) while
  something is in flight.  One fault of any kind at any moment is enough for a
  retransmission to race a late answer; more faults multiply the states without
  new kinds of segments.  Between faults time passes when the network is empty.
  `pair` uses a small `MaxRetx` and `Linger`, so that lingering out happens early;
  giving up does not happen there, as one fault never makes that many
  retransmissions, and is left to the run `socket`.  `pair_ends` (2 bytes through
  a receive buffer of 1, so that a byte and the FIN have to wait for a probe) and
  `pair_closing` use the real 8 and 10.  Data in both
  directions at once appears in the socket's run only.
* `TCPSpongeSocket`: a pipe of 2 bytes, one byte per write of rule 3 (65536 in
  the code), 2 bytes in, 1 byte out, both roles.  Nothing is lost here and the
  peer answers at once, until it vanishes if it does: loss is the subject of
  `TCPPair`.  `MaxRetx` is 2 and `Linger` 5, so that giving up on a vanished peer
  happens, and lingering out still comes before giving up (after 7 timeouts with
  the doubling), as 10 does before 511 in the code; `SocketDestructor` uses the
  real 8 and 10.  Time passes in passes of the loop that find nothing ready.

* `Adapters`: a server and two clients with the same port and different
  addresses, so that only the address tells them apart; the segments SYN,
  SYN+ACK, SYN+RST and ACK+FIN with an odd payload, numbers at the ends of their
  ranges so that the checksum carries; two datagrams in flight; any one byte of
  a datagram changed to 0 or 85.  Widths and layouts are the real ones.

* `StreamCopy`: streams of 3 bytes, chunks of 2, room for 1 byte in the socket and
  in standard output, 4 bytes from standard input and 3 from the socket: each
  stream fills up, a chunk is taken in part, and a read is short at the limit of
  the stream and at the end of the source.  Standard input is a pipe or a file.
* `Frames`: an ARP request, an ARP reply and IPv4 datagrams with an empty and an
  odd payload, and all lists of up to three parts of up to two bytes; the
  descriptor takes any number of bytes each time, or fails, so every split occurs.
  Every byte of an ARP message is changed to 0, 1, 2 and 3.  Layouts are the real
  ones.

A receiver has no bound on the segments it takes: repeated states close the
search.  `CHECK_DEADLOCK FALSE` is set because both parts of every model may
stop for good when the streams have ended.

## 5. Fairness

`TCPPair!FairSpec` assumes weak fairness of every step but duplication: the
event loops serve each ready descriptor and tick every 10 ms, a segment that is
not lost arrives, and applications write, end and read.  `MaxFaults` bounds the
losses.  `TCPSpongeSocket!FairSpec` assumes that the thread is scheduled, that
the owner reads, ends its stream and waits after the end of file, and that the
peer connects and ends its stream; it does not assume that the owner writes or
destroys the socket, that the peer resets, or that it stays.  `StreamCopy!FairSpec` assumes
only that the loop is scheduled; `CopyEnds` states what has to happen outside
(the sources end, the outputs are drained) as its premise.  `Frames!FairSpec`
assumes that the descriptor takes something in the end, not that it fails.
`ReassemblerSpec!FairSpec` assumes
that the peer repeats what is missing and the reader reads.  In the first two the
fairness is written `<>[]Can... => []<><<Step>>_vars`, where `Can...` is the
condition under which the step is enabled and every such step changes `vars`;
this is weak fairness with ENABLED spelled out, which TLC evaluates much faster.
For the same reason the step `Deliver(e)` is recognised by its effect (`Delivered`);
that every step of `pair_ends` is one exactly when it is the other was checked
with TLC.

## 6. What is proved

`WrappingIntegers_proofs`, from `ModAssumption` and `AbsModAssumption` (the widths
are positive and the large one a multiple of the small one):
* `UnwrapRecovers`: for all `isn`, `seqno` and `checkpoint` less than half a
  turn apart, `unwrap(wrap(seqno, isn), isn, checkpoint) = seqno`.  The argument:
  the distance from the wrapped checkpoint to the wrapped number, taken modulo
  `Mod`, is the real distance in one of the two directions (`ModShift`,
  `ModUnique`), and that direction is the one `unwrap` picks, because the other
  distance is larger than half a turn.
* `SeqnoRoundTrip`: `Spec => []RoundTrip`, the property of the run `seqno`.

`ByteStream_proofs`, from `Capacity > 0` and strings over `Byte`:
* `TypeCorrect`: `Spec => []TypeOK`; `TypeOK` (ring position inside the ring,
  occupied part within the capacity, counters' difference equal to it) is
  inductive as it stands.
* `RingImplementsFifo`: `Spec => ImplementsFifo`.  The core is pointwise:
  `StoreAt` says which slot holds which byte after the copy in one or two
  pieces, `WriteAppends`, `OldestIsPrefix` and `PopKeepsRest` turn this into
  statements on the sequence `Contents`, and `FifoStep` maps each action to an
  action of the queue, a write to `Accept` or, once the input was ended, to
  `AcceptAfterEnd`.

`ReassemblerSpec_proofs`, from `ReassemblerAssumption` (the capacity is positive,
the marks for "no byte" and "no end" are not numbers), for a stream of any length
whose excerpts arrive in any order inside the window:
* `PutsOutPrefix`: `Spec => []OutputIsPrefix`.
* `StoresInPlace`: `Spec => []StoredInPlace`.
* `KeepsIntervalsApart`: `IntervalsApart` (`IntervalsOK` without the count), and that
  the assert of `push_substring` holds.
* `AssemblesInOrder`: `Spec => ImplementsAssembly`, the refinement.

The inductive invariant `Inv` has three parts besides the types: the output is a
prefix and within the window (`Prefix`); the intervals lie between the output and
the end of the window and do not touch, and their bytes are in place (`Stored`);
and the end is known exactly when the last byte was received (`Ending`).  They
need each other: a byte copied into the ring spoils no other because the
intervals stay within one turn, and what is popped is the right piece because it
was in place.  `MergeAdds` shows of the closed form of `MergeInterval` that it
adds the new indices and leaves intervals that do not touch; `CopyPlaces` and
`PopShifts` do the arithmetic of the ring; `StoreStep` puts them together, with
the case of a full window (the probe) on its own; `PushStep` adds the trimming
and the end.  The refinement follows from what `PushStep` says of each index
(`Seen`) and from `OutputIsFrontier`: the output always reaches up to the first
index that is missing.

`SenderSpec_proofs`, from `SenderAssumption`, `DriverAssumption` and
the same two (sizes, widths and the timeout are positive, windows are
numbers), for any acknowledgements:
* `TimerWatches`: `Spec => []TimerIffOutstanding`.
* `NumbersFollowStream`: `Spec => []NumbersMatchStream`.
* `StaysInWindow`: `Spec => RespectsWindow`, an action property.

`Good`, the inductive invariant, adds to the two invariants what the methods rely
on (`Sane`): `last_ack_no_` is at most `next_seq_no_`, without which the room in
the window would be a number that wrapped, and the stream fails only after the
SYN, without which `state()` would not tell the first call of `fill_window`.
`FillStep`, `AckStep`, `TickStep` and `StreamStep` take one method each.
The invariant says nothing of `bytes_in_flight_`: that it is the sum over the
outstanding segments needs induction along the queue.

`StreamCopy_proofs`, from `CopyAssumption` (sizes are positive numbers), for any
amount of data:
* `NoByteLost`: `Spec => []EveryByteOnce`, by the bounds of what a read or a write
  may move (`WriteFits`, `ReadPops`).
* `EndAfterEverything`: `Spec => []EndMeansAll`.
* `ExitOnlyWhenDone`: `Spec => []ReturnsWhenDone`.
* `EndedStreamsStay`: `Spec => NothingAfterEnd`, an action property.

None of the last three is inductive.  What the loop knows of the world is spread
over the flags of the descriptors and of the streams and over which rules are
left, and a rule that poll found ready runs after others have changed them.
`Inv` adds two things.  `Reasons` says why a stream is ended, a rule gone or an
end passed on: for the outbound stream, that nothing more will come from
standard input (`InputOver`) or that the socket is gone and rule 2 with it.
`Pending` says of what poll saw that it is still so when it is handled, because
the steps in between change it only for good: a pipe that hung up has ended and
is empty, and no rule is cancelled while its result is pending.
There is one lemma per kind of step (`PollStep`, `ReturnStep`, `DiesStep`,
`HangUpStep`, one for each of the four rules, and `OthersStep`).

Only model-checked: everything else, all liveness (TLAPS does not prove it), the
agreement of loops with their closed forms (the loops are RECURSIVE operators),
and what needs induction over data: the sums in `OutstandingOK` and
`IntervalsOK` and the powers in `BackoffMatchesCount`.

## 7. Plan

1. `TCPSpongeSocket` over `Adapters`: which of two SYNs wins when the first is
   dropped after binding, and whether the client that was not bound gives up.
2. `StreamCopy` joined to `TCPSpongeSocket`: the two event loops at the two ends
   of one pipe.
3. Proofs: of the socket, `DiesOnlyOfReset`; of the connection, that what
   `TCPReceiver` advertises is the window which `ReassemblerSpec` takes for
   granted.

## 8. Not modelled

`NetworkInterface` has empty methods here, and the TAP adapter only calls it.
`Address`, the options of `Socket` and opening devices are single system calls
with their arguments converted.  The applications (`tcp_udp`, `tcp_ipv4`,
`tcp_ip_ethernet`, `tcp_native`, `webget`, `tcp_benchmark`, `tun`,
`udp_tcpdump`) parse a command line or print, and call the library in sequence;
what they run concurrently is `TCPSpongeSocket` and `bidirectional_stream_copy`.
Signals, which make the event loop return `Exit`, are not modelled.
In `Datagrams` the exceptions of `serialize` are
left out: the adapters only write headers that pass those checks (that of
`ARPMessage::serialize` is modelled).  `UDPSocket::recv` throws for a datagram
larger than its buffer; the adapter uses the default of 65536 bytes, which no UDP
datagram exceeds.  The
debugging output and `_fully_acked`, which only it reads, are left out.  The
busy-wait check of the event loop cannot fire for the rules of the socket, where
rules 1 to 3 always read or write their descriptor and rule 4 empties the queue
its interest looks at, nor for those of the copying loop, whose callbacks all
read or write, or pass on an end that ends their interest.  A call of
`wait_until_closed` before the end of file, which its note
advises against, is not modelled.
