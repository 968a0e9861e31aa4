------------------------- MODULE StreamCopy_proofs --------------------------
(***************************************************************************)
(* The safety properties of StreamCopy for all sizes of buffers, chunks    *)
(* and pipes and any number of bytes.                                      *)
(***************************************************************************)
EXTENDS StreamCopy, TLAPS

Flags == [input_eof : BOOLEAN, socket_eof : BOOLEAN,
          outbound_shutdown : BOOLEAN, inbound_shutdown : BOOLEAN]

\* Nothing more will be read from standard input, or from the socket.
InputOver == ~stdin.open /\ stdin.taken = stdin.given

PeerOver == link.peer # "open" /\ link.taken = link.offered

\* Why a stream has ended and why a rule is gone.
Reasons ==
  /\ stdin.taken <= stdin.given /\ link.taken <= link.offered
  /\ ~outbound.failed /\ ~inbound.failed
  /\ flags.input_eof => InputOver
  /\ flags.socket_eof => PeerOver
  /\ outbound.ended => InputOver \/ 2 \notin loop.rules
  /\ inbound.ended => PeerOver
  /\ 1 \notin loop.rules => outbound.ended
  /\ 2 \notin loop.rules => link.peer = "gone"
  /\ 3 \notin loop.rules => inbound.ended
  /\ 4 \notin loop.rules => stdout.closed
  /\ flags.outbound_shutdown = link.shut
  /\ flags.inbound_shutdown = stdout.closed

\* What poll saw is still so, or has become so for good, when it is handled.
Pending ==
  /\ loop.at = "poll" => loop.todo = {}
  /\ \A e \in loop.todo : e[1] \in loop.rules
  /\ \A e, f \in loop.todo : e[1] = f[1] => e = f
  /\ <<1, "ready">> \in loop.todo => stdin.taken < stdin.given \/ ~stdin.open
  /\ <<3, "ready">> \in loop.todo => link.taken < link.offered \/ link.peer # "open"
  /\ <<1, "hangup">> \in loop.todo => InputOver
  /\ <<2, "hangup">> \in loop.todo => link.peer = "gone"
  /\ <<3, "hangup">> \notin loop.todo /\ <<4, "hangup">> \notin loop.todo

Inv == /\ TypeOK /\ EveryByteOnce /\ EndMeansAll /\ ReturnsWhenDone
       /\ Reasons /\ Pending

-----------------------------------------------------------------------------
(* What the operators on a stream do.                                      *)

\* A read or write moves no more than there is and no more than there is room for.
LEMMA MovesBounded ==
  ASSUME NEW n \in Nat, NEW m \in Int, NEW k \in Moves(n, m)
  PROVE  k \in Nat /\ k <= n /\ (k > 0 => k <= m) /\ (k = 0 => n = 0 \/ m = 0)
  BY DEF Moves, smaller

\* What fits is accepted whole.
LEMMA WriteFits ==
  ASSUME NEW st \in Stream, buffer_size(st) \in 0 .. BufferSize,
         NEW n \in Nat, n > 0 => n <= Space(st)
  PROVE  /\ write(st, n, BufferSize) \in Stream
         /\ write(st, n, BufferSize) = [st EXCEPT !.written = st.written + n]
         /\ buffer_size(write(st, n, BufferSize)) = buffer_size(st) + n
  BY CopyAssumption
     DEF Stream, buffer_size, Space, remaining_capacity, write, accepted, smaller

\* What is there is popped.
LEMMA ReadPops ==
  ASSUME NEW st \in Stream, NEW n \in Nat, n <= buffer_size(st)
  PROVE  /\ read(st, n) \in Stream
         /\ read(st, n) = [st EXCEPT !.popped = st.popped + n]
         /\ buffer_size(read(st, n)) = buffer_size(st) - n
  BY DEF Stream, buffer_size, read, smaller

\* Ending a stream leaves its bytes.
LEMMA EndKeepsBytes ==
  ASSUME NEW st \in Stream
  PROVE  /\ end_input(st) \in Stream /\ end_input(st).ended
         /\ end_input(st).failed = st.failed
         /\ end_input(st).written = st.written /\ end_input(st).popped = st.popped
         /\ buffer_size(end_input(st)) = buffer_size(st)
  BY DEF Stream, end_input, buffer_size

-----------------------------------------------------------------------------

\* The loop starts with empty streams, all rules and nothing pending.
LEMMA InitInv == Init => Inv
<1> SUFFICES ASSUME Init PROVE Inv
  OBVIOUS
<1>1. outbound \in Stream /\ inbound \in Stream
  BY DEF Init, NewStream, Stream
<1>2. stdin \in [kind : {"pipe", "file"}, given : Nat, taken : Nat, open : BOOLEAN]
  BY DEF Init
<1>3. TypeOK
  <2>1. flags \in [input_eof : BOOLEAN, socket_eof : BOOLEAN,
                   outbound_shutdown : BOOLEAN, inbound_shutdown : BOOLEAN]
    BY DEF Init
  <2>2. loop \in [at : {"poll", "serve", "returned", "threw", "killed"}, rules : SUBSET Rules,
                  todo : SUBSET (Rules \X {"ready", "hangup", "error"})]
    BY DEF Init
  <2>3. stdout \in [put : Nat, took : Nat, closed : BOOLEAN, reader : BOOLEAN]
        /\ link \in [sent : Nat, got : Nat, shut : BOOLEAN, offered : Nat, taken : Nat,
                     peer : {"open", "ended", "gone"}]
    BY DEF Init
  <2> QED BY <1>1, <1>2, <2>1, <2>2, <2>3 DEF TypeOK
<1>4. EveryByteOnce
  BY CopyAssumption DEF Init, EveryByteOnce, buffer_size, NewStream
<1>5. EndMeansAll /\ ReturnsWhenDone
  BY DEF Init, EndMeansAll, ReturnsWhenDone
<1>6. Reasons
  BY DEF Init, Reasons, Rules, NewStream
<1>7. Pending
  BY DEF Init, Pending
<1> QED BY <1>3, <1>4, <1>5, <1>6, <1>7 DEF Inv

\* The parties at the descriptors' other ends keep what the loop relies on.
LEMMA OthersStep ==
  ASSUME Inv,
         StdinGets \/ StdinEnds \/ PeerSends \/ PeerGets \/ PeerEnds \/ StdoutIsRead \/ ReaderLeaves
  PROVE  Inv'
<1> USE CopyAssumption
         DEF Inv, TypeOK, EveryByteOnce, EndMeansAll, ReturnsWhenDone, Reasons, Pending,
             InputOver, PeerOver, buffer_size, Stream, Rules
<1>1. CASE StdinGets BY <1>1 DEF StdinGets
<1>2. CASE StdinEnds
  <2>1. /\ stdin' \in [kind : {"pipe", "file"}, given : Nat, taken : Nat, open : BOOLEAN]
        /\ ~stdin'.open /\ stdin'.given = stdin.given /\ stdin'.taken = stdin.taken
    BY <1>2 DEF StdinEnds
  <2> QED BY <1>2, <2>1 DEF StdinEnds
<1>3. CASE PeerSends BY <1>3 DEF PeerSends
<1>4. CASE PeerGets BY <1>4 DEF PeerGets
<1>5. CASE PeerEnds
  <2>1. CASE link.peer = "open" /\ link' = [link EXCEPT !.peer = "ended"] BY <1>5, <2>1 DEF PeerEnds
  <2>2. CASE link.peer # "gone" /\ link' = [link EXCEPT !.peer = "gone"] BY <1>5, <2>2 DEF PeerEnds
  <2> QED BY <1>5, <2>1, <2>2 DEF PeerEnds
<1>6. CASE StdoutIsRead BY <1>6 DEF StdoutIsRead
<1>7. CASE ReaderLeaves
  <2>1. stdout' \in [put : Nat, took : Nat, closed : BOOLEAN, reader : BOOLEAN]
        /\ stdout'.put = stdout.put /\ stdout'.closed = stdout.closed
    BY <1>7 DEF ReaderLeaves
  <2> QED BY <1>7, <2>1 DEF ReaderLeaves
<1> QED BY <1>1, <1>2, <1>3, <1>4, <1>5, <1>6, <1>7

-----------------------------------------------------------------------------
(* The event loop.                                                         *)

\* Cancelling a set of rules keeps the bytes of the streams.
LEMMA CancelKeepsBytes ==
  ASSUME outbound \in Stream, inbound \in Stream, NEW rules
  PROVE  /\ cancel_outbound(rules) \in Stream /\ cancel_inbound(rules) \in Stream
         /\ cancel_outbound(rules).written = outbound.written
         /\ cancel_inbound(rules).written = inbound.written
         /\ cancel_outbound(rules).failed = outbound.failed
         /\ cancel_inbound(rules).failed = inbound.failed
         /\ buffer_size(cancel_outbound(rules)) = buffer_size(outbound)
         /\ buffer_size(cancel_inbound(rules)) = buffer_size(inbound)
         /\ cancel_outbound(rules).ended <=> outbound.ended \/ 1 \in rules \/ 2 \in rules
         /\ cancel_inbound(rules).ended <=> inbound.ended \/ 3 \in rules \/ 4 \in rules
<1>1. rules \cap {1, 2} # {} <=> 1 \in rules \/ 2 \in rules
  OBVIOUS
<1>2. rules \cap {3, 4} # {} <=> 3 \in rules \/ 4 \in rules
  OBVIOUS
<1>3. /\ cancel_outbound(rules) = outbound \/ cancel_outbound(rules) = end_input(outbound)
      /\ cancel_inbound(rules) = inbound \/ cancel_inbound(rules) = end_input(inbound)
  BY DEF cancel_outbound, cancel_inbound
<1>4. /\ cancel_outbound(rules).ended <=> outbound.ended \/ 1 \in rules \/ 2 \in rules
      /\ cancel_inbound(rules).ended <=> inbound.ended \/ 3 \in rules \/ 4 \in rules
  BY <1>1, <1>2, EndKeepsBytes DEF cancel_outbound, cancel_inbound
<1> QED BY <1>3, <1>4, EndKeepsBytes

\* A stream that was shut down has no bytes left.
LEMMA ShutMeansEmpty ==
  ASSUME Inv
  PROVE  /\ link.shut => buffer_size(outbound) = 0 /\ InputOver
         /\ stdout.closed => buffer_size(inbound) = 0 /\ PeerOver
  BY DEF Inv, TypeOK, Stream, EveryByteOnce, EndMeansAll, Reasons, InputOver, PeerOver, buffer_size

\* The rules left after the ones at their end are cancelled.
LEMMA CancelKeepsReasons ==
  ASSUME Inv,
         outbound' = cancel_outbound(AtEnd), inbound' = cancel_inbound(AtEnd),
         loop'.rules = loop.rules \ AtEnd, UNCHANGED <<flags, stdin, link, stdout>>
  PROVE  Reasons' /\ EveryByteOnce' /\ EndMeansAll'
<1>1. outbound \in Stream /\ inbound \in Stream /\ Reasons /\ EveryByteOnce /\ EndMeansAll
  BY DEF Inv, TypeOK
<1>2. /\ 1 \in AtEnd => flags.input_eof
      /\ 3 \in AtEnd => flags.socket_eof
      /\ 4 \in AtEnd => stdout.closed
      /\ 2 \notin AtEnd
  BY DEF AtEnd
<1>3. stdout.closed => PeerOver
  BY ShutMeansEmpty
<1>4. EveryByteOnce' /\ EndMeansAll'
  BY <1>1, CancelKeepsBytes DEF EveryByteOnce, EndMeansAll, buffer_size
<1>5. Reasons'
  BY <1>1, <1>2, <1>3, CancelKeepsBytes DEF Reasons, InputOver, PeerOver
<1> QED BY <1>4, <1>5

\* What each rule is interested in.
LEMMA Interests ==
  ASSUME NEW out, NEW in
  PROVE  /\ interest(1, out, in) <=> ~out.failed /\ Space(out) > 0 /\ ~in.failed
         /\ interest(2, out, in) <=> buffer_size(out) > 0 \/ (eof(out) /\ ~flags.outbound_shutdown)
         /\ interest(3, out, in) <=> ~in.failed /\ Space(in) > 0 /\ ~out.failed
         /\ interest(4, out, in) <=> buffer_size(in) > 0 \/ (eof(in) /\ ~flags.inbound_shutdown)
  BY DEF interest, WantsInput, WantsToSend, WantsSocket, WantsToPutOut

\* poll reports only what is so, and at most one thing of each rule.
LEMMA PollStep == ASSUME Inv, Poll PROVE Inv'
<1>1. Reasons' /\ EveryByteOnce' /\ EndMeansAll'
  BY CancelKeepsReasons DEF Poll
<1>2. /\ Interested \subseteq loop.rules \ AtEnd /\ loop.rules \subseteq Rules
      /\ \A e \in Polled : e[1] \in loop.rules \ AtEnd
      /\ Polled \subseteq Rules \X {"ready", "hangup", "error"}
  BY DEF Interested, Polled, Inv, TypeOK
<1>3. TypeOK'
  <2>1. outbound' \in Stream /\ inbound' \in Stream
    BY CancelKeepsBytes DEF Poll, Inv, TypeOK
  <2>2. loop' \in [at : {"poll", "serve", "returned", "threw", "killed"}, rules : SUBSET Rules,
                   todo : SUBSET (Rules \X {"ready", "hangup", "error"})]
    BY <1>2 DEF Poll
  <2> QED BY <2>1, <2>2 DEF Poll, Inv, TypeOK
<1>4. ReturnsWhenDone'
  BY DEF Poll, ReturnsWhenDone
<1>5. Pending'
  <2>1. \A e, f \in Polled : e[1] = f[1] => e = f
    <3>1. \A e \in Polled : \/ e = <<e[1], "error">> /\ Failed(e[1])
                            \/ e = <<e[1], "ready">> /\ Ready(e[1]) /\ ~Failed(e[1])
                            \/ e = <<e[1], "hangup">> /\ ~Ready(e[1]) /\ HungUp(e[1])
      BY DEF Polled
    <3>2. \A i \in Rules : HungUp(i) => ~Failed(i)
      <4>1. ~HungUp(4) BY DEF HungUp
      <4>2. \A i : Failed(i) => i = 4 BY DEF Failed
      <4> QED BY <4>1, <4>2
    <3> QED BY <1>2, <3>1, <3>2
  <2>2. /\ <<1, "ready">> \in Polled => Ready(1)
        /\ <<3, "ready">> \in Polled => Ready(3)
        /\ \A i \in Rules : <<i, "hangup">> \in Polled => HungUp(i) /\ ~Ready(i) /\ i \in Interested
    BY DEF Polled
  <2>3. <<1, "hangup">> \in Polled => InputOver
    BY <2>2 DEF HungUp, Ready, InputOver, Inv, TypeOK, Reasons, Rules
  <2>4. <<3, "hangup">> \notin Polled /\ <<4, "hangup">> \notin Polled
    BY <2>2 DEF HungUp, Ready, Rules, Inv, TypeOK
  <2>5. <<2, "hangup">> \in Polled => link.peer = "gone"
    <3> SUFFICES ASSUME <<2, "hangup">> \in Polled, link.peer # "gone" PROVE FALSE
      OBVIOUS
    <3>1. link.shut /\ 2 \in Interested
      BY <2>2 DEF HungUp, Rules
    <3>2. /\ interest(2, cancel_outbound(AtEnd), cancel_inbound(AtEnd))
          /\ buffer_size(cancel_outbound(AtEnd)) = buffer_size(outbound)
      BY <3>1, CancelKeepsBytes DEF Interested, Inv, TypeOK
    <3>3. buffer_size(outbound) = 0 /\ flags.outbound_shutdown
      BY <3>1, ShutMeansEmpty DEF Inv, Reasons
    <3> QED BY <3>2, <3>3 DEF interest, WantsToSend
  <2>6. /\ loop'.todo = Polled /\ loop'.rules = loop.rules \ AtEnd /\ UNCHANGED <<stdin, link>>
        /\ loop'.at = "poll" => Polled = {}
    BY DEF Poll
  <2>7. /\ Ready(1) => stdin.taken < stdin.given \/ ~stdin.open
        /\ Ready(3) => link.taken < link.offered \/ link.peer # "open"
    BY DEF Ready
  <2> QED BY <1>2, <2>1, <2>2, <2>3, <2>4, <2>5, <2>6, <2>7 DEF Pending, InputOver
<1> QED BY <1>1, <1>3, <1>4, <1>5 DEF Inv

\* When no rule is interested, both ends have been passed on or the socket is gone.
LEMMA ReturnStep == ASSUME Inv, Return PROVE Inv'
<1> DEFINE out == cancel_outbound(AtEnd)
           in == cancel_inbound(AtEnd)
<1> HIDE DEF out, in
<1>1. Reasons' /\ EveryByteOnce' /\ EndMeansAll'
  BY CancelKeepsReasons DEF Return, Inv, TypeOK
<1>2. TypeOK'
  <2>1. outbound' \in Stream /\ inbound' \in Stream
    BY CancelKeepsBytes DEF Return, Inv, TypeOK
  <2>2. loop' \in [at : {"poll", "serve", "returned", "threw", "killed"}, rules : SUBSET Rules,
                   todo : SUBSET (Rules \X {"ready", "hangup", "error"})]
    BY DEF Return, Inv, TypeOK
  <2> QED BY <2>1, <2>2 DEF Return, Inv, TypeOK
<1>3. Pending'
  <2>1. loop.todo = {} /\ loop'.todo = {} /\ loop'.at = "returned"
    BY DEF Return, Inv, TypeOK, Pending
  <2> QED BY <2>1 DEF Pending
<1>4. ReturnsWhenDone'
  <2>1. /\ \A i \in loop'.rules : ~interest(i, out, in)
        /\ UNCHANGED <<flags, stdin, link, stdout>> /\ outbound' = out /\ inbound' = in
        /\ 2 \in loop.rules => 2 \in loop'.rules
    BY DEF Return, Interested, AtEnd, Inv, TypeOK, out, in
  <2>2. /\ ~out.failed /\ ~in.failed /\ out.ended \in BOOLEAN /\ in.ended \in BOOLEAN
        /\ buffer_size(out) \in 0 .. BufferSize /\ buffer_size(in) \in 0 .. BufferSize
        /\ 1 \notin loop'.rules => out.ended
        /\ 2 \notin loop'.rules => link.peer = "gone"
        /\ 3 \notin loop'.rules => in.ended
        /\ 4 \notin loop'.rules => stdout.closed
        /\ flags.outbound_shutdown = link.shut /\ flags.inbound_shutdown = stdout.closed
    BY <1>1, <1>2, <2>1 DEF Reasons, EveryByteOnce, TypeOK, Stream, buffer_size
  <2>3. link.shut \/ (link.peer = "gone" /\ 2 \notin loop'.rules)
    <3> SUFFICES ASSUME 2 \in loop'.rules, ~link.shut PROVE FALSE
      BY <2>2
    <3>1. buffer_size(out) = 0 /\ ~eof(out)
      BY <2>1, <2>2, Interests
    <3>2. 1 \in loop'.rules /\ Space(out) > 0
      BY <2>2, <3>1, CopyAssumption DEF eof, Space, remaining_capacity
    <3> QED BY <2>1, <2>2, <3>2, Interests
  <2>4. stdout.closed
    <3> SUFFICES ASSUME ~stdout.closed PROVE FALSE
      OBVIOUS
    <3>1. buffer_size(in) = 0 /\ ~eof(in)
      BY <2>1, <2>2, Interests
    <3>2. 3 \in loop'.rules /\ Space(in) > 0
      BY <2>2, <3>1, CopyAssumption DEF eof, Space, remaining_capacity
    <3> QED BY <2>1, <2>2, <3>2, Interests
  <2> QED BY <2>1, <2>3, <2>4 DEF ReturnsWhenDone
<1> QED BY <1>1, <1>2, <1>3, <1>4 DEF Inv

\* An error or a signal ends the loop and changes nothing else.
LEMMA DiesStep == ASSUME Inv, NEW i, NEW event, NEW how \in {"threw", "killed"}, Dies(i, event, how) PROVE Inv'
<1>1. /\ UNCHANGED <<outbound, inbound, flags, stdin, link, stdout>>
      /\ loop' \in [at : {"poll", "serve", "returned", "threw", "killed"}, rules : SUBSET Rules,
                     todo : SUBSET (Rules \X {"ready", "hangup", "error"})]
      /\ loop'.at = how /\ loop'.rules = loop.rules /\ loop'.todo = loop.todo
  BY DEF Dies, Inv, TypeOK
<1>2. TypeOK' /\ EveryByteOnce' /\ EndMeansAll' /\ ReturnsWhenDone'
  BY <1>1 DEF Inv, TypeOK, EveryByteOnce, EndMeansAll, ReturnsWhenDone
<1>3. Reasons' /\ Pending'
  BY <1>1 DEF Inv, Reasons, Pending, InputOver, PeerOver
<1> QED BY <1>2, <1>3 DEF Inv

\* What handling one event does to the loop.
LEMMA ServeLoop ==
  ASSUME Inv, NEW i \in Rules, NEW event, NEW rules \in SUBSET Rules, Serve(i, event, rules)
  PROVE  /\ loop' \in [at : {"poll", "serve", "returned", "threw", "killed"}, rules : SUBSET Rules,
                        todo : SUBSET (Rules \X {"ready", "hangup", "error"})]
         /\ loop'.at \in {"poll", "serve"} /\ (loop'.at = "poll" => loop'.todo = {})
         /\ loop'.rules = rules /\ loop'.todo \subseteq loop.todo
         /\ <<i, event>> \in loop.todo /\ i \in loop.rules
         /\ \A e \in loop'.todo : e[1] # i
<1>1. <<i, event>> \in loop.todo /\ i \in loop.rules
  BY DEF Serve, Inv, Pending
<1>2. \A e \in loop.todo \ {<<i, event>>} : e[1] # i
  BY <1>1 DEF Inv, Pending
<1> QED BY <1>1, <1>2 DEF Serve, Inv, TypeOK

\* Handling an event leaves what is pending for the other rules.
LEMMA ServeKeepsPending ==
  ASSUME Inv, NEW i \in Rules, NEW event, NEW rules \in SUBSET Rules, Serve(i, event, rules),
         loop.rules \ {i} \subseteq rules,
         stdin'.open = stdin.open, stdin'.given = stdin.given, i # 1 => stdin'.taken = stdin.taken,
         link'.peer = link.peer, link'.offered = link.offered, i # 3 => link'.taken = link.taken
  PROVE  Pending'
<1>1. /\ (loop'.at = "poll" => loop'.todo = {}) /\ loop'.rules = rules
      /\ loop'.todo \subseteq loop.todo /\ \A e \in loop'.todo : e[1] # i
  BY ServeLoop
<1>2. /\ \A what : <<1, what>> \in loop'.todo => i # 1 /\ <<1, what>> \in loop.todo
      /\ \A what : <<3, what>> \in loop'.todo => i # 3 /\ <<3, what>> \in loop.todo
  BY <1>1
<1> QED BY <1>1, <1>2 DEF Inv, Pending, InputOver

\* Only standard input at its end and a socket shut down both ways hang up.
LEMMA HangUpStep == ASSUME Inv, NEW i \in Rules, HangUp(i) PROVE Inv'
<1>1. /\ outbound' = cancel_outbound({i}) /\ inbound' = cancel_inbound({i})
      /\ UNCHANGED <<flags, stdin, link, stdout>> /\ Serve(i, "hangup", loop.rules \ {i})
      /\ loop.rules \ {i} \in SUBSET Rules
  BY DEF HangUp, Inv, TypeOK
<1>2. /\ loop' \in [at : {"poll", "serve", "returned", "threw", "killed"}, rules : SUBSET Rules,
                     todo : SUBSET (Rules \X {"ready", "hangup", "error"})]
      /\ loop'.at \in {"poll", "serve"} /\ loop'.rules = loop.rules \ {i}
      /\ <<i, "hangup">> \in loop.todo
  BY <1>1, ServeLoop
<1>3. (i = 1 /\ InputOver) \/ (i = 2 /\ link.peer = "gone")
  BY <1>2 DEF Inv, Pending, Rules
<1>4. TypeOK' /\ EveryByteOnce' /\ EndMeansAll' /\ ReturnsWhenDone'
  BY <1>1, <1>2, CancelKeepsBytes
     DEF Inv, TypeOK, EveryByteOnce, EndMeansAll, ReturnsWhenDone, buffer_size
<1>5. Reasons'
  <2>1. /\ outbound'.ended /\ inbound'.ended = inbound.ended
        /\ ~outbound'.failed /\ ~inbound'.failed
    BY <1>1, <1>3, CancelKeepsBytes DEF Inv, TypeOK, Stream, Reasons
  <2> QED BY <1>1, <1>2, <1>3, <2>1 DEF Inv, Reasons, InputOver, PeerOver
<1>6. Pending'
  BY <1>1, ServeKeepsPending
<1> QED BY <1>4, <1>5, <1>6 DEF Inv

-----------------------------------------------------------------------------
(* The callbacks.                                                          *)

\* A flag is raised, and the others stay as they are.
LEMMA FlagRaised ==
  ASSUME flags \in Flags, NEW b \in BOOLEAN
  PROVE  /\ LET f == [flags EXCEPT !.input_eof = @ \/ b]
            IN  f \in Flags /\ (f.input_eof <=> flags.input_eof \/ b) /\ f.socket_eof = flags.socket_eof
                /\ f.outbound_shutdown = flags.outbound_shutdown /\ f.inbound_shutdown = flags.inbound_shutdown
         /\ LET f == [flags EXCEPT !.socket_eof = @ \/ b]
            IN  f \in Flags /\ (f.socket_eof <=> flags.socket_eof \/ b) /\ f.input_eof = flags.input_eof
                /\ f.outbound_shutdown = flags.outbound_shutdown /\ f.inbound_shutdown = flags.inbound_shutdown
         /\ LET f == [flags EXCEPT !.outbound_shutdown = @ \/ b]
            IN  f \in Flags /\ (f.outbound_shutdown <=> flags.outbound_shutdown \/ b)
                /\ f.input_eof = flags.input_eof /\ f.socket_eof = flags.socket_eof
                /\ f.inbound_shutdown = flags.inbound_shutdown
         /\ LET f == [flags EXCEPT !.inbound_shutdown = @ \/ b]
            IN  f \in Flags /\ (f.inbound_shutdown <=> flags.inbound_shutdown \/ b)
                /\ f.input_eof = flags.input_eof /\ f.socket_eof = flags.socket_eof
                /\ f.outbound_shutdown = flags.outbound_shutdown
  BY DEF Flags

\* The callback of rule 1.
LEMMA InputStep == ASSUME Inv, InputToOutbound PROVE Inv'
<1>1. PICK n \in Moves(stdin.given - stdin.taken, Space(outbound)) :
        /\ stdin' = [stdin EXCEPT !.taken = @ + n]
        /\ flags' = [flags EXCEPT !.input_eof = @ \/ (n = 0 /\ Space(outbound) > 0)]
        /\ outbound' = IF flags'.input_eof THEN end_input(write(outbound, n, BufferSize))
                       ELSE write(outbound, n, BufferSize)
  BY DEF InputToOutbound
<1>2. Serve(1, "ready", loop.rules) /\ UNCHANGED <<inbound, link, stdout>>
  BY DEF InputToOutbound
<1>3. /\ loop' \in [at : {"poll", "serve", "returned", "threw", "killed"}, rules : SUBSET Rules,
                     todo : SUBSET (Rules \X {"ready", "hangup", "error"})]
      /\ loop'.at \in {"poll", "serve"} /\ loop'.rules = loop.rules
      /\ <<1, "ready">> \in loop.todo
  BY <1>2, ServeLoop DEF Inv, TypeOK, Rules
<1>4. /\ n \in Nat /\ n <= stdin.given - stdin.taken /\ (n > 0 => n <= Space(outbound))
      /\ n = 0 /\ Space(outbound) > 0 => stdin.taken = stdin.given
  <2>1. stdin.given - stdin.taken \in Nat /\ Space(outbound) \in Int
    BY CopyAssumption DEF Inv, TypeOK, Reasons, Stream, Space, remaining_capacity, buffer_size
  <2> QED BY <2>1, MovesBounded DEF Inv, TypeOK
<1>5. /\ outbound' \in Stream /\ outbound'.popped = outbound.popped
      /\ outbound'.written = outbound.written + n /\ outbound'.failed = outbound.failed
      /\ buffer_size(outbound') = buffer_size(outbound) + n
      /\ outbound'.ended <=> outbound.ended \/ flags'.input_eof
  <2>1. outbound \in Stream /\ buffer_size(outbound) \in 0 .. BufferSize
    BY DEF Inv, TypeOK, EveryByteOnce
  <2> DEFINE filled == write(outbound, n, BufferSize)
  <2>2. /\ filled \in Stream /\ filled = [outbound EXCEPT !.written = outbound.written + n]
        /\ buffer_size(filled) = buffer_size(outbound) + n
    BY <1>4, <2>1, WriteFits
  <2> HIDE DEF filled
  <2>3. outbound' = IF flags'.input_eof THEN end_input(filled) ELSE filled
    BY <1>1 DEF filled
  <2> QED BY <2>1, <2>2, <2>3, EndKeepsBytes DEF Stream
<1>6. /\ stdin' \in [kind : {"pipe", "file"}, given : Nat, taken : Nat, open : BOOLEAN]
      /\ stdin'.open = stdin.open /\ stdin'.given = stdin.given /\ stdin'.taken = stdin.taken + n
      /\ stdin'.taken <= stdin.given
      /\ flags' \in Flags
      /\ flags'.input_eof <=> flags.input_eof \/ (n = 0 /\ Space(outbound) > 0)
      /\ flags'.socket_eof = flags.socket_eof
      /\ flags'.outbound_shutdown = flags.outbound_shutdown
      /\ flags'.inbound_shutdown = flags.inbound_shutdown
  <2>1. /\ stdin' \in [kind : {"pipe", "file"}, given : Nat, taken : Nat, open : BOOLEAN]
        /\ stdin'.open = stdin.open /\ stdin'.given = stdin.given /\ stdin'.taken = stdin.taken + n
        /\ stdin'.taken <= stdin.given
    BY <1>1, <1>4 DEF Inv, TypeOK
  <2> DEFINE ended == n = 0 /\ Space(outbound) > 0
  <2> HIDE DEF ended
  <2>2. ended \in BOOLEAN /\ flags' = [flags EXCEPT !.input_eof = @ \/ ended]
    BY <1>1 DEF ended
  <2>3. flags \in Flags
    BY DEF Inv, TypeOK, Flags
  <2>4. /\ flags' \in Flags /\ (flags'.input_eof <=> flags.input_eof \/ ended)
        /\ flags'.socket_eof = flags.socket_eof
        /\ flags'.outbound_shutdown = flags.outbound_shutdown
        /\ flags'.inbound_shutdown = flags.inbound_shutdown
    BY <2>2, <2>3, FlagRaised
  <2> QED BY <2>1, <2>4 DEF ended
<1>7. (flags'.input_eof => InputOver') /\ (InputOver => InputOver')
  BY <1>3, <1>4, <1>6 DEF Inv, TypeOK, Reasons, Pending, InputOver
<1>8. TypeOK' /\ EndMeansAll' /\ ReturnsWhenDone'
  BY <1>2, <1>3, <1>5, <1>6 DEF Inv, TypeOK, Flags, EndMeansAll, ReturnsWhenDone
<1>9. EveryByteOnce'
  BY <1>2, <1>4, <1>5, <1>6, CopyAssumption
     DEF Inv, TypeOK, Stream, EveryByteOnce, buffer_size, Space, remaining_capacity
<1>10. Reasons'
  BY <1>2, <1>3, <1>5, <1>6, <1>7 DEF Inv, TypeOK, Reasons, PeerOver
<1>11. Pending'
  BY <1>2, <1>6, ServeKeepsPending DEF Inv, TypeOK, Rules
<1> QED BY <1>8, <1>9, <1>10, <1>11 DEF Inv

\* The callback of rule 3.
LEMMA SocketStep == ASSUME Inv, SocketToInbound PROVE Inv'
<1>1. PICK n \in Moves(link.offered - link.taken, Space(inbound)) :
        /\ link' = [link EXCEPT !.taken = @ + n]
        /\ flags' = [flags EXCEPT !.socket_eof = @ \/ (n = 0 /\ Space(inbound) > 0)]
        /\ inbound' = IF flags'.socket_eof THEN end_input(write(inbound, n, BufferSize))
                       ELSE write(inbound, n, BufferSize)
  BY DEF SocketToInbound
<1>2. Serve(3, "ready", loop.rules) /\ UNCHANGED <<outbound, stdin, stdout>>
  BY DEF SocketToInbound
<1>3. /\ loop' \in [at : {"poll", "serve", "returned", "threw", "killed"}, rules : SUBSET Rules,
                     todo : SUBSET (Rules \X {"ready", "hangup", "error"})]
      /\ loop'.at \in {"poll", "serve"} /\ loop'.rules = loop.rules
      /\ <<3, "ready">> \in loop.todo
  BY <1>2, ServeLoop DEF Inv, TypeOK, Rules
<1>4. /\ n \in Nat /\ n <= link.offered - link.taken /\ (n > 0 => n <= Space(inbound))
      /\ n = 0 /\ Space(inbound) > 0 => link.taken = link.offered
  <2>1. link.offered - link.taken \in Nat /\ Space(inbound) \in Int
    BY CopyAssumption DEF Inv, TypeOK, Reasons, Stream, Space, remaining_capacity, buffer_size
  <2> QED BY <2>1, MovesBounded DEF Inv, TypeOK
<1>5. /\ inbound' \in Stream /\ inbound'.popped = inbound.popped
      /\ inbound'.written = inbound.written + n /\ inbound'.failed = inbound.failed
      /\ buffer_size(inbound') = buffer_size(inbound) + n
      /\ inbound'.ended <=> inbound.ended \/ flags'.socket_eof
  <2>1. inbound \in Stream /\ buffer_size(inbound) \in 0 .. BufferSize
    BY DEF Inv, TypeOK, EveryByteOnce
  <2> DEFINE filled == write(inbound, n, BufferSize)
  <2>2. /\ filled \in Stream /\ filled = [inbound EXCEPT !.written = inbound.written + n]
        /\ buffer_size(filled) = buffer_size(inbound) + n
    BY <1>4, <2>1, WriteFits
  <2> HIDE DEF filled
  <2>3. inbound' = IF flags'.socket_eof THEN end_input(filled) ELSE filled
    BY <1>1 DEF filled
  <2> QED BY <2>1, <2>2, <2>3, EndKeepsBytes DEF Stream
<1>6. /\ link' \in [sent : Nat, got : Nat, shut : BOOLEAN, offered : Nat, taken : Nat,
                    peer : {"open", "ended", "gone"}]
      /\ link'.peer = link.peer /\ link'.sent = link.sent /\ link'.shut = link.shut
      /\ link'.offered = link.offered /\ link'.taken = link.taken + n
      /\ link'.taken <= link.offered
      /\ flags' \in Flags
      /\ flags'.socket_eof <=> flags.socket_eof \/ (n = 0 /\ Space(inbound) > 0)
      /\ flags'.input_eof = flags.input_eof
      /\ flags'.outbound_shutdown = flags.outbound_shutdown
      /\ flags'.inbound_shutdown = flags.inbound_shutdown
  <2>1. /\ link' \in [sent : Nat, got : Nat, shut : BOOLEAN, offered : Nat, taken : Nat,
                      peer : {"open", "ended", "gone"}]
        /\ link'.peer = link.peer /\ link'.sent = link.sent /\ link'.shut = link.shut
        /\ link'.offered = link.offered /\ link'.taken = link.taken + n
        /\ link'.taken <= link.offered
    BY <1>1, <1>4 DEF Inv, TypeOK
  <2> DEFINE ended == n = 0 /\ Space(inbound) > 0
  <2> HIDE DEF ended
  <2>2. ended \in BOOLEAN /\ flags' = [flags EXCEPT !.socket_eof = @ \/ ended]
    BY <1>1 DEF ended
  <2>3. flags \in Flags
    BY DEF Inv, TypeOK, Flags
  <2>4. /\ flags' \in Flags /\ (flags'.socket_eof <=> flags.socket_eof \/ ended)
        /\ flags'.input_eof = flags.input_eof
        /\ flags'.outbound_shutdown = flags.outbound_shutdown
        /\ flags'.inbound_shutdown = flags.inbound_shutdown
    BY <2>2, <2>3, FlagRaised
  <2> QED BY <2>1, <2>4 DEF ended
<1>7. (flags'.socket_eof => PeerOver') /\ (PeerOver => PeerOver')
  BY <1>3, <1>4, <1>6 DEF Inv, TypeOK, Reasons, Pending, PeerOver
<1>8. TypeOK' /\ EndMeansAll' /\ ReturnsWhenDone'
  BY <1>2, <1>3, <1>5, <1>6 DEF Inv, TypeOK, Flags, EndMeansAll, ReturnsWhenDone
<1>9. EveryByteOnce'
  BY <1>2, <1>4, <1>5, <1>6, CopyAssumption
     DEF Inv, TypeOK, Stream, EveryByteOnce, buffer_size, Space, remaining_capacity
<1>10. Reasons'
  BY <1>2, <1>3, <1>5, <1>6, <1>7 DEF Inv, TypeOK, Reasons, InputOver
<1>11. Pending'
  BY <1>2, <1>6, ServeKeepsPending DEF Inv, TypeOK, Rules
<1> QED BY <1>8, <1>9, <1>10, <1>11 DEF Inv

\* The callback of rule 2.
LEMMA OutboundStep == ASSUME Inv, OutboundToSocket PROVE Inv'
<1>1. PICK n \in Moves(Chunk(outbound), Room - (link.sent - link.got)) :
        /\ outbound' = read(outbound, n)
        /\ link' = [link EXCEPT !.sent = @ + n, !.shut = @ \/ eof(read(outbound, n))]
        /\ flags' = [flags EXCEPT !.outbound_shutdown = @ \/ eof(read(outbound, n))]
  BY DEF OutboundToSocket
<1>2. Serve(2, "ready", loop.rules) /\ UNCHANGED <<inbound, stdin, stdout>>
  BY DEF OutboundToSocket
<1>3. /\ loop' \in [at : {"poll", "serve", "returned", "threw", "killed"}, rules : SUBSET Rules,
                     todo : SUBSET (Rules \X {"ready", "hangup", "error"})]
      /\ loop'.at \in {"poll", "serve"} /\ loop'.rules = loop.rules /\ 2 \in loop.rules
  <2>1. 2 \in Rules /\ loop.rules \in SUBSET Rules
    BY DEF Inv, TypeOK, Rules
  <2> QED BY <1>2, <2>1, ServeLoop
<1>4. n \in Nat /\ n <= buffer_size(outbound)
  <2>1. Chunk(outbound) \in Nat /\ Chunk(outbound) <= buffer_size(outbound)
    BY CopyAssumption DEF Inv, EveryByteOnce, Chunk, smaller
  <2>2. Room - (link.sent - link.got) \in Int
    BY CopyAssumption DEF Inv, TypeOK
  <2> QED BY <2>1, <2>2, MovesBounded DEF Inv, EveryByteOnce
<1>5. /\ outbound' \in Stream /\ buffer_size(outbound') = buffer_size(outbound) - n
      /\ outbound'.ended = outbound.ended /\ outbound'.failed = outbound.failed
  BY <1>1, <1>4, ReadPops DEF Inv, TypeOK, Stream
<1> DEFINE gone == eof(outbound')
<1> HIDE DEF gone
<1>6. gone \in BOOLEAN /\ (gone => outbound.ended /\ buffer_size(outbound') = 0)
  BY <1>5 DEF gone, eof, Stream
<1>7. /\ link' \in [sent : Nat, got : Nat, shut : BOOLEAN, offered : Nat, taken : Nat,
                    peer : {"open", "ended", "gone"}]
      /\ link'.sent = link.sent + n /\ (link'.shut <=> link.shut \/ gone)
      /\ link'.peer = link.peer /\ link'.offered = link.offered /\ link'.taken = link.taken
  <2> DEFINE now == link.shut \/ gone
  <2>1. link' = [link EXCEPT !.sent = @ + n, !.shut = now]
    BY <1>1 DEF gone
  <2>2. now \in BOOLEAN
    BY <1>6 DEF Inv, TypeOK
  <2> HIDE DEF now
  <2>3. link' \in [sent : Nat, got : Nat, shut : BOOLEAN, offered : Nat, taken : Nat,
                   peer : {"open", "ended", "gone"}]
    <3>1. /\ link \in [sent : Nat, got : Nat, shut : BOOLEAN, offered : Nat, taken : Nat,
                        peer : {"open", "ended", "gone"}]
          /\ link.sent + n \in Nat
      BY <1>4 DEF Inv, TypeOK
    <3> QED BY <2>1, <2>2, <3>1
  <2>4. /\ link'.sent = link.sent + n /\ link'.shut = now
        /\ link'.peer = link.peer /\ link'.offered = link.offered /\ link'.taken = link.taken
    BY <2>1 DEF Inv, TypeOK
  <2> QED BY <2>2, <2>3, <2>4 DEF now
<1>8. /\ flags' \in Flags /\ (flags'.outbound_shutdown <=> flags.outbound_shutdown \/ gone)
      /\ flags'.input_eof = flags.input_eof /\ flags'.socket_eof = flags.socket_eof
      /\ flags'.inbound_shutdown = flags.inbound_shutdown
  <2>1. flags \in Flags /\ flags' = [flags EXCEPT !.outbound_shutdown = @ \/ gone]
    BY <1>1 DEF gone, Inv, TypeOK, Flags
  <2> QED BY <1>6, <2>1, FlagRaised
<1>9. TypeOK' /\ ReturnsWhenDone'
  BY <1>2, <1>3, <1>5, <1>7, <1>8 DEF Inv, TypeOK, Flags, ReturnsWhenDone
<1>10. EveryByteOnce'
  BY <1>2, <1>4, <1>5, <1>7, CopyAssumption DEF Inv, TypeOK, Stream, EveryByteOnce, buffer_size
<1>11. EndMeansAll'
  <2>1. gone => InputOver
    BY <1>3, <1>6 DEF Inv, Reasons
  <2>2. link.shut => n = 0 /\ InputOver
    BY <1>4, ShutMeansEmpty DEF Inv, EveryByteOnce
  <2>3. link'.shut => buffer_size(outbound') = 0 /\ InputOver
    BY <1>4, <1>5, <1>6, <1>7, <2>1, <2>2, ShutMeansEmpty DEF Inv, EveryByteOnce
  <2>4. stdin.taken = link'.sent + buffer_size(outbound')
    BY <1>2, <1>10 DEF EveryByteOnce
  <2> QED BY <1>2, <1>7, <2>3, <2>4 DEF Inv, TypeOK, EndMeansAll, InputOver
<1>12. Reasons'
  <2>1. flags'.outbound_shutdown = link'.shut
    BY <1>7, <1>8 DEF Inv, Reasons, Flags
  <2> QED BY <1>2, <1>3, <1>5, <1>7, <1>8, <2>1 DEF Inv, Reasons, InputOver, PeerOver
<1>13. Pending'
  BY <1>2, <1>7, ServeKeepsPending, SMTT(30) DEF Inv, TypeOK, Rules
<1> QED BY <1>9, <1>10, <1>11, <1>12, <1>13 DEF Inv

\* The callback of rule 4.
LEMMA InboundStep == ASSUME Inv, InboundToOutput PROVE Inv'
<1>1. PICK n \in Moves(Chunk(inbound), Room - (stdout.put - stdout.took)) :
        /\ inbound' = read(inbound, n)
        /\ stdout' = [stdout EXCEPT !.put = @ + n, !.closed = @ \/ eof(read(inbound, n))]
        /\ flags' = [flags EXCEPT !.inbound_shutdown = @ \/ eof(read(inbound, n))]
  BY DEF InboundToOutput
<1>2. Serve(4, "ready", loop.rules) /\ UNCHANGED <<outbound, stdin, link>>
  BY DEF InboundToOutput
<1>3. /\ loop' \in [at : {"poll", "serve", "returned", "threw", "killed"}, rules : SUBSET Rules,
                     todo : SUBSET (Rules \X {"ready", "hangup", "error"})]
      /\ loop'.at \in {"poll", "serve"} /\ loop'.rules = loop.rules /\ 4 \in loop.rules
  <2>1. 4 \in Rules /\ loop.rules \in SUBSET Rules
    BY DEF Inv, TypeOK, Rules
  <2> QED BY <1>2, <2>1, ServeLoop
<1>4. n \in Nat /\ n <= buffer_size(inbound)
  <2>1. Chunk(inbound) \in Nat /\ Chunk(inbound) <= buffer_size(inbound)
    BY CopyAssumption DEF Inv, EveryByteOnce, Chunk, smaller
  <2>2. Room - (stdout.put - stdout.took) \in Int
    BY CopyAssumption DEF Inv, TypeOK
  <2> QED BY <2>1, <2>2, MovesBounded DEF Inv, EveryByteOnce
<1>5. /\ inbound' \in Stream /\ buffer_size(inbound') = buffer_size(inbound) - n
      /\ inbound'.ended = inbound.ended /\ inbound'.failed = inbound.failed
  BY <1>1, <1>4, ReadPops DEF Inv, TypeOK, Stream
<1> DEFINE gone == eof(inbound')
<1> HIDE DEF gone
<1>6. gone \in BOOLEAN /\ (gone => inbound.ended /\ buffer_size(inbound') = 0)
  BY <1>5 DEF gone, eof, Stream
<1>7. /\ stdout' \in [put : Nat, took : Nat, closed : BOOLEAN, reader : BOOLEAN]
      /\ stdout'.put = stdout.put + n /\ (stdout'.closed <=> stdout.closed \/ gone)
  <2> DEFINE now == stdout.closed \/ gone
  <2>1. stdout' = [stdout EXCEPT !.put = @ + n, !.closed = now]
    BY <1>1 DEF gone
  <2>2. now \in BOOLEAN
    BY <1>6 DEF Inv, TypeOK
  <2> HIDE DEF now
  <2>3. stdout' \in [put : Nat, took : Nat, closed : BOOLEAN, reader : BOOLEAN]
    <3>1. /\ stdout \in [put : Nat, took : Nat, closed : BOOLEAN, reader : BOOLEAN]
          /\ stdout.put + n \in Nat
      BY <1>4 DEF Inv, TypeOK
    <3> QED BY <2>1, <2>2, <3>1
  <2>4. stdout'.put = stdout.put + n /\ stdout'.closed = now
    BY <2>1 DEF Inv, TypeOK
  <2> QED BY <2>2, <2>3, <2>4 DEF now
<1>8. /\ flags' \in Flags /\ (flags'.inbound_shutdown <=> flags.inbound_shutdown \/ gone)
      /\ flags'.input_eof = flags.input_eof /\ flags'.socket_eof = flags.socket_eof
      /\ flags'.outbound_shutdown = flags.outbound_shutdown
  <2>1. flags \in Flags /\ flags' = [flags EXCEPT !.inbound_shutdown = @ \/ gone]
    BY <1>1 DEF gone, Inv, TypeOK, Flags
  <2> QED BY <1>6, <2>1, FlagRaised
<1>9. TypeOK' /\ ReturnsWhenDone'
  BY <1>2, <1>3, <1>5, <1>7, <1>8 DEF Inv, TypeOK, Flags, ReturnsWhenDone
<1>10. EveryByteOnce'
  BY <1>2, <1>4, <1>5, <1>7, CopyAssumption DEF Inv, TypeOK, Stream, EveryByteOnce, buffer_size
<1>11. EndMeansAll'
  <2>1. gone => PeerOver
    BY <1>3, <1>6 DEF Inv, Reasons
  <2>2. stdout.closed => n = 0 /\ PeerOver
    BY <1>4, ShutMeansEmpty DEF Inv, EveryByteOnce
  <2>3. stdout'.closed => buffer_size(inbound') = 0 /\ PeerOver
    BY <1>4, <1>5, <1>6, <1>7, <2>1, <2>2, ShutMeansEmpty DEF Inv, EveryByteOnce
  <2>4. link.taken = stdout'.put + buffer_size(inbound')
    BY <1>2, <1>10 DEF EveryByteOnce
  <2> QED BY <1>2, <1>7, <2>3, <2>4 DEF Inv, TypeOK, EndMeansAll, PeerOver
<1>12. Reasons'
  <2>1. flags'.inbound_shutdown = stdout'.closed
    BY <1>7, <1>8 DEF Inv, Reasons, Flags
  <2> QED BY <1>2, <1>3, <1>5, <1>7, <1>8, <2>1 DEF Inv, Reasons, InputOver, PeerOver
<1>13. Pending'
  BY <1>2, <1>7, ServeKeepsPending DEF Inv, TypeOK, Rules
<1> QED BY <1>9, <1>10, <1>11, <1>12, <1>13 DEF Inv

-----------------------------------------------------------------------------
(* The results.                                                            *)

\* Every step keeps Inv.
LEMMA NextInv == Inv /\ [Next]_vars => Inv'
<1> SUFFICES ASSUME Inv, [Next]_vars PROVE Inv'
  OBVIOUS
<1>1. CASE Loop
  <2>1. CASE Poll BY <2>1, PollStep
  <2>2. CASE Return BY <2>2, ReturnStep
  <2>3. CASE Throw BY <2>3, DiesStep DEF Throw
  <2>4. CASE \E i \in Rules : HangUp(i) BY <2>4, HangUpStep
  <2>5. CASE BrokenPipe BY <2>5, DiesStep DEF BrokenPipe
  <2>6. CASE InputToOutbound BY <2>6, InputStep
  <2>7. CASE OutboundToSocket BY <2>7, OutboundStep
  <2>8. CASE SocketToInbound BY <2>8, SocketStep
  <2>9. CASE InboundToOutput BY <2>9, InboundStep
  <2> QED BY <1>1, <2>1, <2>2, <2>3, <2>4, <2>5, <2>6, <2>7, <2>8, <2>9 DEF Loop
<1>2. CASE StdinGets \/ StdinEnds \/ PeerSends \/ PeerGets \/ PeerEnds \/ StdoutIsRead \/ ReaderLeaves
  BY <1>2, OthersStep
<1>3. CASE UNCHANGED vars
  <2>1. TypeOK'
    BY <1>3 DEF vars, Inv, TypeOK
  <2>2. EveryByteOnce' /\ EndMeansAll' /\ ReturnsWhenDone'
    BY <1>3 DEF vars, Inv, EveryByteOnce, EndMeansAll, ReturnsWhenDone
  <2>3. Reasons' /\ Pending'
    BY <1>3 DEF vars, Inv, Reasons, Pending, InputOver, PeerOver
  <2> QED BY <2>1, <2>2, <2>3 DEF Inv
<1> QED BY <1>1, <1>2, <1>3 DEF Next

\* Inv holds in every reachable state.
LEMMA AlwaysInv == Spec => []Inv
<1>1. Init => Inv BY InitInv
<1>2. Inv /\ [Next]_vars => Inv' BY NextInv
<1> QED BY <1>1, <1>2, PTL DEF Spec

\* The end of a direction is passed on (shutdown of the socket, close of standard
\* output) only after all of its bytes.
THEOREM EndAfterEverything == Spec => []EndMeansAll
<1>1. Inv => EndMeansAll BY DEF Inv
<1> QED BY <1>1, AlwaysInv, PTL

\* However write(2) splits a chunk, no byte is lost, sent twice or held beyond
\* the buffer's size.
THEOREM NoByteLost == Spec => []EveryByteOnce
<1>1. Inv => EveryByteOnce BY DEF Inv
<1> QED BY <1>1, AlwaysInv, PTL

\* The loop that exits with no rule interested has passed on both ends, or its
\* socket hung up.
THEOREM ExitOnlyWhenDone == Spec => []ReturnsWhenDone
<1>1. Inv => ReturnsWhenDone BY DEF Inv
<1> QED BY <1>1, AlwaysInv, PTL

\* A descriptor at its end yields nothing.
LEMMA InputAtEnd ==
  ASSUME Inv, InputToOutbound, InputOver PROVE outbound'.written = outbound.written
<1>1. PICK n \in Moves(stdin.given - stdin.taken, Space(outbound)) :
        outbound' = IF flags'.input_eof THEN end_input(write(outbound, n, BufferSize))
                    ELSE write(outbound, n, BufferSize)
  BY DEF InputToOutbound
<1>2. n = 0
  BY <1>1 DEF Moves, InputOver, Inv, TypeOK
<1>3. /\ write(outbound, 0, BufferSize) \in Stream
      /\ write(outbound, 0, BufferSize).written = outbound.written
  BY WriteFits DEF Inv, TypeOK, EveryByteOnce, Stream
<1> QED BY <1>1, <1>2, <1>3, EndKeepsBytes

\* The same of the socket.
LEMMA PeerAtEnd ==
  ASSUME Inv, SocketToInbound, PeerOver PROVE inbound'.written = inbound.written
<1>1. PICK n \in Moves(link.offered - link.taken, Space(inbound)) :
        inbound' = IF flags'.socket_eof THEN end_input(write(inbound, n, BufferSize))
                   ELSE write(inbound, n, BufferSize)
  BY DEF SocketToInbound
<1>2. n = 0
  BY <1>1 DEF Moves, PeerOver, Inv, TypeOK
<1>3. /\ write(inbound, 0, BufferSize) \in Stream
      /\ write(inbound, 0, BufferSize).written = inbound.written
  BY WriteFits DEF Inv, TypeOK, EveryByteOnce, Stream
<1> QED BY <1>1, <1>2, <1>3, EndKeepsBytes

\* A stream that was ended is not written to, except for standard input's after
\* the socket hung up.
THEOREM EndedStreamsStay == Spec => NothingAfterEnd
<1> DEFINE Kept == /\ outbound.ended /\ outbound'.written # outbound.written
                     => link.peer = "gone" /\ 2 \notin loop.rules
                   /\ inbound.ended => inbound'.written = inbound.written
<1>1. Inv /\ [Next]_vars => [Kept]_vars
  <2> SUFFICES ASSUME Inv, Next PROVE Kept
    BY DEF vars
  <2>1. CASE InputToOutbound
    <3>1. inbound' = inbound /\ (InputOver => outbound'.written = outbound.written)
      BY <2>1, InputAtEnd DEF InputToOutbound
    <3> QED BY <3>1 DEF Inv, Reasons
  <2>2. CASE SocketToInbound
    <3>1. outbound' = outbound /\ (PeerOver => inbound'.written = inbound.written)
      BY <2>2, PeerAtEnd DEF SocketToInbound
    <3> QED BY <3>1 DEF Inv, Reasons
  <2>3. CASE OutboundToSocket \/ InboundToOutput
    <3>1. outbound'.written = outbound.written /\ inbound'.written = inbound.written
      BY <2>3 DEF OutboundToSocket, InboundToOutput, read, Inv, TypeOK, Stream
    <3> QED BY <3>1
  <2>4. CASE Poll \/ Return \/ \E i \in Rules : HangUp(i)
    <3>1. \E rules : outbound' = cancel_outbound(rules) /\ inbound' = cancel_inbound(rules)
      <4>1. CASE Poll BY <4>1 DEF Poll
      <4>2. CASE Return BY <4>2 DEF Return
      <4>3. CASE \E i \in Rules : HangUp(i) BY <4>3 DEF HangUp
      <4> QED BY <2>4, <4>1, <4>2, <4>3
    <3>2. outbound \in Stream /\ inbound \in Stream
      BY DEF Inv, TypeOK
    <3> QED BY <3>1, <3>2, CancelKeepsBytes
  <2>5. CASE Throw \/ BrokenPipe
    BY <2>5 DEF Throw, BrokenPipe, Dies
  <2>6. CASE StdinGets \/ StdinEnds \/ PeerSends \/ PeerGets \/ PeerEnds \/ StdoutIsRead \/ ReaderLeaves
    BY <2>6 DEF StdinGets, StdinEnds, PeerSends, PeerGets, PeerEnds, StdoutIsRead, ReaderLeaves
  <2> QED BY <2>1, <2>2, <2>3, <2>4, <2>5, <2>6 DEF Next, Loop
<1> QED BY <1>1, AlwaysInv, PTL DEF Spec, NothingAfterEnd
=============================================================================
