----------------------------- MODULE HelloWorld -----------------------------
(***************************************************************************)
(* Protosockets (psock.c, pt.h) and the application of hello-world.c on    *)
(* top of them: greet, read a line, answer with it, close.  A protosocket  *)
(* is the blocking send and read-to-a-marker of one connection, run as     *)
(* protothreads inside the call uIP makes to the application for every     *)
(* event.  A call is a function of its context x:                          *)
(*   x.ps     the protosocket                                              *)
(*   x.flags  uip_flags: the event, and what the application asks for      *)
(*   x.data   the bytes at uip_appdata, x.mss uip_mss()                    *)
(*   x.out    the bytes of the last uip_send(), whose length is uip_slen   *)
(***************************************************************************)
EXTENDS Integers, Sequences, SequencesExt

CONSTANT BufSize       \* bufsize of PSOCK_INIT

NUL == 0
Bytes == 0 .. 255

ASSUME BufferAssumption == BufSize \in Nat \ {0}

FirstBytes(s, n) == SubSeq(s, 1, IF Len(s) < n THEN Len(s) ELSE n)
Without(s, n) == SubSeq(s, n + 1, Len(s))

\* The protosocket of a connection slot before its first use.
NewSocket == [pt |-> "begin",       \* where handle_connection goes on
              state |-> "NONE",
              send |-> <<>>,        \* the sendlen bytes at sendptr
              read |-> <<>>,        \* the readlen bytes at readptr
              buf |-> [i \in 1 .. BufSize |-> NUL], fill |-> 0,    \* fill = bufsize - left
              name |-> <<>>]

\* psock_init(): the buffer keeps what the last connection left in it.
PSOCK_INIT(ps) == [ps EXCEPT !.pt = "begin", !.state = "NONE", !.read = <<>>, !.fill = 0]

---------------------------------------------------------------------------
(* Sending *)

uip_send(x, bytes) == IF bytes = <<>> THEN x ELSE [x EXCEPT !.out = bytes]

send_data(x) ==
  IF x.ps.state # "DATA_SENT" \/ "REXMIT" \in x.flags
  THEN [uip_send(x, FirstBytes(x.ps.send, x.mss)) EXCEPT !.ps.state = "DATA_SENT"]
  ELSE x

data_acked(x) == x.ps.state = "DATA_SENT" /\ "ACKDATA" \in x.flags

\* Each turn of psock_send's loop tests the same event again: once it says
\* acknowledged, the turns for all the rest of the data run in this call, and
\* the last of them has given uip_send the end of the data.
SendTheRest(x) ==
  LET rest == Without(x.ps.send, x.mss)
      last == IF rest = <<>> THEN <<>> ELSE Without(rest, ((Len(rest) - 1) \div x.mss) * x.mss)
  IN [uip_send(x, last) EXCEPT !.ps.send = <<>>, !.ps.state = "NONE"]

\* psock_send() called for the first time, and called again.
BeginSend(x, label, bytes) ==
  send_data([x EXCEPT !.ps.pt = label, !.ps.send = bytes, !.ps.state = "NONE"])
ResumeSend(x, Then(_)) == IF data_acked(x) THEN Then(SendTheRest(x)) ELSE send_data(x)

---------------------------------------------------------------------------
(* Reading up to a marker *)

\* psock_newdata() when no read data is left over: data this call has read
\* already is not new.
NewData(x) == x.ps.state # "READ" /\ "NEWDATA" \in x.flags

\* buf_bufto(): the bytes up to the marker c go into the buffer while there is
\* room, the others of them are skipped.
buf_bufto(ps, n) ==
  LET room == BufSize - ps.fill
      take == IF n < room THEN n ELSE room
  IN [ps EXCEPT !.buf = [i \in 1 .. BufSize |->
                           IF i > ps.fill /\ i <= ps.fill + take THEN ps.read[i - ps.fill] ELSE @[i]],
                !.fill = @ + take,
                !.read = Without(@, n)]

\* psock_readto() from its wait on: blocked, or done with the marker.
ResumeRead(x, c, Then(_)) ==
  IF x.ps.read = <<>> /\ ~NewData(x)
  THEN [x EXCEPT !.ps.state = IF @ = "READ" THEN "BLOCKED_NEWDATA" ELSE @]
  ELSE LET ps == IF x.ps.read # <<>> THEN x.ps ELSE [x.ps EXCEPT !.state = "READ", !.read = x.data]
           marks == {i \in DOMAIN ps.read : ps.read[i] = c}
       IN IF marks = {}
          THEN [x EXCEPT !.ps = [buf_bufto(ps, Len(ps.read)) EXCEPT !.state = "BLOCKED_NEWDATA"]]
          ELSE Then([x EXCEPT !.ps = buf_bufto(ps, CHOOSE i \in marks : \A j \in marks : i <= j)])

BeginRead(x, c, Then(_)) == ResumeRead([x EXCEPT !.ps.pt = "read", !.ps.fill = 0], c, Then)

---------------------------------------------------------------------------
(* hello-world.c *)

EOL == 10
CONSTANTS Greeting, Hello     \* "Hello. What is your name?\n" and "Hello "

ASSUME MessageAssumption == Greeting \in Seq(Bytes) \ {<<>>} /\ Hello \in Seq(Bytes) \ {<<>>}

\* strncpy() of the input buffer up to a NUL.  Lines are shorter than the
\* buffer, so that there is one.
CopyName(ps) ==
  LET nuls == {i \in DOMAIN ps.buf : ps.buf[i] = NUL}
  IN IF nuls = {} THEN ps.buf ELSE SubSeq(ps.buf, 1, (CHOOSE i \in nuls : \A j \in nuls : i <= j) - 1)

CloseIt(x) == [x EXCEPT !.flags = {"CLOSE"}, !.ps.pt = "begin"]
SendName(x) == BeginSend(x, "name", x.ps.name)
SendHello(x) == BeginSend([x EXCEPT !.ps.name = CopyName(x.ps)], "hello", Hello)

\* A slip to rule out: the thread goes on without waiting for the line.
ReadLineOn(x) == SendHello([x EXCEPT !.ps.fill = 0])

ReadLine(x) == BeginRead(x, EOL, SendHello)

\* handle_connection(): the protothread goes on behind the call it waits in.
\* When it has ended the next event starts it from the beginning.
handle_connection(x) ==
  CASE x.ps.pt = "begin" -> BeginSend(x, "greet", Greeting)
    [] x.ps.pt = "greet" -> ResumeSend(x, ReadLine)
    [] x.ps.pt = "read"  -> ResumeRead(x, EOL, SendHello)
    [] x.ps.pt = "hello" -> ResumeSend(x, SendName)
    [] x.ps.pt = "name"  -> ResumeSend(x, CloseIt)

hello_world_appcall(x) ==
  handle_connection(IF "CONNECTED" \in x.flags THEN [x EXCEPT !.ps = PSOCK_INIT(@)] ELSE x)

\* UIP_APPCALL() for an event of a connection.
AppCall(ps, flags, data, mss) ==
  hello_world_appcall([ps |-> ps, flags |-> flags, data |-> data, mss |-> mss, out |-> <<>>])
=============================================================================
