------------------------------ MODULE DataPath ------------------------------
(***************************************************************************)
(* The bytes of one connection of the echo server, both ways: its loop     *)
(* reads, hands what it read to onMessage, and sends it back in place,     *)
(* while another thread, the sender, calls send and shutdown through the   *)
(* loop's queue.  Composes InputPath and TcpSend.  The peer's bytes are    *)
(* numbered from 1, the sender's from MaxStream + 1.  SIGPIPE has its      *)
(* default action.  The sender's test of state_ and its queueing are one   *)
(* step: what the loop does in between, it may as well do before the task. *)
(* After a copy past the end of the input vector the behaviour is          *)
(* undefined, and the model stops.                                         *)
(***************************************************************************)
EXTENDS Buffer

CONSTANTS
  MaxRead, MaxStream,     \* as in InputPath
  Room, MaxLen, MaxSent,  \* as in TcpSend
  Usages                  \* what the callers do: a set of members of Usage

\* Whether the sender sends, who shuts down, and whether the sender's strings live
\* until their tasks have run.
Usage == [sends : BOOLEAN, shuts : {"loop", "sender"}, keeps : BOOLEAN]

ASSUME DataPathAssumption ==
  /\ MaxRead \in Nat /\ MaxStream \in Nat
  /\ Room \in Nat /\ MaxLen \in Nat /\ MaxSent \in Nat
  /\ Usages \subseteq Usage
  /\ NoByte \notin Nat

VARIABLES
  inputBuffer_, arrived, delivered,
  state_, events_, outputBuffer_, sent, wire, room, wrShut,
  usage,        \* a member of Usages
  tasks,        \* the sender's tasks in the loop's queue
  strings,      \* the messages whose strings are alive
  killed        \* by SIGPIPE

inputVars == <<inputBuffer_, arrived, delivered>>
callVars  == <<usage, tasks, strings>>
vars      == <<inputVars, state_, events_, outputBuffer_, sent, wire, room, wrShut,
               callVars, killed>>

In  == INSTANCE InputPath
Out == INSTANCE TcpSend

Init ==
  /\ In!Init
  /\ Out!Init
  /\ usage \in Usages
  /\ tasks = <<>>
  /\ strings = {}
  /\ killed = FALSE

-----------------------------------------------------------------------------
(* The loop's thread *)

\* sendInLoop, whose write is fatal once the writing side is shut down.
sendInLoop(data) ==
  IF wrShut /\ ~Out!isWriteing /\ readableBytes(outputBuffer_) = 0
    THEN killed' = TRUE /\ UNCHANGED <<events_, outputBuffer_, wire, room>>
    ELSE Out!sendInLoop(data) /\ UNCHANGED killed

\* Fault: send does not test state_.
onMessageUnchecked(msg) == sendInLoop(msg)

\* onMessage sends what it took: send, in the loop's thread.
onMessage(msg) ==
  IF state_ = "kConnected"
    THEN sendInLoop(msg)
    ELSE UNCHANGED <<events_, outputBuffer_, wire, room, killed>>

handleRead(n) ==
  /\ In!handleRead(n)
  /\ onMessage(SubSeq(delivered', Len(delivered) + 1, Len(delivered')))
  /\ UNCHANGED <<state_, sent, wrShut, callVars>>

\* The loop's thread shuts down in a callback.
shutdown ==
  /\ usage.shuts = "loop"
  /\ Out!shutdown
  /\ UNCHANGED <<inputVars, callVars, killed>>

handleWrite == Out!handleWrite /\ UNCHANGED <<inputVars, callVars, killed>>

\* The task of send reads its message through c_str().
runSendInLoop ==
  /\ tasks # <<>>
  /\ Head(tasks).op = "send"
  /\ sendInLoop(IF Head(tasks).msg \in strings
                  THEN Head(tasks).msg ELSE [i \in DOMAIN Head(tasks).msg |-> NoByte])
  /\ tasks' = Tail(tasks)
  /\ UNCHANGED <<inputVars, state_, sent, wrShut, usage, strings>>

runShutdownInLoop ==
  /\ tasks # <<>>
  /\ Head(tasks).op = "shutdown"
  /\ wrShut' = (wrShut \/ ~Out!isWriteing)
  /\ tasks' = Tail(tasks)
  /\ UNCHANGED <<inputVars, state_, events_, outputBuffer_, sent, wire, room, usage, strings,
                 killed>>

-----------------------------------------------------------------------------
(* The sender's thread, and the peer *)

sends(n) ==
  LET msg == [i \in 1..n |-> MaxStream + sent + i] IN
  /\ usage.sends
  /\ state_ = "kConnected"
  /\ sent + n <= MaxSent
  /\ sent' = sent + n
  /\ strings' = strings \cup {msg}
  /\ tasks' = Append(tasks, [op |-> "send", msg |-> msg])
  /\ UNCHANGED <<inputVars, state_, events_, outputBuffer_, wire, room, wrShut, usage, killed>>

\* The caller of send lets its string go.
dropsString(msg) ==
  /\ usage.keeps => \A i \in DOMAIN tasks : tasks[i].msg # msg
  /\ strings' = strings \ {msg}
  /\ UNCHANGED <<inputVars, state_, events_, outputBuffer_, sent, wire, room, wrShut, usage,
                 tasks, killed>>

shuts ==
  /\ usage.shuts = "sender"
  /\ state_ = "kConnected"
  /\ state_' = "kDisconnecting"
  /\ tasks' = Append(tasks, [op |-> "shutdown", msg |-> <<>>])
  /\ UNCHANGED <<inputVars, events_, outputBuffer_, sent, wire, room, wrShut, usage, strings,
                 killed>>

Drains == Out!Drains /\ UNCHANGED <<inputVars, callVars, killed>>

-----------------------------------------------------------------------------

Loop == (\E n \in 1..MaxRead : handleRead(n)) \/ shutdown \/ handleWrite
          \/ runSendInLoop \/ runShutdownInLoop

Sender == (\E n \in 1..MaxLen : sends(n)) \/ shuts \/ (\E msg \in strings : dropsString(msg))

Next == ~killed /\ ~inputBuffer_.overrun /\ (Loop \/ Sender \/ Drains)

Spec == Init /\ [][Next]_vars

-----------------------------------------------------------------------------
(* Properties *)

\* The indices keep their order (Buffer.h:15), while the sender's tasks and the
\* output buffer's appends come in between.
IndicesInOrder == In!IndicesInOrder

\* onMessage gets the bytes of the stream in order, each once, except for those
\* that a growth of the vector loses (Buffer.cc:42-46).
StreamIsKept == In!StreamIsKept

IndicesAlwaysInOrder == In!IndicesAlwaysInOrder

StreamIsWhole == In!StreamIsWhole

\* s has every byte of the set S, and has them once each, in their order.
Carries(s, S) ==
  /\ \A b \in S : \E i \in DOMAIN s : s[i] = b
  /\ \A i, j \in DOMAIN s : i < j /\ s[i] \in S /\ s[j] \in S => s[i] < s[j]

PeersBytes(k)   == {delivered[i] : i \in 1..k}
SendersBytes(m) == (MaxStream + 1)..(MaxStream + m)

\* The wire has the first k of the bytes that onMessage took, and m of the
\* sender's: the first m, if it keeps its strings.
Echoed(k, m) ==
  /\ Len(wire) = k + m
  /\ Carries(wire, PeersBytes(k))
  /\ usage.keeps => Carries(wire, SendersBytes(m))

\* While the socket takes what it is given, the peer gets back what onMessage
\* took, all of it and in order unless send refused, and the sender's messages
\* in the order of their calls, whatever the order in which the two threads
\* send (TcpConnection.cc:66-85), and whatever has become of the sender's strings.
EchoIsComplete ==
  "write" \notin events_ /\ ~killed /\ ~inputBuffer_.overrun =>
    \E k \in 0..Len(delivered), m \in 0..sent :
      /\ Echoed(k, m)
      /\ state_ = "kConnected" => k = Len(delivered)
      /\ (\A i \in DOMAIN tasks : tasks[i].op # "send") => m = sent

\* Nothing is written after the writing side is shut down, so that SIGPIPE never
\* ends the process (TcpConnection.cc:238), when one thread makes all calls from
\* outside onMessage.
NoWriteAfterShutdown == ~killed

\* send sends data (TcpConnection.h:39): what goes out is what it was given.
SendsWhatWasGiven == ~inputBuffer_.overrun => \A i \in DOMAIN wire : wire[i] # NoByte
=============================================================================
