----------------------------- MODULE ByteStream -----------------------------
(***************************************************************************)
(* What a request stream promises to the code that reads and writes whole  *)
(* messages: one message travels one way as a stream of bytes.  Byte i of  *)
(* the message is the number i.  A read gets exactly the bytes it asks     *)
(* for, in order, or it fails, and it fails only for a reason.             *)
(***************************************************************************)
EXTENDS Integers, Sequences

CONSTANTS
    MaxBytes,                \* bound on the length of a message
    MaxLen                   \* bound on the len of a read

VARIABLES
    written,                 \* bytes written so far
    finished,                \* the message has been flushed
    pushed,                  \* bytes that have reached the reading side
    cut,                     \* the reading side has been disconnected
    received,                \* the bytes handed to the reader
    left,                    \* bytes the current read has yet to get
    result                   \* "none", "reading", "success" or "failure"

byteVars == <<written, finished, pushed, cut, received, left, result>>

BytesFrom(first, n) == [i \in 1 .. n |-> first + i]

Init ==
    /\ written = 0 /\ finished = FALSE /\ pushed = 0 /\ cut = FALSE
    /\ received = <<>> /\ left = 0 /\ result = "none"

Write ==
    /\ ~finished
    /\ written' \in written .. MaxBytes
    /\ UNCHANGED <<finished, pushed, cut, received, left, result>>

Flush ==
    /\ ~finished
    /\ finished' = TRUE
    /\ UNCHANGED <<written, pushed, cut, received, left, result>>

Push ==
    /\ ~cut
    /\ pushed' \in pushed .. written
    /\ UNCHANGED <<written, finished, cut, received, left, result>>

Disconnect ==
    /\ cut' = TRUE
    /\ UNCHANGED <<written, finished, pushed, received, left, result>>

\* bytes are received one after the other, never before they were pushed
Receive(n) ==
    /\ n \in 0 .. pushed - Len(received)
    /\ received' = received \o BytesFrom(Len(received), n)

\* where a read stands when it has n more bytes to get: one that succeeds has
\* all its bytes, one that fails has been cut off or asks for more bytes than
\* the message has
Outcome(n) ==
    /\ left' = n
    /\ \/ result' = "reading"
       \/ result' = "success" /\ n = 0
       \/ /\ result' = "failure"
          /\ cut \/ (finished /\ Len(received') = written /\ n > 0)
    /\ UNCHANGED <<written, finished, pushed, cut>>

StartRead ==
    /\ result # "reading"
    /\ \E len \in 0 .. MaxLen : \E n \in 0 .. len : Receive(n) /\ Outcome(len - n)

GoOn ==
    /\ result = "reading"
    /\ \E n \in 0 .. left : Receive(n) /\ Outcome(left - n)

\* a read may also give up waiting, but not while there is something to read
TimeOut ==
    /\ result = "reading"
    /\ pushed = Len(received)
    /\ result' = "failure"
    /\ UNCHANGED <<written, finished, pushed, cut, received, left>>

Next ==
    Write \/ Flush \/ Push \/ Disconnect \/ StartRead \/ GoOn \/ TimeOut

Spec == Init /\ [][Next]_byteVars
=============================================================================
