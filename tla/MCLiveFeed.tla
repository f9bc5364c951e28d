------------------------------- MODULE MCLiveFeed -------------------------------
(* Captures, and the parser's treatment of the bridge's lines on small inputs. *)
EXTENDS LiveFeed

Add(n) == Message("A", n, n, "B", 100, 1)
Cancel(n) == Message("X", n, 1, "", 0, 0)
Execution1(n) == Message("E", n, 1, "", 100, 1)
BadAdd(n) == Message("A", n, n, "B", 0, 1)

Frame(messages, trailer) == [messages |-> messages, trailer |-> trailer]

\* Long messages before short ones, with enough bytes behind the short ones to find them;
\* short ones alone, which are passed over; two in a frame; a number twice and one too
\* late; and no capture.
MCCaptures ==
  { <<Frame(<<Add(1)>>, 0), Frame(<<Cancel(2)>>, 8), Frame(<<Execution1(3)>>, 4)>>,
    <<Frame(<<Add(1), Cancel(2)>>, 0), Frame(<<Execution1(3)>>, 0),
      Frame(<<BadAdd(4), Cancel(4)>>, 4)>>,
    <<Frame(<<Cancel(1)>>, 0)>>,
    <<Frame(<<Add(3)>>, 0), Frame(<<Add(2)>>, 0), Frame(<<Add(3)>>, 0)>>,
    <<>> }

\* Orders typed into the web page: what the bridge lets pass and the engine reads.
ASSUME \A price \in 5 .. 60, qty \in 1 .. 20 :
         ParseUserLine(FormatOrder("A", 7, "S", price, qty), 1)
           = Message("A", 1, 7, "S", Rounded(price), qty)

\* A price below half a tick passes the bridge and is rejected by the engine; so is a
\* quantity that is a multiple of 2^32.
ASSUME \A price \in 1 .. 4 :
         /\ FormatOrder("A", 7, "S", price, 1) # Refused
         /\ ParseUserLine(FormatOrder("A", 7, "S", price, 1), 1) = Rejected
ASSUME ParseUserLine(FormatOrder("A", 7, "S", 10, 2 * Half), 1) = Rejected

================================================================================
