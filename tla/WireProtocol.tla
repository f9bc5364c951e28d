------------------------------ MODULE WireProtocol ------------------------------
(***************************************************************************)
(* The messages (protocol.hpp), the check of a received buffer and the     *)
(* parser of typed lines (parser_validator.hpp), and the lines the bridge  *)
(* writes for the engine to parse (format_order_command, bridge.py).       *)
(*                                                                         *)
(* A token of a line is what the parser can make of it: its first letter,  *)
(* upper-cased ("ORDER" for that word), the integer strtol reads from it   *)
(* and the ticks parsePriceTicks reads from it, both still wide.  A line   *)
(* that is empty or a comment starts with no letter of a message type.     *)
(***************************************************************************)
EXTENDS Integers, Sequences

CONSTANT Half   \* 2^31, half the number of values of an int32_t

ASSUME HalfAssumption == Half \in Nat \ {0}

Sides == {"B", "S"}

\* The structs.  A message of type 'X' has no side and no price, one of type 'E' has
\* execQuantity for quantity and matchPrice for price.
Message(type, seqNo, orderId, side, price, quantity) ==
  [msgType |-> type, seqNo |-> seqNo, orderId |-> orderId, side |-> side,
   price |-> price, quantity |-> quantity]

SizeOf == [A |-> 34, X |-> 29, E |-> 33]

\* Mutant of ExpectedSize: one size for the two messages that name a resting order.
ExpectedSizeCommon(type) ==
  IF type \notin DOMAIN SizeOf THEN 0 ELSE IF type = "A" THEN 34 ELSE 29

ExpectedSize(type) == IF type \in DOMAIN SizeOf THEN SizeOf[type] ELSE 0

IsValid(m) ==
  \/ m.msgType = "A" /\ m.side \in Sides /\ m.price > 0 /\ m.quantity > 0
  \/ m.msgType = "X" /\ m.quantity >= 0
  \/ m.msgType = "E" /\ m.quantity > 0 /\ m.price > 0

--------------------------------------------------------------------------------
(* validateAndParse: the bytes received spell m as far as they go *)

\* The first field found wrong: of an 'E' the quantity is looked at before the price.
FieldResult(m) ==
  LET wrongSide == m.msgType = "A" /\ m.side \notin Sides
      wrongPrice == m.msgType \in {"A", "E"} /\ m.price <= 0
      wrongQuantity == IF m.msgType = "X" THEN m.quantity < 0 ELSE m.quantity <= 0
  IN  IF wrongSide THEN "InvalidSide"
      ELSE IF wrongPrice /\ ~(m.msgType = "E" /\ wrongQuantity) THEN "InvalidPrice"
      ELSE IF wrongQuantity THEN "InvalidQuantity"
      ELSE "Valid"

ValidateAndParse(m, bytesReceived) ==
  IF bytesReceived < 1 THEN "TruncatedHeader"
  ELSE IF ExpectedSize(m.msgType) = 0 THEN "UnknownMessageType"
  ELSE IF bytesReceived < ExpectedSize(m.msgType) THEN "LengthMismatch"
  ELSE FieldResult(m)

--------------------------------------------------------------------------------
(* parseUserLine *)

\* static_cast<int32_t>
Int32(n) == ((n + Half) % (2 * Half)) - Half

Rejected == [msgType |-> "rejected"]

ParseAdd(t, seqNo) ==
  IF /\ Len(t) >= 5
     /\ t[3].letter \in Sides
     /\ Int32(t[4].ticks) > 0 /\ Int32(t[5].int) > 0
  THEN Message("A", seqNo, t[2].int, t[3].letter, Int32(t[4].ticks), Int32(t[5].int))
  ELSE Rejected

\* With three fields after the id, the first two are skipped.
ParseCancel(t, seqNo) ==
  LET newQty == IF Len(t) >= 5 THEN Int32(t[5].int)
                ELSE IF Len(t) >= 3 THEN Int32(t[3].int) ELSE 0
  IN  IF Len(t) >= 2 THEN Message("X", seqNo, t[2].int, "", 0, newQty) ELSE Rejected

\* The price is not checked.
Execution(seqNo, id, price, qty) ==
  IF Int32(qty.int) > 0
  THEN Message("E", seqNo, id.int, "", Int32(price.ticks), Int32(qty.int))
  ELSE Rejected

\* With three fields after the id, the first one is skipped.
ParseExecute(t, seqNo) ==
  IF Len(t) >= 5 THEN Execution(seqNo, t[2], t[4], t[5])
  ELSE IF Len(t) = 4 THEN Execution(seqNo, t[2], t[3], t[4])
  ELSE Rejected

\* The tokens without the word ORDER.
Body(line) == IF line # <<>> /\ line[1].letter = "ORDER" THEN Tail(line) ELSE line

ParseUserLine(line, seqNo) ==
  LET t == Body(line) IN
  IF t = <<>> THEN Rejected
  ELSE IF t[1].letter = "A" THEN ParseAdd(t, seqNo)
  ELSE IF t[1].letter \in {"X", "C"} THEN ParseCancel(t, seqNo)
  ELSE IF t[1].letter = "E" THEN ParseExecute(t, seqNo)
  ELSE Rejected

--------------------------------------------------------------------------------
(* format_order_command *)

Letter(c) == [letter |-> c, int |-> 0, ticks |-> 0]
Whole(n) == [letter |-> "", int |-> n, ticks |-> n]
Dotted(ticks) == [letter |-> "", int |-> ticks \div 100, ticks |-> ticks]

\* f"{price:.2f}" of a price in tenths of a tick.
Rounded(price) == (price + 5) \div 10

\* ValueError, which the client is told of.
Refused == <<>>

FormatOrder(type, orderId, side, price, qty) ==
  IF orderId <= 0 \/ type \notin {"A", "X", "E"} THEN Refused
  ELSE IF type = "X" THEN
    <<Letter("X"), Whole(orderId), Whole(0), Whole(0), Whole(qty)>>
  ELSE IF type = "E" THEN
    <<Letter("E"), Whole(orderId), Whole(0), Dotted(Rounded(price)), Whole(qty)>>
  ELSE IF side \in Sides /\ price > 0 /\ qty > 0 THEN
    <<Letter("A"), Whole(orderId), Letter(side), Dotted(Rounded(price)), Whole(qty)>>
  ELSE Refused

================================================================================
