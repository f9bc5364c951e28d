----------------------------- MODULE LiveFeedProofs -----------------------------
(***************************************************************************)
(* The messages and their way.  First what the validator and the parser    *)
(* let pass, and that the bridge's lines mean to the engine what they      *)
(* meant to the client.  Then live mode end to end, for every set of       *)
(* captures, every ring and every socket: messages come out whole, and the *)
(* gap counter accounts for the losses.  The order of the messages is that *)
(* of five queues in a row.                                                *)
(***************************************************************************)
EXTENDS LiveFeed, Arithmetic, SequenceTheorems, TLAPS

--------------------------------------------------------------------------------
(* Lines and messages                                                      *)

Tokens == [letter : STRING, int : Int, ticks : Int]

\* A number in the range of int32_t survives the cast, any other comes back into it.
LEMMA CastKeeps ==
  ASSUME NEW n \in -Half .. Half - 1
  PROVE  Int32(n) = n
<1>1. n + Half \in 0 .. 2 * Half - 1 /\ 2 * Half \in Nat \ {0}
  BY HalfAssumption
<1>2. (n + Half) % (2 * Half) = n + Half
  BY <1>1, HalfAssumption
<1>3. QED
  BY <1>2, HalfAssumption DEF Int32

LEMMA CastInRange ==
  ASSUME NEW n \in Int
  PROVE  Int32(n) \in Int /\ Int32(n) \in -Half .. Half - 1
<1>1. n + Half \in Int /\ 2 * Half \in Nat \ {0}
  BY HalfAssumption
<1>2. (n + Half) % (2 * Half) \in 0 .. 2 * Half - 1
  BY <1>1
<1>3. QED
  BY <1>2, HalfAssumption DEF Int32

\* What strtol and parsePriceTicks make of any token, once cast, is an integer.
LEMMA FieldsAreIntegers ==
  ASSUME NEW t \in Seq(Tokens), NEW i \in 1 .. Len(t)
  PROVE  Int32(t[i].int) \in Int /\ Int32(t[i].ticks) \in Int
<1>1. t[i] \in Tokens
  OBVIOUS
<1>2. t[i].int \in Int /\ t[i].ticks \in Int
  BY <1>1 DEF Tokens
<1>3. QED
  BY <1>2, CastInRange

\* The two statements of what a good message is agree: validateAndParse accepts a buffer
\* exactly when it holds a whole struct of a known type that isValid() accepts.
THEOREM ValidatorAgrees ==
  ASSUME NEW m, NEW bytes \in Nat, m.price \in Int, m.quantity \in Int
  PROVE  ValidateAndParse(m, bytes) = "Valid" <=>
           m.msgType \in DOMAIN SizeOf /\ bytes >= SizeOf[m.msgType] /\ IsValid(m)
<1>1. DOMAIN SizeOf = {"A", "X", "E"}
  BY DEF SizeOf
<1>2. SizeOf["A"] = 34 /\ SizeOf["X"] = 29 /\ SizeOf["E"] = 33
  BY DEF SizeOf
<1>3. CASE m.msgType \notin DOMAIN SizeOf
  BY <1>1, <1>3 DEF ValidateAndParse, ExpectedSize
<1>4. CASE m.msgType = "A"
  <2>1. FieldResult(m) = "Valid" <=> IsValid(m)
    BY <1>4 DEF FieldResult, IsValid
  <2>2. QED
    BY <1>1, <1>2, <1>4, <2>1 DEF ValidateAndParse, ExpectedSize
<1>5. CASE m.msgType = "X"
  <2>1. FieldResult(m) = "Valid" <=> IsValid(m)
    BY <1>5 DEF FieldResult, IsValid
  <2>2. QED
    BY <1>1, <1>2, <1>5, <2>1 DEF ValidateAndParse, ExpectedSize
<1>6. CASE m.msgType = "E"
  <2>1. FieldResult(m) = "Valid" <=> IsValid(m)
    BY <1>6 DEF FieldResult, IsValid
  <2>2. QED
    BY <1>1, <1>2, <1>6, <2>1 DEF ValidateAndParse, ExpectedSize
<1>7. QED
  BY <1>1, <1>3, <1>4, <1>5, <1>6

LEMMA ParsedAddIsValid ==
  ASSUME NEW t \in Seq(Tokens), NEW number, ParseAdd(t, number) # Rejected
  PROVE  IsValid(ParseAdd(t, number))
BY DEF ParseAdd, IsValid, Message

LEMMA ParsedCancel ==
  ASSUME NEW t \in Seq(Tokens), NEW number, ParseCancel(t, number) # Rejected
  PROVE  LET m == ParseCancel(t, number) IN
         m.msgType = "X" /\ (IsValid(m) \/ m.quantity < 0)
<1> DEFINE newQty == IF Len(t) >= 5 THEN Int32(t[5].int)
                     ELSE IF Len(t) >= 3 THEN Int32(t[3].int) ELSE 0
           m == ParseCancel(t, number)
<1>1. m = Message("X", number, t[2].int, "", 0, newQty)
  BY DEF ParseCancel
<1>2. newQty \in Int
  <2>1. CASE Len(t) >= 5
    <3>1. Int32(t[5].int) \in Int
      BY <2>1, FieldsAreIntegers
    <3>2. QED
      BY <2>1, <3>1
  <2>2. CASE Len(t) >= 3 /\ ~(Len(t) >= 5)
    <3>1. Int32(t[3].int) \in Int
      BY <2>2, FieldsAreIntegers
    <3>2. QED
      BY <2>2, <3>1
  <2>3. QED
    BY <2>1, <2>2
<1> HIDE DEF newQty, m
<1>3. m.msgType = "X" /\ m.quantity = newQty
  BY <1>1 DEF Message
<1>4. m.msgType = "X" /\ (IsValid(m) \/ m.quantity < 0)
  BY <1>2, <1>3 DEF IsValid
<1>5. QED
  BY <1>4 DEF m

LEMMA ParsedExecute ==
  ASSUME NEW t \in Seq(Tokens), NEW number, ParseExecute(t, number) # Rejected
  PROVE  LET m == ParseExecute(t, number) IN
         m.msgType = "E" /\ m.quantity > 0 /\ (IsValid(m) \/ m.price <= 0)
<1>1. PICK p \in 1 .. Len(t), q \in 1 .. Len(t) :
        ParseExecute(t, number) = Execution(number, t[2], t[p], t[q])
  BY DEF ParseExecute
<1> DEFINE price == Int32(t[p].ticks)
           qty == Int32(t[q].int)
           m == ParseExecute(t, number)
<1>2. qty > 0 /\ m = Message("E", number, t[2].int, "", price, qty)
  BY <1>1 DEF Execution
<1>3. price \in Int
  BY FieldsAreIntegers
<1> HIDE DEF price, qty, m
<1>4. m.msgType = "E" /\ m.price = price /\ m.quantity = qty
  BY <1>2 DEF Message
<1>5. price > 0 \/ price <= 0
  BY <1>3
<1>6. qty > 0
  BY <1>2
<1>7. m.msgType = "E" /\ m.quantity > 0 /\ (IsValid(m) \/ m.price <= 0)
  BY <1>4, <1>5, <1>6, Zenon DEF IsValid
<1>8. QED
  BY <1>7 DEF m

\* The parser is laxer than the validator in two ways and no other: a cancel may leave a
\* negative quantity, an execution may have no price.  The order book's input sets
\* (positive adds and executions, any remaining quantity) rest on this.
THEOREM ParserLetsPass ==
  ASSUME NEW line \in Seq(Tokens), NEW number \in Nat,
         ParseUserLine(line, number) # Rejected
  PROVE  LET m == ParseUserLine(line, number) IN
         \/ IsValid(m)
         \/ m.msgType = "X" /\ m.quantity < 0
         \/ m.msgType = "E" /\ m.quantity > 0 /\ m.price <= 0
<1>1. Body(line) \in Seq(Tokens)
  <2>1. line # <<>> => Tail(line) \in Seq(Tokens)
    OBVIOUS
  <2>2. QED
    BY <2>1 DEF Body
<1>2. PICK t \in Seq(Tokens) : t = Body(line)
  BY <1>1
<1>3. \/ ParseUserLine(line, number) = ParseAdd(t, number)
      \/ ParseUserLine(line, number) = ParseCancel(t, number)
      \/ ParseUserLine(line, number) = ParseExecute(t, number)
  BY <1>2 DEF ParseUserLine
<1>4. CASE ParseUserLine(line, number) = ParseAdd(t, number)
  BY <1>4, ParsedAddIsValid
<1>5. CASE ParseUserLine(line, number) = ParseCancel(t, number)
  BY <1>5, ParsedCancel
<1>6. CASE ParseUserLine(line, number) = ParseExecute(t, number)
  BY <1>6, ParsedExecute
<1>7. QED
  BY <1>3, <1>4, <1>5, <1>6

\* An order a client sends through the bridge reaches the book as it was meant: the line
\* that is written parses to the same order, if quantity and price fit an int32_t and the
\* price does not round to nothing (a price below half a tick is written as 0.00, which
\* the engine rejects although the bridge accepted it).
THEOREM BridgeLinesParse ==
  ASSUME NEW orderId \in Nat \ {0}, NEW side, NEW number \in Nat,
         NEW price \in Nat, Rounded(price) \in 1 .. Half - 1,
         NEW qty \in 1 .. Half - 1, NEW left \in -Half .. Half - 1
  PROVE  /\ side \in Sides =>
              ParseUserLine(FormatOrder("A", orderId, side, price, qty), number)
                = Message("A", number, orderId, side, Rounded(price), qty)
         /\ ParseUserLine(FormatOrder("X", orderId, side, price, left), number)
              = Message("X", number, orderId, "", 0, left)
         /\ ParseUserLine(FormatOrder("E", orderId, side, price, qty), number)
              = Message("E", number, orderId, "", Rounded(price), qty)
<1>1. /\ Int32(Rounded(price)) = Rounded(price) /\ Int32(qty) = qty /\ Int32(left) = left
  BY CastKeeps, HalfAssumption
<1>2. ASSUME side \in Sides
      PROVE  ParseUserLine(FormatOrder("A", orderId, side, price, qty), number)
               = Message("A", number, orderId, side, Rounded(price), qty)
  <2> DEFINE l == <<Letter("A"), Whole(orderId), Letter(side),
                    Dotted(Rounded(price)), Whole(qty)>>
  <2>1. price > 0
    BY HalfAssumption DEF Rounded
  <2>2. FormatOrder("A", orderId, side, price, qty) = l
    BY <1>2, <2>1 DEF FormatOrder
  <2>3. /\ Len(l) = 5 /\ l # <<>> /\ l[1].letter = "A" /\ l[2].int = orderId
        /\ l[3].letter = side /\ l[4].ticks = Rounded(price) /\ l[5].int = qty
    BY DEF Letter, Whole, Dotted
  <2> HIDE DEF l
  <2>4. ParseUserLine(l, number) = ParseAdd(l, number)
    BY <2>3 DEF ParseUserLine, Body
  <2>5. ParseAdd(l, number) = Message("A", number, orderId, side, Rounded(price), qty)
    BY <1>1, <1>2, <2>3 DEF ParseAdd
  <2>6. QED
    BY <2>2, <2>4, <2>5
<1>3. ParseUserLine(FormatOrder("X", orderId, side, price, left), number)
        = Message("X", number, orderId, "", 0, left)
  <2> DEFINE l == <<Letter("X"), Whole(orderId), Whole(0), Whole(0), Whole(left)>>
  <2>1. FormatOrder("X", orderId, side, price, left) = l
    BY DEF FormatOrder
  <2>2. /\ Len(l) = 5 /\ l # <<>> /\ l[1].letter = "X" /\ l[2].int = orderId
        /\ l[5].int = left
    BY DEF Letter, Whole
  <2> HIDE DEF l
  <2>3. ParseUserLine(l, number) = ParseCancel(l, number)
    BY <2>2 DEF ParseUserLine, Body
  <2>4. ParseCancel(l, number) = Message("X", number, orderId, "", 0, left)
    BY <1>1, <2>2 DEF ParseCancel
  <2>5. QED
    BY <2>1, <2>3, <2>4
<1>4. ParseUserLine(FormatOrder("E", orderId, side, price, qty), number)
        = Message("E", number, orderId, "", Rounded(price), qty)
  <2> DEFINE l == <<Letter("E"), Whole(orderId), Whole(0),
                    Dotted(Rounded(price)), Whole(qty)>>
  <2>1. FormatOrder("E", orderId, side, price, qty) = l
    BY DEF FormatOrder
  <2>2. /\ Len(l) = 5 /\ l # <<>> /\ l[1].letter = "E" /\ l[2].int = orderId
        /\ l[4].ticks = Rounded(price) /\ l[5].int = qty
    BY DEF Letter, Whole, Dotted
  <2> HIDE DEF l
  <2>3. ParseUserLine(l, number) = ParseExecute(l, number)
    BY <2>2 DEF ParseUserLine, Body
  <2>4. ParseExecute(l, number) = Message("E", number, orderId, "", Rounded(price), qty)
    <3>1. ParseExecute(l, number) = Execution(number, l[2], l[4], l[5])
      BY <2>2 DEF ParseExecute
    <3>2. qty > 0
      BY HalfAssumption
    <3>3. QED
      BY <1>1, <2>2, <3>1, <3>2, Zenon DEF Execution
  <2>5. QED
    BY <2>1, <2>3, <2>4
<1>5. QED
  BY <1>2, <1>3, <1>4

--------------------------------------------------------------------------------
(* Sequences of numbers                                                    *)

Rising(s) == \A j, k \in DOMAIN s : j < k => s[j] < s[k]

Ahead(s, t) == \A j \in DOMAIN s, k \in DOMAIN t : s[j] < t[k]

LEMMA RemoveAtIs ==
  ASSUME NEW S, NEW s \in Seq(S), NEW i \in DOMAIN s
  PROVE  /\ RemoveAt(s, i) \in Seq(S)
         /\ Len(RemoveAt(s, i)) = Len(s) - 1
         /\ \A k \in 1 .. Len(s) - 1 :
              RemoveAt(s, i)[k] = IF k < i THEN s[k] ELSE s[k + 1]
<1> DEFINE front == SubSeq(s, 1, i - 1)
           back == SubSeq(s, i + 1, Len(s))
<1>0. Len(s) \in Nat /\ i \in 1 .. Len(s) OBVIOUS
<1>1. front \in Seq(S) /\ Len(front) = i - 1 /\ \A k \in 1 .. i - 1 : front[k] = s[k]
  BY <1>0, SubSeqProperties
<1>2. /\ back \in Seq(S) /\ Len(back) = Len(s) - i
      /\ \A k \in 1 .. Len(s) - i : back[k] = s[i + k]
  BY <1>0, SubSeqProperties
<1>3. RemoveAt(s, i) = front \o back BY DEF RemoveAt
<1> HIDE DEF front, back
<1>4. /\ front \o back \in Seq(S) /\ Len(front \o back) = Len(s) - 1
      /\ \A k \in 1 .. Len(s) - 1 :
           (front \o back)[k] = IF k <= i - 1 THEN front[k] ELSE back[k - (i - 1)]
  <2> DEFINE both == front \o back
  <2>1. /\ both \in Seq(S) /\ Len(both) = Len(front) + Len(back)
        /\ \A k \in 1 .. Len(front) + Len(back) :
             both[k] = IF k <= Len(front) THEN front[k] ELSE back[k - Len(front)]
    BY <1>1, <1>2, ConcatProperties
  <2>2. Len(front) + Len(back) = Len(s) - 1 BY <1>0, <1>1, <1>2
  <2> HIDE DEF both
  <2>3. /\ both \in Seq(S) /\ Len(both) = Len(s) - 1
        /\ \A k \in 1 .. Len(s) - 1 :
             both[k] = IF k <= i - 1 THEN front[k] ELSE back[k - (i - 1)]
    BY <1>1, <2>1, <2>2
  <2> QED BY <2>3 DEF both
<1>5. ASSUME NEW k \in 1 .. Len(s) - 1
      PROVE  (front \o back)[k] = IF k < i THEN s[k] ELSE s[k + 1]
  <2>1. CASE k < i
    <3>1. k \in 1 .. i - 1 /\ k <= i - 1 BY <1>0, <2>1
    <3> QED BY <1>1, <1>4, <2>1, <3>1
  <2>2. CASE ~(k < i)
    <3>1. k - (i - 1) \in 1 .. Len(s) - i /\ i + (k - (i - 1)) = k + 1
      BY <1>0, <2>2
    <3>2. (front \o back)[k] = back[k - (i - 1)] BY <1>0, <1>4, <2>2
    <3>3. back[k - (i - 1)] = s[i + (k - (i - 1))] BY <1>2, <3>1
    <3> QED BY <2>2, <3>1, <3>2, <3>3
  <2> QED BY <2>1, <2>2
<1> QED BY <1>3, <1>4, <1>5

\* What is left of a rising sequence rises.
LEMMA RemainderRises ==
  ASSUME NEW s \in Seq(Nat), NEW i \in DOMAIN s
  PROVE  /\ RemoveAt(s, i) \in Seq(Nat)
         /\ \A k \in DOMAIN RemoveAt(s, i) :
              \E j \in DOMAIN s : RemoveAt(s, i)[k] = s[j]
         /\ Rising(s) => Rising(RemoveAt(s, i))
<1> DEFINE r == RemoveAt(s, i)
<1>1. /\ r \in Seq(Nat) /\ Len(r) = Len(s) - 1 /\ Len(s) \in Nat /\ i \in 1 .. Len(s)
      /\ \A k \in 1 .. Len(s) - 1 : r[k] = IF k < i THEN s[k] ELSE s[k + 1]
  BY RemoveAtIs
<1> HIDE DEF r
<1>2. DOMAIN r = 1 .. Len(s) - 1 BY <1>1
<1>3. \A k \in DOMAIN r : \E j \in DOMAIN s : r[k] = s[j]
  <2> SUFFICES ASSUME NEW k \in DOMAIN r PROVE \E j \in DOMAIN s : r[k] = s[j] OBVIOUS
  <2>0. k \in 1 .. Len(s) - 1 /\ Len(s) \in Nat /\ DOMAIN s = 1 .. Len(s)
    BY <1>1, <1>2
  <2>1. k \in DOMAIN s /\ k + 1 \in DOMAIN s BY <2>0
  <2>2. r[k] = s[k] \/ r[k] = s[k + 1] BY <1>1, <2>0
  <2> QED BY <2>1, <2>2
<1>4. ASSUME Rising(s), NEW j \in DOMAIN r, NEW k \in DOMAIN r, j < k
      PROVE  r[j] < r[k]
  <2>0. /\ Len(s) \in Nat /\ DOMAIN s = 1 .. Len(s) /\ j < k
        /\ j \in 1 .. Len(s) - 1 /\ k \in 1 .. Len(s) - 1
    BY <1>1, <1>2, <1>4
  <2>1. /\ j \in DOMAIN s /\ j + 1 \in DOMAIN s /\ k \in DOMAIN s /\ k + 1 \in DOMAIN s
        /\ j \in Nat /\ k \in Nat /\ j + 1 < k + 1 /\ j < k + 1
    BY <2>0
  <2>2. /\ r[j] = IF j < i THEN s[j] ELSE s[j + 1]
        /\ r[k] = IF k < i THEN s[k] ELSE s[k + 1]
    BY <1>1, <1>2
  <2>3. s[j] < s[k] /\ s[j] < s[k + 1] /\ s[j + 1] < s[k + 1]
    BY <1>4, <2>1 DEF Rising
  <2>4. k < i => j < i BY <1>1, <1>4, <2>1
  <2> QED BY <2>2, <2>3, <2>4
<1> QED BY <1>1, <1>3, <1>4 DEF Rising, r

\* A number above those before it, and the first one taken away.
LEMMA AppendedRises ==
  ASSUME NEW s \in Seq(Nat), NEW n \in Nat, Rising(s), \A k \in DOMAIN s : s[k] < n
  PROVE  Rising(Append(s, n))
BY DEF Rising

LEMMA TailRises ==
  ASSUME NEW s \in Seq(Nat), s # <<>>, Rising(s)
  PROVE  /\ Tail(s) \in Seq(Nat) /\ Rising(Tail(s))
         /\ \A k \in DOMAIN Tail(s) : Head(s) < Tail(s)[k]
         /\ \A k \in DOMAIN Tail(s) : \E j \in DOMAIN s : Tail(s)[k] = s[j]
BY DEF Rising

\* Five queues in a row, a number in one below the numbers in those after it.
Stages == 1 .. 5

InLine(w) ==
  /\ \A a \in Stages : Rising(w[a])
  /\ \A a, b \in Stages : a < b => Ahead(w[a], w[b])

\* The first in one queue becomes the last of the queue before.
Moves(w, v, a, b) ==
  /\ w[b] # <<>>
  /\ v[a] = Append(w[a], Head(w[b])) /\ v[b] = Tail(w[b])
  /\ \A c \in Stages : c # a /\ c # b => v[c] = w[c]

LEMMA MoveAlong ==
  ASSUME NEW w, \A a \in Stages : w[a] \in Seq(Nat), InLine(w),
         NEW v, NEW a \in 1 .. 4, NEW next, next = a + 1, Moves(w, v, a, next)
  PROVE  /\ InLine(v)
         /\ \A b \in Stages : \A k \in DOMAIN v[b] :
              \E c \in Stages : \E j \in DOMAIN w[c] : v[b][k] = w[c][j]
<1> DEFINE s == w[a]
           t == w[a + 1]
           n == Head(t)
<1>0. a \in Stages /\ a + 1 \in Stages /\ a \in Int /\ a < a + 1 BY DEF Stages
<1>1. s \in Seq(Nat) /\ t \in Seq(Nat) /\ t # <<>> BY <1>0 DEF Moves
<1>2. Rising(s) /\ Rising(t) /\ Ahead(s, t) BY <1>0 DEF InLine
<1>3. /\ v[a] = Append(s, n) /\ v[a + 1] = Tail(t)
      /\ \A b \in Stages : b # a /\ b # a + 1 => v[b] = w[b]
  BY DEF Moves
<1> HIDE DEF s, t
<1>4. n \in Nat /\ 1 \in DOMAIN t /\ n = t[1] BY <1>1
<1> HIDE DEF n
<1>5. \A k \in DOMAIN s : s[k] < n BY <1>2, <1>4 DEF Ahead
<1>6. Rising(Append(s, n)) BY <1>1, <1>2, <1>4, <1>5, AppendedRises
<1>7. /\ Tail(t) \in Seq(Nat) /\ Rising(Tail(t))
      /\ \A k \in DOMAIN Tail(t) : n < Tail(t)[k]
      /\ \A k \in DOMAIN Tail(t) : \E j \in DOMAIN t : Tail(t)[k] = t[j]
  BY <1>1, <1>2, TailRises DEF n
<1>8. ASSUME NEW b \in Stages PROVE Rising(v[b])
  BY <1>0, <1>3, <1>6, <1>7 DEF InLine
<1>9. ASSUME NEW b \in Stages, NEW k \in DOMAIN v[b]
      PROVE  \/ v[b][k] = n /\ b = a
             \/ /\ \E j \in DOMAIN w[b] : v[b][k] = w[b][j]
                /\ b = a + 1 => n < v[b][k]
  <2>1. CASE b = a
    <3>1. k \in DOMAIN Append(s, n) /\ v[b][k] = Append(s, n)[k] BY <1>3, <1>9, <2>1
    <3>2. k \in 1 .. Len(s) + 1 BY <1>1, <1>4, <3>1
    <3>3. Append(s, n)[k] = IF k <= Len(s) THEN s[k] ELSE n BY <1>1, <1>4, <3>2
    <3>4. k <= Len(s) => k \in DOMAIN s BY <1>1, <3>2
    <3> QED BY <1>0, <2>1, <3>1, <3>3, <3>4 DEF s
  <2>2. CASE b = a + 1
    <3>1. k \in DOMAIN Tail(t) /\ v[b][k] = Tail(t)[k] BY <1>3, <1>9, <2>2
    <3> QED BY <1>7, <2>2, <3>1 DEF t
  <2>3. CASE b # a /\ b # a + 1 BY <1>3, <1>9, <2>3
  <2> QED BY <2>1, <2>2, <2>3
<1>10. ASSUME NEW b \in Stages, NEW c \in Stages, b < c,
              NEW j \in DOMAIN v[b], NEW k \in DOMAIN v[c]
       PROVE  v[b][j] < v[c][k]
  <2>1. Ahead(w[b], w[c]) BY <1>10 DEF InLine
  <2>2. CASE v[b][j] = n /\ b = a
    <3>1. c # a /\ (\E i \in DOMAIN w[c] : v[c][k] = w[c][i]) BY <1>9, <1>10, <2>2
    <3>2. CASE c = a + 1
      <4>1. n < v[c][k] BY <1>9, <3>1, <3>2
      <4> QED BY <2>2, <4>1
    <3>3. CASE c # a + 1
      <4>1. a + 1 < c BY <1>10, <2>2, <3>3 DEF Stages
      <4>2. Ahead(t, w[c]) BY <1>0, <4>1 DEF InLine, t
      <4> QED BY <1>4, <2>2, <3>1, <4>2 DEF Ahead
    <3> QED BY <3>2, <3>3
  <2>3. ASSUME NEW i \in DOMAIN w[b], v[b][j] = w[b][i] PROVE v[b][j] < v[c][k]
    <3>1. CASE v[c][k] = n /\ c = a
      <4>1. b < a + 1 BY <1>0, <1>10, <3>1 DEF Stages
      <4>2. Ahead(w[b], t) BY <1>0, <4>1 DEF InLine, t
      <4> QED BY <1>4, <2>3, <3>1, <4>2 DEF Ahead
    <3>2. CASE \E h \in DOMAIN w[c] : v[c][k] = w[c][h]
      BY <2>1, <2>3, <3>2 DEF Ahead
    <3> QED BY <1>9, <3>1, <3>2
  <2> QED BY <1>9, <2>2, <2>3
<1>11. ASSUME NEW b \in Stages, NEW k \in DOMAIN v[b]
       PROVE  \E c \in Stages : \E j \in DOMAIN w[c] : v[b][k] = w[c][j]
  BY <1>0, <1>4, <1>9, <1>11 DEF t
<1> QED BY <1>8, <1>10, <1>11 DEF InLine, Ahead

\* Numbers may leave the line anywhere.
LEMMA ThinnedOut ==
  ASSUME NEW w, InLine(w), NEW v,
         \A a \in Stages : Rising(v[a]),
         \A a \in Stages : \A k \in DOMAIN v[a] : \E j \in DOMAIN w[a] : v[a][k] = w[a][j]
  PROVE  InLine(v)
BY DEF InLine, Ahead

--------------------------------------------------------------------------------
(* The numbers of what waits                                               *)

Nos(f, s) == [k \in DOMAIN s |-> f[s[k]]]

LEMMA NosAre ==
  ASSUME NEW S, NEW f \in [S -> Nat], NEW s \in Seq(S)
  PROVE  /\ Nos(f, s) \in Seq(Nat)
         /\ Len(Nos(f, s)) = Len(s)
         /\ \A k \in 1 .. Len(s) : Nos(f, s)[k] = f[s[k]]
         /\ s # <<>> <=> Nos(f, s) # <<>>
BY DEF Nos

LEMMA NosAppend ==
  ASSUME NEW S, NEW f \in [S -> Nat], NEW s \in Seq(S), NEW x \in S
  PROVE  Nos(f, Append(s, x)) = Append(Nos(f, s), f[x])
<1> DEFINE t == Append(s, x)
           N == Nos(f, s)
           M == Nos(f, t)
<1>1. /\ t \in Seq(S) /\ Len(t) = Len(s) + 1 /\ Len(s) \in Nat
      /\ \A k \in 1 .. Len(s) : t[k] = s[k]
      /\ t[Len(s) + 1] = x
  BY AppendProperties
<1> HIDE DEF t
<1>2. N \in Seq(Nat) /\ Len(N) = Len(s) /\ \A k \in 1 .. Len(s) : N[k] = f[s[k]]
  BY NosAre
<1>3. M \in Seq(Nat) /\ Len(M) = Len(s) + 1 /\ \A k \in 1 .. Len(s) + 1 : M[k] = f[t[k]]
  BY <1>1, NosAre
<1> HIDE DEF N, M
<1>4. /\ Append(N, f[x]) \in Seq(Nat) /\ Len(Append(N, f[x])) = Len(s) + 1
      /\ \A k \in 1 .. Len(s) : Append(N, f[x])[k] = N[k]
      /\ Append(N, f[x])[Len(s) + 1] = f[x]
  BY <1>2, AppendProperties
<1>5. ASSUME NEW k \in 1 .. Len(s) + 1 PROVE M[k] = Append(N, f[x])[k]
  <2>1. k \in 1 .. Len(s) \/ k = Len(s) + 1 BY <1>1
  <2> QED BY <1>1, <1>2, <1>3, <1>4, <2>1
<1> QED BY <1>3, <1>4, <1>5, SeqEqual DEF M, N, t

LEMMA NosTail ==
  ASSUME NEW S, NEW f \in [S -> Nat], NEW s \in Seq(S), s # <<>>
  PROVE  /\ Nos(f, Tail(s)) = Tail(Nos(f, s))
         /\ Head(Nos(f, s)) = f[Head(s)]
<1> DEFINE t == Tail(s)
           N == Nos(f, s)
           M == Nos(f, t)
<1>0. Len(s) \in Nat /\ Len(s) >= 1 /\ Head(s) = s[1] OBVIOUS
<1>1. /\ t \in Seq(S) /\ Len(t) = Len(s) - 1
      /\ \A k \in 1 .. Len(s) - 1 : t[k] = s[k + 1]
  <2>1. t \in Seq(S) /\ Len(t) = Len(s) - 1 BY HeadTailProperties
  <2>2. \A k \in 1 .. Len(t) : t[k] = s[k + 1] BY HeadTailProperties
  <2> QED BY <2>1, <2>2
<1> HIDE DEF t
<1>2. N \in Seq(Nat) /\ Len(N) = Len(s) /\ \A k \in 1 .. Len(s) : N[k] = f[s[k]]
  BY NosAre
<1>3. M \in Seq(Nat) /\ Len(M) = Len(s) - 1 /\ \A k \in 1 .. Len(s) - 1 : M[k] = f[t[k]]
  <2>1. t \in Seq(S) BY <1>1
  <2>2. M \in Seq(Nat) /\ Len(M) = Len(t) /\ \A k \in 1 .. Len(t) : M[k] = f[t[k]]
    BY <2>1 DEF Nos
  <2>3. Len(t) = Len(s) - 1 BY <1>1
  <2> HIDE DEF M
  <2> QED BY <2>2, <2>3
<1> HIDE DEF N, M
<1>4. N # <<>> /\ Head(N) = N[1]
  <2>1. N \in Seq(Nat) /\ Len(N) >= 1 BY <1>0, <1>2
  <2> QED BY <2>1
<1>5. /\ Tail(N) \in Seq(Nat) /\ Len(Tail(N)) = Len(s) - 1
      /\ \A k \in 1 .. Len(s) - 1 : Tail(N)[k] = N[k + 1]
  BY <1>2, <1>4, HeadTailProperties
<1>6. ASSUME NEW k \in 1 .. Len(s) - 1 PROVE M[k] = Tail(N)[k]
  <2>1. k + 1 \in 1 .. Len(s) BY <1>0
  <2>2. M[k] = f[t[k]] /\ t[k] = s[k + 1] BY <1>1, <1>3
  <2>3. Tail(N)[k] = N[k + 1] /\ N[k + 1] = f[s[k + 1]] BY <1>2, <1>5, <2>1
  <2> QED BY <2>2, <2>3
<1>7. M = Tail(N) BY <1>3, <1>5, <1>6, SeqEqual
<1>8. Head(N) = f[Head(s)] BY <1>0, <1>2, <1>4
<1> QED BY <1>7, <1>8 DEF M, N, t

LEMMA NosRemoveAt ==
  ASSUME NEW S, NEW f \in [S -> Nat], NEW s \in Seq(S), NEW i \in DOMAIN s
  PROVE  Nos(f, RemoveAt(s, i)) = RemoveAt(Nos(f, s), i)
<1> DEFINE t == RemoveAt(s, i)
           N == Nos(f, s)
           M == Nos(f, t)
           R == RemoveAt(N, i)
<1>0. Len(s) \in Nat OBVIOUS
<1>1. /\ t \in Seq(S) /\ Len(t) = Len(s) - 1
      /\ \A k \in 1 .. Len(s) - 1 : t[k] = IF k < i THEN s[k] ELSE s[k + 1]
  BY RemoveAtIs
<1> HIDE DEF t
<1>2. N \in Seq(Nat) /\ Len(N) = Len(s) /\ \A k \in 1 .. Len(s) : N[k] = f[s[k]]
  BY NosAre
<1>3. M \in Seq(Nat) /\ Len(M) = Len(s) - 1 /\ \A k \in 1 .. Len(s) - 1 : M[k] = f[t[k]]
  <2>1. t \in Seq(S) BY <1>1
  <2>2. M \in Seq(Nat) /\ Len(M) = Len(t) /\ \A k \in 1 .. Len(t) : M[k] = f[t[k]]
    BY <2>1 DEF Nos
  <2>3. Len(t) = Len(s) - 1 BY <1>1
  <2> HIDE DEF M
  <2> QED BY <2>2, <2>3
<1>4. i \in DOMAIN N BY DEF Nos
<1> HIDE DEF N, M
<1>5. /\ R \in Seq(Nat) /\ Len(R) = Len(s) - 1
      /\ \A k \in 1 .. Len(s) - 1 : R[k] = IF k < i THEN N[k] ELSE N[k + 1]
  BY <1>2, <1>4, RemoveAtIs
<1> HIDE DEF R
<1>6. ASSUME NEW k \in 1 .. Len(s) - 1 PROVE M[k] = R[k]
  <2>1. k \in 1 .. Len(s) /\ k + 1 \in 1 .. Len(s) BY <1>0
  <2>2. M[k] = f[t[k]] /\ t[k] = IF k < i THEN s[k] ELSE s[k + 1] BY <1>1, <1>3
  <2>3. N[k] = f[s[k]] /\ N[k + 1] = f[s[k + 1]] BY <1>2, <2>1
  <2>4. R[k] = IF k < i THEN N[k] ELSE N[k + 1] BY <1>5
  <2> QED BY <2>2, <2>3, <2>4
<1>7. M = R BY <1>3, <1>5, <1>6, SeqEqual
<1> QED BY <1>7 DEF M, N, R, t

--------------------------------------------------------------------------------
(* The inductive invariant                                                 *)

\* What an item of the ring is once it was pushed: a message, all its segments its own.
Intact(p) ==
  /\ p[1] \in WireMessages
  /\ \A s \in Covered(SizeOf[p[1].msgType]) : p[s] = p[1]

Packets == {p \in [Segments -> WireMessages \cup {NoMessage}] : Intact(p)}

\* A datagram is at least as long as its message.
Datagrams ==
  {d \in [message : WireMessages, bytes : Nat] : d.bytes >= SizeOf[d.message.msgType]}

FeedTypeOK ==
  /\ toReplay \in Seq(WireMessages)
  /\ seqNo \in Nat /\ (seqNo # 0 => toReplay = <<>>)
  /\ network \in Seq(Datagrams) /\ socket \in Seq(Datagrams)
  /\ packet \in [Segments -> WireMessages \cup {NoMessage}]
  /\ at = "push" => packet \in Packets
  /\ queue \in Seq(Packets) /\ delivered \in Seq(Packets)
  /\ expectedSeqNo \in Nat \ {0} /\ sequenceGapsDetected \in Nat

PacketNo == [p \in Packets |-> p[1].seqNo]
DatagramNo == [d \in Datagrams |-> d.message.seqNo]
MessageNo == [m \in WireMessages |-> m.seqNo]

\* The numbers on their way to the worker thread, the queues in their order.
InPacket == IF at = "push" THEN <<packet[1].seqNo>> ELSE <<>>
Waiting == <<Nos(PacketNo, queue), InPacket, Nos(DatagramNo, socket),
             Nos(DatagramNo, network), Nos(MessageNo, toReplay)>>

\* Unless one overtook another, the numbers wait in their order, none of them below
\* those processed and below the number expected next.
InOrder ==
  ~overtaken =>
    /\ InLine(Waiting)
    /\ \A a \in Stages : \A k \in DOMAIN Waiting[a] :
         /\ delivered # <<>> => expectedSeqNo <= Waiting[a][k]
         /\ seqNo # 0 => Waiting[a][k] < seqNo
    /\ \A n \in Processed : n < expectedSeqNo
    /\ delivered = <<>> => expectedSeqNo = 1
    /\ delivered # <<>> /\ seqNo # 0 => expectedSeqNo <= seqNo

FeedInv == FeedTypeOK /\ InOrder /\ LossAccounted

--------------------------------------------------------------------------------
(* Types                                                                   *)

LEMMA NumbersOf ==
  /\ PacketNo \in [Packets -> Nat]
  /\ DatagramNo \in [Datagrams -> Nat]
  /\ MessageNo \in [WireMessages -> Nat]
BY DEF PacketNo, DatagramNo, MessageNo, Packets, Intact, Datagrams, WireMessages

LEMMA NumberOf == \A m \in WireMessages : m.seqNo \in Nat
BY DEF WireMessages

LEMMA WaitingAre ==
  ASSUME FeedTypeOK
  PROVE  /\ \A a \in Stages : Waiting[a] \in Seq(Nat)
         /\ InPacket \in Seq(Nat)
<1>1. InPacket \in Seq(Nat)
  <2>1. at = "push" => packet[1] \in WireMessages
    BY DEF FeedTypeOK, Packets, Intact
  <2>2. at = "push" => packet[1].seqNo \in Nat BY <2>1 DEF WireMessages
  <2> QED BY <2>2 DEF InPacket
<1>2. /\ Nos(PacketNo, queue) \in Seq(Nat) /\ Nos(MessageNo, toReplay) \in Seq(Nat)
      /\ Nos(DatagramNo, socket) \in Seq(Nat) /\ Nos(DatagramNo, network) \in Seq(Nat)
  BY NumbersOf, NosAre DEF FeedTypeOK
<1> QED BY <1>1, <1>2 DEF Waiting, Stages

LEMMA SizesOf ==
  /\ DOMAIN SizeOf = {"A", "X", "E"}
  /\ \A type \in DOMAIN SizeOf :
       /\ ExpectedSize(type) = SizeOf[type] /\ SizeOf[type] \in Nat
       /\ 25 <= SizeOf[type] /\ SizeOf[type] <= 34
BY DEF SizeOf, ExpectedSize

\* A datagram overwrites what its message needs of the buffer, the rest may stay.
LEMMA ReceivedIntact ==
  ASSUME NEW p \in [Segments -> WireMessages \cup {NoMessage}], NEW d \in Datagrams,
         NEW q, q = [s \in Segments |-> IF s \in Covered(d.bytes) THEN d.message ELSE p[s]]
  PROVE  q \in Packets /\ q[1] = d.message
<1>1. /\ d.message \in WireMessages /\ d.bytes \in Nat
      /\ SizeOf[d.message.msgType] <= d.bytes
      /\ d.message.msgType \in DOMAIN SizeOf
  BY SizesOf DEF Datagrams, WireMessages
<1>2. Covered(SizeOf[d.message.msgType]) \subseteq Covered(d.bytes)
  BY <1>1, SizesOf DEF Covered, Segments, SegmentEnd
<1>3. 1 \in Covered(d.bytes)
  BY <1>1, SizesOf DEF Covered, Segments, SegmentEnd
<1>4. q[1] = d.message BY <1>3 DEF Covered
<1>5. \A s \in Covered(SizeOf[q[1].msgType]) : q[s] = q[1]
  BY <1>2, <1>4 DEF Covered
<1>6. q \in [Segments -> WireMessages \cup {NoMessage}] BY <1>1
<1> QED BY <1>1, <1>4, <1>5, <1>6 DEF Packets, Intact

LEMMA SentAre ==
  ASSUME NEW m \in WireMessages, NEW bytes \in Nat, bytes >= SizeOf[m.msgType]
  PROVE  /\ [message |-> m, bytes |-> bytes] \in Datagrams
         /\ DatagramNo[[message |-> m, bytes |-> bytes]] = m.seqNo
BY DEF Datagrams, DatagramNo

LEMMA MocksAre ==
  ASSUME NEW type \in DOMAIN SizeOf, NEW n \in Nat, NEW orderId \in Nat, NEW side,
         side \in Sides \cup {""}, NEW price \in Int, NEW quantity \in Int
  PROVE  /\ Message(type, n, orderId, side, price, quantity) \in WireMessages
         /\ Message(type, n, orderId, side, price, quantity).seqNo = n
         /\ Message(type, n, orderId, side, price, quantity).msgType = type
BY DEF Message, WireMessages

--------------------------------------------------------------------------------
(* What the replayer sends is a sequence of messages                       *)

LEMMA FlattenIsSeq ==
  ASSUME NEW S, NEW seqs \in Seq(Seq(S))
  PROVE  FlattenSeq(seqs) \in Seq(S)
<1> DEFINE n == Len(seqs)
           Step(g, i) == IF i = 1 THEN seqs[i] ELSE g[i - 1] \o seqs[i]
           Flattens(g, m) == g = [i \in 1 .. m |-> Step(g, i)]
           f == CHOOSE g : Flattens(g, n)
           NoneUp == {m \in Nat : ~\E g : Flattens(g, m)}
           Bad == {m \in 1 .. n : f[m] \notin Seq(S)}
<1>0. n \in Nat /\ \A i \in 1 .. n : seqs[i] \in Seq(S) OBVIOUS
<1>1. NoneUp = {}
  <2> SUFFICES ASSUME NoneUp # {} PROVE FALSE OBVIOUS
  <2>1. PICK m \in NoneUp : \A l \in NoneUp : m <= l
    <3>1. NoneUp \subseteq Nat OBVIOUS
    <3> HIDE DEF NoneUp
    <3> QED BY <3>1, SmallestIn
  <2>2. m \in Nat /\ ~\E g : Flattens(g, m) OBVIOUS
  <2>3. CASE m = 0
    <3> DEFINE g == [i \in 1 .. 0 |-> Step(<<>>, i)]
    <3>1. g = [i \in 1 .. 0 |-> Step(g, i)] OBVIOUS
    <3> QED BY <2>2, <2>3, <3>1
  <2>4. CASE m > 0
    <3>1. m - 1 \in Nat /\ ~(m <= m - 1) BY <2>2, <2>4
    <3>2. \E h : Flattens(h, m - 1)
      <4> HIDE DEF Flattens
      <4> QED BY <2>1, <3>1
    <3>3. PICK h : h = [i \in 1 .. m - 1 |-> Step(h, i)] BY <3>2
    <3> DEFINE g == [i \in 1 .. m |-> Step(h, i)]
    <3>4. ASSUME NEW i \in 1 .. m PROVE Step(g, i) = Step(h, i)
      <4>1. CASE i = 1 BY <4>1
      <4>2. CASE i # 1
        <5>1. i - 1 \in 1 .. m - 1 /\ i - 1 \in 1 .. m BY <2>2, <4>2
        <5>2. h[i - 1] = Step(h, i - 1) BY <3>3, <5>1
        <5>3. g[i - 1] = Step(h, i - 1) BY <5>1
        <5> HIDE DEF g
        <5> QED BY <4>2, <5>2, <5>3
      <4> QED BY <4>1, <4>2
    <3>5. g = [i \in 1 .. m |-> Step(g, i)] BY <3>4
    <3> QED BY <2>2, <3>5
  <2> QED BY <2>2, <2>3, <2>4
<1>2. f = [i \in 1 .. n |-> Step(f, i)]
  <2>1. \E g : Flattens(g, n) BY <1>0, <1>1
  <2>2. Flattens(f, n)
    <3> HIDE DEF Flattens
    <3> QED BY <2>1
  <2> QED BY <2>2
<1>3. FlattenSeq(seqs) = IF n = 0 THEN seqs ELSE f[n] BY DEF FlattenSeq
<1> HIDE DEF f
<1>4. Bad = {}
  <2> SUFFICES ASSUME Bad # {} PROVE FALSE OBVIOUS
  <2>1. PICK m \in Bad : \A l \in Bad : m <= l
    <3>1. Bad \subseteq Nat OBVIOUS
    <3> HIDE DEF Bad
    <3> QED BY <3>1, SmallestIn
  <2>2. m \in 1 .. n /\ f[m] \notin Seq(S) OBVIOUS
  <2>3. f[m] = Step(f, m) BY <1>2, <2>2
  <2>4. CASE m = 1 BY <1>0, <2>2, <2>3, <2>4
  <2>5. CASE m # 1
    <3>1. m - 1 \in 1 .. n /\ ~(m <= m - 1) BY <1>0, <2>2, <2>5
    <3>2. f[m - 1] \in Seq(S) BY <2>1, <3>1
    <3>3. f[m - 1] \o seqs[m] \in Seq(S) BY <1>0, <2>2, <3>2, ConcatProperties
    <3> QED BY <2>2, <2>3, <2>5, <3>3
  <2> QED BY <2>4, <2>5
<1>5. CASE n = 0
  <2>1. seqs = <<>> BY <1>5
  <2> QED BY <1>3, <1>5, <2>1
<1>6. CASE n # 0
  <2>1. f[n] \in Seq(S) BY <1>0, <1>4, <1>6
  <2> QED BY <1>3, <1>6, <2>1
<1> QED BY <1>5, <1>6

LEMMA ReplayedAre ==
  ASSUME NEW capture \in Captures
  PROVE  MessagesToReplay(capture) \in Seq(WireMessages)
<1> DEFINE Frames == [messages : Seq(WireMessages), trailer : Nat]
           parts == [k \in DOMAIN capture |-> Extract(capture[k])]
<1>1. capture \in Seq(Frames) BY FeedAssumption
<1>2. ASSUME NEW frame \in Frames PROVE Extract(frame) \in Seq(WireMessages)
  <2> DEFINE Found == {i \in DOMAIN frame.messages :
                         /\ BytesFrom(frame, i) >= SizeOf["A"]
                         /\ ValidateAndParse(frame.messages[i], BytesFrom(frame, i))
                              = "Valid"}
  <2>1. Extract(frame) = IF Found = {} THEN <<>> ELSE <<frame.messages[Min(Found)]>>
    BY DEF Extract
  <2>2. frame.messages \in Seq(WireMessages) OBVIOUS
  <2>3. Found \subseteq DOMAIN frame.messages /\ Found \subseteq Nat BY <2>2
  <2> HIDE DEF Found
  <2>4. Found # {} => Min(Found) \in DOMAIN frame.messages BY <2>3, MinIn
  <2> QED BY <2>1, <2>2, <2>4
<1>3. parts \in Seq(Seq(WireMessages))
  <2> HIDE DEF Frames
  <2>1. ASSUME NEW k \in DOMAIN capture PROVE Extract(capture[k]) \in Seq(WireMessages)
    <3>1. capture[k] \in Frames BY <1>1
    <3> QED BY <1>2, <3>1
  <2>2. DOMAIN capture = 1 .. Len(capture) /\ Len(capture) \in Nat BY <1>1
  <2> QED BY <2>1, <2>2
<1>4. FlattenSeq(parts) \in Seq(WireMessages) BY <1>3, FlattenIsSeq
<1>5. Synthetic \in Seq(WireMessages)
  <2>1. ASSUME NEW i \in 1 .. SyntheticCount
        PROVE  Synthetic[i] \in WireMessages
    <3> DEFINE k == (i - 1) % 10
               hundred == 100
               fifty == 50
               side == IF k % 2 = 0 THEN "B" ELSE "S"
    <3>1. Synthetic[i] = IF k < 7 THEN Message("A", i, i, side, hundred, hundred)
                         ELSE IF k < 9 THEN Message("X", i, 1, "", 0, 0)
                         ELSE Message("E", i, 1, "", hundred, fifty)
      BY Zenon DEF Synthetic
    <3>2. i \in Nat /\ 0 \in Int /\ 1 \in Nat /\ fifty \in Int /\ hundred \in Int
      <4>1. SyntheticCount \in Nat BY FeedAssumption
      <4> QED BY <4>1
    <3>3. "A" \in DOMAIN SizeOf /\ "X" \in DOMAIN SizeOf /\ "E" \in DOMAIN SizeOf
      BY SizesOf
    <3>4. side \in Sides \cup {""} /\ "" \in Sides \cup {""} BY DEF Sides
    <3> HIDE DEF k, side, hundred, fifty
    <3>5. Message("A", i, i, side, hundred, hundred) \in WireMessages
      BY Zenon, <3>2, <3>3, <3>4, MocksAre
    <3>6. Message("X", i, 1, "", 0, 0) \in WireMessages
      BY Zenon, <3>2, <3>3, <3>4, MocksAre
    <3>7. Message("E", i, 1, "", hundred, fifty) \in WireMessages
      BY Zenon, <3>2, <3>3, <3>4, MocksAre
    <3> QED BY <3>1, <3>5, <3>6, <3>7
  <2>2. Synthetic = [i \in 1 .. SyntheticCount |-> Synthetic[i]] BY DEF Synthetic
  <2>3. SyntheticCount \in Nat BY FeedAssumption
  <2> QED BY <2>1, <2>2, <2>3
<1>6. MessagesToReplay(capture) =
        IF FlattenSeq(parts) = <<>> THEN Synthetic ELSE FlattenSeq(parts)
  BY DEF MessagesToReplay
<1> HIDE DEF parts
<1> QED BY <1>4, <1>5, <1>6

--------------------------------------------------------------------------------
(* What each step does to the types and to the line                        *)

LEMMA Bounds == MaxMessages \in Nat /\ SyntheticCount \in Nat
BY FeedAssumption

LEMMA InitTypes == Init => FeedTypeOK
<1> SUFFICES ASSUME Init PROVE FeedTypeOK OBVIOUS
<1>1. toReplay \in Seq(WireMessages) /\ seqNo \in Nat /\ (seqNo # 0 => toReplay = <<>>)
  <2>1. CASE seqNo = 1 /\ toReplay = <<>> BY <2>1
  <2>2. ASSUME seqNo = 0, NEW capture \in Captures, toReplay = MessagesToReplay(capture)
        PROVE  toReplay \in Seq(WireMessages) /\ seqNo \in Nat
    BY <2>2, ReplayedAre
  <2> QED BY <2>1, <2>2 DEF Init
<1>2. packet \in [Segments -> WireMessages \cup {NoMessage}] BY DEF Init
<1> QED BY <1>1, <1>2 DEF Init, Ring!Init, FeedTypeOK

LEMMA TheStages ==
  /\ /\ Waiting[1] = Nos(PacketNo, queue) /\ Waiting[2] = InPacket
     /\ Waiting[3] = Nos(DatagramNo, socket) /\ Waiting[4] = Nos(DatagramNo, network)
     /\ Waiting[5] = Nos(MessageNo, toReplay)
  /\ /\ Waiting'[1] = Nos(PacketNo, queue') /\ Waiting'[2] = InPacket'
     /\ Waiting'[3] = Nos(DatagramNo, socket') /\ Waiting'[4] = Nos(DatagramNo, network')
     /\ Waiting'[5] = Nos(MessageNo, toReplay')
  /\ \A a \in Stages : a = 1 \/ a = 2 \/ a = 3 \/ a = 4 \/ a = 5
BY DEF Waiting, Stages

LEMMA FirstRemoved ==
  ASSUME NEW S, NEW s \in Seq(S), s # <<>>
  PROVE  RemoveAt(s, 1) = Tail(s)
<1>1. 1 \in DOMAIN s OBVIOUS
<1>2. /\ RemoveAt(s, 1) \in Seq(S) /\ Len(RemoveAt(s, 1)) = Len(s) - 1
      /\ \A k \in 1 .. Len(s) - 1 : RemoveAt(s, 1)[k] = IF k < 1 THEN s[k] ELSE s[k + 1]
  BY <1>1, RemoveAtIs
<1>3. Tail(s) \in Seq(S) /\ Len(Tail(s)) = Len(s) - 1 BY HeadTailProperties
<1>4. \A k \in 1 .. Len(s) - 1 : Tail(s)[k] = s[k + 1]
  BY <1>3, HeadTailProperties
<1>5. ASSUME NEW k \in 1 .. Len(s) - 1 PROVE RemoveAt(s, 1)[k] = Tail(s)[k]
  <2>1. ~(k < 1) OBVIOUS
  <2> QED BY <1>2, <1>4, <2>1
<1> QED BY <1>2, <1>3, <1>5, SeqEqual

LEMMA MockSendsStep ==
  ASSUME FeedTypeOK, NEW type \in {"A", "X", "E"}, MockSends(type)
  PROVE  /\ FeedTypeOK' /\ seqNo # 0 /\ seqNo' = seqNo + 1
         /\ Waiting'[4] = Append(Waiting[4], seqNo)
         /\ \A b \in Stages : b # 4 => Waiting'[b] = Waiting[b]
         /\ UNCHANGED <<bookVars, delivered, overtaken>>
<1> DEFINE side == IF type = "A" THEN "B" ELSE ""
           price == IF type = "X" THEN 0 ELSE 100
           m == Message(type, seqNo, 1, side, price, 1)
           d == [message |-> m, bytes |-> SizeOf["A"]]
<1>0. seqNo # 0 /\ seqNo \in Nat
  <2>1. seqNo \in 1 .. MaxMessages BY DEF MockSends
  <2> QED BY <2>1, Bounds
<1>1. network' = Append(network, d) /\ seqNo' = seqNo + 1
  BY Zenon DEF MockSends, Send
<1>2. /\ m \in WireMessages /\ m.seqNo = seqNo /\ m.msgType = type
  <2>1. type \in DOMAIN SizeOf BY SizesOf
  <2>2. side \in Sides \cup {""} BY DEF Sides
  <2>3. price \in Int OBVIOUS
  <2> HIDE DEF side, price
  <2> DEFINE one == 1
  <2>4. one \in Nat /\ one \in Int OBVIOUS
  <2> HIDE DEF one
  <2>5. /\ Message(type, seqNo, one, side, price, one) \in WireMessages
        /\ Message(type, seqNo, one, side, price, one).seqNo = seqNo
        /\ Message(type, seqNo, one, side, price, one).msgType = type
    BY <1>0, <2>1, <2>2, <2>3, <2>4, MocksAre DEF Message
  <2> QED BY <2>5 DEF one
<1> HIDE DEF m
<1>3. SizeOf["A"] \in Nat /\ SizeOf["A"] >= SizeOf[m.msgType]
  BY <1>2 DEF SizeOf
<1>4. d \in Datagrams /\ DatagramNo[d] = seqNo BY <1>2, <1>3, SentAre
<1> HIDE DEF d
<1>5. /\ UNCHANGED <<toReplay, socket, packet, at, queue, delivered, bookVars, overtaken>>
  BY DEF MockSends
<1>6. network' \in Seq(Datagrams) BY <1>1, <1>4 DEF FeedTypeOK
<1>7. FeedTypeOK'
  <2>1. toReplay = <<>> /\ seqNo' \in Nat BY <1>0, <1>1 DEF FeedTypeOK
  <2> QED BY <1>5, <1>6, <2>1 DEF FeedTypeOK, bookVars
<1>8. Nos(DatagramNo, network') = Append(Nos(DatagramNo, network), seqNo)
  <2>1. network \in Seq(Datagrams) BY DEF FeedTypeOK
  <2> QED BY <1>1, <1>4, <2>1, NumbersOf, NosAppend
<1>9. InPacket' = InPacket BY <1>5 DEF InPacket
<1>10. Waiting'[4] = Append(Waiting[4], seqNo) BY <1>8, TheStages
<1>11. \A b \in Stages : b # 4 => Waiting'[b] = Waiting[b] BY <1>5, <1>9, TheStages
<1> QED BY <1>0, <1>1, <1>5, <1>7, <1>10, <1>11

LEMMA ReplayerSendsStep ==
  ASSUME FeedTypeOK, ReplayerSends
  PROVE  /\ FeedTypeOK' /\ Moves(Waiting, Waiting', 4, 5)
         /\ seqNo = 0 /\ UNCHANGED <<seqNo, bookVars, delivered, overtaken>>
<1> DEFINE m == Head(toReplay)
           d == [message |-> m, bytes |-> ExpectedSize(m.msgType)]
<1>1. /\ toReplay # <<>> /\ toReplay \in Seq(WireMessages) /\ m \in WireMessages
      /\ Tail(toReplay) \in Seq(WireMessages) /\ toReplay' = Tail(toReplay)
      /\ network' = Append(network, d) /\ network \in Seq(Datagrams)
  BY DEF ReplayerSends, Send, FeedTypeOK
<1>2. ExpectedSize(m.msgType) = SizeOf[m.msgType] /\ SizeOf[m.msgType] \in Nat
  BY <1>1, SizesOf DEF WireMessages
<1>3. d \in Datagrams /\ DatagramNo[d] = m.seqNo BY <1>1, <1>2, SentAre
<1>4. MessageNo[m] = m.seqNo BY <1>1 DEF MessageNo
<1> HIDE DEF d, m
<1>5. seqNo = 0 /\ UNCHANGED <<seqNo, bookVars, delivered, overtaken>>
  BY <1>1 DEF ReplayerSends, FeedTypeOK
<1>6. UNCHANGED <<socket, packet, at, queue>> BY DEF ReplayerSends
<1>7. FeedTypeOK' BY <1>1, <1>3, <1>5, <1>6 DEF FeedTypeOK, bookVars
<1>8. Nos(DatagramNo, network') = Append(Nos(DatagramNo, network), m.seqNo)
  BY <1>1, <1>3, NumbersOf, NosAppend
<1>9. /\ Nos(MessageNo, toReplay') = Tail(Nos(MessageNo, toReplay))
      /\ Head(Nos(MessageNo, toReplay)) = m.seqNo /\ Nos(MessageNo, toReplay) # <<>>
  BY <1>1, <1>4, NumbersOf, NosTail, NosAre DEF m
<1>10. Moves(Waiting, Waiting', 4, 5)
  <2>1. InPacket' = InPacket BY <1>6 DEF InPacket
  <2>2. \A b \in Stages : b # 4 /\ b # 5 => Waiting'[b] = Waiting[b]
    BY <1>6, <2>1, TheStages
  <2> QED BY <1>8, <1>9, <2>2, TheStages DEF Moves
<1> QED BY <1>5, <1>7, <1>10

LEMMA LostStep ==
  ASSUME FeedTypeOK, NEW i \in DOMAIN network, Lost(i)
  PROVE  /\ FeedTypeOK'
         /\ Waiting[4] \in Seq(Nat) /\ i \in DOMAIN Waiting[4]
         /\ Waiting'[4] = RemoveAt(Waiting[4], i)
         /\ \A b \in Stages : b # 4 => Waiting'[b] = Waiting[b]
         /\ UNCHANGED <<seqNo, bookVars, delivered, overtaken>>
<1>1. network' = RemoveAt(network, i) /\ network \in Seq(Datagrams)
  BY DEF Lost, FeedTypeOK
<1>2. UNCHANGED <<toReplay, seqNo, socket, packet, at, queue, delivered, bookVars,
                  overtaken>>
  BY DEF Lost, publisherVars
<1>3. network' \in Seq(Datagrams) BY <1>1, RemoveAtIs
<1>4. FeedTypeOK' BY <1>2, <1>3 DEF FeedTypeOK, bookVars
<1>5. Nos(DatagramNo, network') = RemoveAt(Nos(DatagramNo, network), i)
  BY <1>1, NumbersOf, NosRemoveAt
<1>6. Nos(DatagramNo, network) \in Seq(Nat) BY <1>1, NumbersOf, NosAre
<1>7. i \in DOMAIN Nos(DatagramNo, network) BY DEF Nos
<1>8. InPacket' = InPacket BY <1>2 DEF InPacket
<1>9. \A b \in Stages : b # 4 => Waiting'[b] = Waiting[b] BY <1>2, <1>8, TheStages
<1> QED BY <1>2, <1>4, <1>5, <1>6, <1>7, <1>9, TheStages

\* A datagram that is not accepted leaves the line; accepted, it moves along if it is
\* the first.
LEMMA ArrivesStep ==
  ASSUME FeedTypeOK, NEW i \in DOMAIN network, Arrives(i)
  PROVE  /\ FeedTypeOK'
         /\ Waiting[4] \in Seq(Nat) /\ i \in DOMAIN Waiting[4]
         /\ ~overtaken' => Moves(Waiting, Waiting', 3, 4)
              \/ /\ Waiting'[4] = RemoveAt(Waiting[4], i)
                 /\ \A b \in Stages : b # 4 => Waiting'[b] = Waiting[b]
         /\ ~overtaken' => ~overtaken
         /\ UNCHANGED <<seqNo, bookVars, delivered>>
<1> DEFINE d == network[i]
<1>1. network' = RemoveAt(network, i) /\ network \in Seq(Datagrams) /\ d \in Datagrams
  BY DEF Arrives, FeedTypeOK
<1>2. UNCHANGED <<toReplay, seqNo, packet, at, queue, delivered, bookVars>>
  BY DEF Arrives, publisherVars
<1>3. network' \in Seq(Datagrams) BY <1>1, RemoveAtIs
<1>4. socket' = Append(socket, d) \/ socket' = socket BY DEF Arrives
<1>5. FeedTypeOK'
  <2>0. socket \in Seq(Datagrams) BY DEF FeedTypeOK
  <2>1. socket' \in Seq(Datagrams)
    <3> HIDE DEF d
    <3> QED BY <1>1, <1>4, <2>0
  <2> QED BY <1>2, <1>3, <2>1 DEF FeedTypeOK, bookVars
<1>6. /\ Nos(DatagramNo, network) \in Seq(Nat)
      /\ Nos(DatagramNo, network') = RemoveAt(Nos(DatagramNo, network), i)
  BY <1>1, NumbersOf, NosAre, NosRemoveAt
<1>7. i \in DOMAIN Nos(DatagramNo, network) BY DEF Nos
<1>8. InPacket' = InPacket BY <1>2 DEF InPacket
<1>9. \A b \in Stages : b # 3 /\ b # 4 => Waiting'[b] = Waiting[b]
  BY <1>2, <1>8, TheStages
<1>a. ~overtaken' => ~overtaken BY DEF Arrives
<1>b. /\ Waiting[4] \in Seq(Nat) /\ i \in DOMAIN Waiting[4]
      /\ Waiting'[4] = RemoveAt(Waiting[4], i)
  BY <1>6, <1>7, TheStages
<1>c. UNCHANGED <<seqNo, bookVars, delivered>> BY <1>2 DEF Arrives, publisherVars
<1>10. ASSUME socket' = socket
       PROVE  \A b \in Stages : b # 4 => Waiting'[b] = Waiting[b]
  BY <1>9, <1>10, TheStages
<1>11. ASSUME socket' = Append(socket, d), ~overtaken'
       PROVE  Moves(Waiting, Waiting', 3, 4)
  <2>1. Nos(DatagramNo, socket') = Append(Nos(DatagramNo, socket), DatagramNo[d])
    <3>1. socket \in Seq(Datagrams) BY DEF FeedTypeOK
    <3> QED BY <1>1, <1>11, <3>1, NumbersOf, NosAppend
  <2>2. i = 1
    <3>1. ~(i > 1) BY <1>11 DEF Arrives
    <3>2. i \in 1 .. Len(network) /\ Len(network) \in Nat BY <1>1
    <3> QED BY <3>1, <3>2
  <2>3. network # <<>> /\ d = Head(network) BY <1>1, <2>2
  <2>4. /\ Nos(DatagramNo, network) # <<>>
        /\ Head(Nos(DatagramNo, network)) = DatagramNo[d]
        /\ Nos(DatagramNo, network') = Tail(Nos(DatagramNo, network))
    <3>1. network' = Tail(network) BY <1>1, <2>2, <2>3, FirstRemoved
    <3>2. Nos(DatagramNo, network) # <<>> BY <1>1, <2>3, NumbersOf, NosAre
    <3>3. /\ Head(Nos(DatagramNo, network)) = DatagramNo[Head(network)]
          /\ Nos(DatagramNo, Tail(network)) = Tail(Nos(DatagramNo, network))
      BY <1>1, <2>3, NumbersOf, NosTail
    <3> QED BY <2>3, <3>1, <3>2, <3>3
  <2> QED BY <1>9, <2>1, <2>4, TheStages DEF Moves
<1>12. ~overtaken' =>
         \/ Moves(Waiting, Waiting', 3, 4)
         \/ /\ Waiting'[4] = RemoveAt(Waiting[4], i)
            /\ \A b \in Stages : b # 4 => Waiting'[b] = Waiting[b]
  BY <1>4, <1>10, <1>11, <1>b
<1> QED BY <1>5, <1>12, <1>a, <1>b, <1>c

LEMMA ReceiveStep ==
  ASSUME FeedTypeOK, Receive
  PROVE  /\ FeedTypeOK' /\ Moves(Waiting, Waiting', 2, 3)
         /\ UNCHANGED <<seqNo, bookVars, delivered, overtaken>>
<1> DEFINE d == Head(socket)
<1>1. /\ socket # <<>> /\ socket \in Seq(Datagrams) /\ d \in Datagrams
      /\ Tail(socket) \in Seq(Datagrams) /\ socket' = Tail(socket)
  BY DEF Receive, FeedTypeOK
<1>2. at = "receive" /\ at' = "push" BY DEF Receive
<1>3. packet' = [s \in Segments |-> IF s \in Covered(d.bytes) THEN d.message ELSE packet[s]]
  BY DEF Receive
<1>4. UNCHANGED <<toReplay, seqNo, network, queue, delivered, bookVars, overtaken>>
  BY DEF Receive, publisherVars
<1> HIDE DEF d
<1>5. packet' \in Packets /\ packet'[1] = d.message
  BY <1>1, <1>3, ReceivedIntact DEF FeedTypeOK
<1>6. FeedTypeOK'
  <2>1. packet' \in [Segments -> WireMessages \cup {NoMessage}] BY <1>5 DEF Packets
  <2> QED BY <1>1, <1>4, <1>5, <2>1 DEF FeedTypeOK, bookVars
<1>7. DatagramNo[d] = d.message.seqNo BY <1>1 DEF DatagramNo
<1>8. /\ Nos(DatagramNo, socket) # <<>> /\ Head(Nos(DatagramNo, socket)) = DatagramNo[d]
      /\ Nos(DatagramNo, socket') = Tail(Nos(DatagramNo, socket))
  BY <1>1, NumbersOf, NosAre, NosTail DEF d
<1>9. InPacket = <<>> /\ InPacket' = <<d.message.seqNo>> BY <1>2, <1>5 DEF InPacket
<1>10. InPacket' = Append(InPacket, DatagramNo[d]) BY <1>7, <1>9
<1>11. \A b \in Stages : b # 2 /\ b # 3 => Waiting'[b] = Waiting[b] BY <1>4, TheStages
<1>12. Moves(Waiting, Waiting', 2, 3) BY <1>8, <1>10, <1>11, TheStages DEF Moves
<1> QED BY <1>4, <1>6, <1>12

LEMMA PushStep ==
  ASSUME FeedTypeOK, Push
  PROVE  /\ FeedTypeOK' /\ Moves(Waiting, Waiting', 1, 2)
         /\ UNCHANGED <<seqNo, bookVars, delivered, overtaken>>
<1>1. /\ at = "push" /\ at' = "receive"
      /\ queue' = Append(queue, packet) /\ delivered' = delivered
  BY DEF Push, Ring!Enqueue
<1>2. queue \in Seq(Packets) /\ packet \in Packets BY <1>1 DEF FeedTypeOK
<1>3. UNCHANGED <<toReplay, seqNo, network, socket, packet, bookVars, overtaken>>
  BY DEF Push, publisherVars
<1>4. queue' \in Seq(Packets) BY <1>1, <1>2
<1>5. FeedTypeOK' BY <1>1, <1>3, <1>4 DEF FeedTypeOK, bookVars
<1>6. PacketNo[packet] = packet[1].seqNo BY <1>2 DEF PacketNo
<1>7. Nos(PacketNo, queue') = Append(Nos(PacketNo, queue), PacketNo[packet])
  BY <1>1, <1>2, NumbersOf, NosAppend
<1>8. InPacket = <<PacketNo[packet]>> /\ InPacket' = <<>> BY <1>1, <1>6 DEF InPacket
<1>9. InPacket # <<>> /\ Head(InPacket) = PacketNo[packet] /\ Tail(InPacket) = InPacket'
  BY <1>8
<1>10. \A b \in Stages : b # 1 /\ b # 2 => Waiting'[b] = Waiting[b] BY <1>3, TheStages
<1>11. Moves(Waiting, Waiting', 1, 2) BY <1>7, <1>9, <1>10, TheStages DEF Moves
<1> QED BY <1>1, <1>3, <1>5, <1>11

LEMMA BindStep ==
  ASSUME FeedTypeOK, Bind
  PROVE  /\ FeedTypeOK' /\ \A b \in Stages : Waiting'[b] = Waiting[b]
         /\ UNCHANGED <<seqNo, bookVars, delivered, overtaken>>
<1>1. /\ UNCHANGED <<toReplay, seqNo, network, socket, packet, queue, delivered, bookVars,
                     overtaken>>
      /\ at = "bind" /\ at' # "push"
  BY DEF Bind, publisherVars
<1>2. FeedTypeOK' BY <1>1 DEF FeedTypeOK, bookVars
<1>3. InPacket' = InPacket BY <1>1 DEF InPacket
<1> QED BY <1>1, <1>2, <1>3, TheStages

LEMMA WorkerStep ==
  ASSUME FeedTypeOK, WorkerThread
  PROVE  LET n == Head(queue)[1].seqNo IN
         /\ FeedTypeOK' /\ n \in Nat
         /\ Waiting[1] \in Seq(Nat) /\ Waiting[1] # <<>> /\ Head(Waiting[1]) = n
         /\ Waiting'[1] = Tail(Waiting[1])
         /\ \A b \in Stages : b # 1 => Waiting'[b] = Waiting[b]
         /\ CheckSequence(n) /\ Processed' = Processed \cup {n}
         /\ Len(delivered') = Len(delivered) + 1 /\ delivered' # <<>>
         /\ UNCHANGED <<seqNo, overtaken>>
<1> DEFINE p == Head(queue)
           n == p[1].seqNo
<1>1. /\ queue # <<>> /\ queue \in Seq(Packets) /\ p \in Packets
      /\ Tail(queue) \in Seq(Packets) /\ queue' = Tail(queue)
      /\ delivered \in Seq(Packets) /\ delivered' = Append(delivered, p)
  BY DEF WorkerThread, Ring!Dequeue, FeedTypeOK
<1>2. CheckSequence(n) BY DEF WorkerThread
<1>3. UNCHANGED <<toReplay, seqNo, network, socket, packet, at, overtaken>>
  BY DEF WorkerThread, publisherVars
<1> HIDE DEF p
<1>4. n \in Nat /\ PacketNo[p] = n
  <2>1. p[1] \in WireMessages BY <1>1 DEF Packets, Intact
  <2>2. n \in Nat BY <2>1, NumberOf
  <2>3. PacketNo[p] = n BY <1>1 DEF PacketNo
  <2> QED BY <2>2, <2>3
<1> HIDE DEF n
<1>5. /\ expectedSeqNo' \in Nat \ {0} /\ sequenceGapsDetected' \in Nat
  <2>1. expectedSeqNo \in Nat /\ sequenceGapsDetected \in Nat BY DEF FeedTypeOK
  <2> QED BY <1>2, <1>4, <2>1 DEF CheckSequence
<1>6. delivered' \in Seq(Packets) BY <1>1
<1>7. FeedTypeOK' BY <1>1, <1>3, <1>5, <1>6 DEF FeedTypeOK
<1>8. /\ Nos(PacketNo, queue) \in Seq(Nat) /\ Nos(PacketNo, queue) # <<>>
      /\ Head(Nos(PacketNo, queue)) = n
      /\ Nos(PacketNo, queue') = Tail(Nos(PacketNo, queue))
  BY <1>1, <1>4, NumbersOf, NosAre, NosTail DEF p
<1>9. InPacket' = InPacket BY <1>3 DEF InPacket
<1>10. \A b \in Stages : b # 1 => Waiting'[b] = Waiting[b] BY <1>3, <1>9, TheStages
<1>11. Len(delivered') = Len(delivered) + 1 /\ delivered' # <<>> BY <1>1
<1>12. Processed' = Processed \cup {n}
  <2> DEFINE l == Len(delivered)
  <2>1. l \in Nat /\ DOMAIN delivered = 1 .. l /\ DOMAIN delivered' = 1 .. l + 1
    BY <1>1, <1>11, <1>6
  <2>2. (\A k \in 1 .. l : delivered'[k] = delivered[k]) /\ delivered'[l + 1] = p
    BY <1>1, AppendProperties
  <2>3. Processed = {delivered[k][1].seqNo : k \in 1 .. l}
    BY <2>1 DEF Processed
  <2>4. Processed' = {delivered'[k][1].seqNo : k \in 1 .. l + 1}
    BY <2>1 DEF Processed
  <2>5. 1 .. l + 1 = (1 .. l) \cup {l + 1} BY <2>1
  <2> HIDE DEF l
  <2>6. ASSUME NEW x PROVE x \in Processed' <=> x \in Processed \/ x = n
    BY <2>2, <2>3, <2>4, <2>5 DEF n
  <2> QED BY <2>6
<1> QED
  BY <1>2, <1>3, <1>4, <1>7, <1>8, <1>10, <1>11, <1>12, TheStages DEF n, p

--------------------------------------------------------------------------------
(* The order                                                               *)

LEMMA OrderKept ==
  ASSUME InOrder, UNCHANGED <<seqNo, bookVars, delivered>>,
         ~overtaken' => /\ ~overtaken /\ InLine(Waiting')
                        /\ \A b \in Stages : \A k \in DOMAIN Waiting'[b] :
                             \E c \in Stages : \E j \in DOMAIN Waiting[c] :
                               Waiting'[b][k] = Waiting[c][j]
  PROVE  InOrder'
<1> SUFFICES ASSUME ~overtaken'
             PROVE  /\ InLine(Waiting')
                    /\ \A a \in Stages : \A k \in DOMAIN Waiting'[a] :
                         /\ delivered' # <<>> => expectedSeqNo' <= Waiting'[a][k]
                         /\ seqNo' # 0 => Waiting'[a][k] < seqNo'
                    /\ \A n \in Processed' : n < expectedSeqNo'
                    /\ delivered' = <<>> => expectedSeqNo' = 1
                    /\ delivered' # <<>> /\ seqNo' # 0 => expectedSeqNo' <= seqNo'
  BY DEF InOrder
<1>1. Processed' = Processed BY DEF Processed
<1>2. expectedSeqNo' = expectedSeqNo BY DEF bookVars
<1> QED BY <1>1, <1>2 DEF InOrder

\* The number at place i of queue a leaves the line.
LEMMA OneLeaves ==
  ASSUME NEW w, \A a \in Stages : w[a] \in Seq(Nat), InLine(w), NEW v,
         NEW a \in Stages, NEW i \in DOMAIN w[a], v[a] = RemoveAt(w[a], i),
         \A b \in Stages : b # a => v[b] = w[b]
  PROVE  /\ InLine(v)
         /\ \A b \in Stages : \A k \in DOMAIN v[b] :
              \E j \in DOMAIN w[b] : v[b][k] = w[b][j]
<1>1. /\ Rising(v[a])
      /\ \A k \in DOMAIN v[a] : \E j \in DOMAIN w[a] : v[a][k] = w[a][j]
  BY RemainderRises DEF InLine
<1>2. \A b \in Stages : Rising(v[b]) BY <1>1 DEF InLine
<1>3. \A b \in Stages : \A k \in DOMAIN v[b] : \E j \in DOMAIN w[b] : v[b][k] = w[b][j]
  BY <1>1
<1> QED BY <1>2, <1>3, ThinnedOut

\* Whatever a step takes out of the line, or moves along it, the order is kept.
LEMMA MoveKeepsOrder ==
  ASSUME FeedTypeOK, InOrder, UNCHANGED <<seqNo, bookVars, delivered>>,
         ~overtaken' => ~overtaken,
         NEW a \in 1 .. 4, NEW next, next = a + 1,
         ~overtaken' => Moves(Waiting, Waiting', a, next)
  PROVE  InOrder'
<1>1. ASSUME ~overtaken'
      PROVE  /\ ~overtaken /\ InLine(Waiting')
             /\ \A b \in Stages : \A k \in DOMAIN Waiting'[b] :
                  \E c \in Stages : \E j \in DOMAIN Waiting[c] :
                    Waiting'[b][k] = Waiting[c][j]
  <2>1. ~overtaken /\ InLine(Waiting) /\ Moves(Waiting, Waiting', a, next)
    BY <1>1 DEF InOrder
  <2> QED BY <2>1, WaitingAre, MoveAlong
<1> QED BY <1>1, OrderKept

LEMMA LossKeepsOrder ==
  ASSUME FeedTypeOK, InOrder, UNCHANGED <<seqNo, bookVars, delivered>>,
         ~overtaken' => ~overtaken,
         NEW i \in DOMAIN Waiting[4], Waiting'[4] = RemoveAt(Waiting[4], i),
         \A b \in Stages : b # 4 => Waiting'[b] = Waiting[b]
  PROVE  InOrder'
<1>1. ASSUME ~overtaken'
      PROVE  /\ ~overtaken /\ InLine(Waiting')
             /\ \A b \in Stages : \A k \in DOMAIN Waiting'[b] :
                  \E c \in Stages : \E j \in DOMAIN Waiting[c] :
                    Waiting'[b][k] = Waiting[c][j]
  <2>1. ~overtaken /\ InLine(Waiting) BY <1>1 DEF InOrder
  <2>2. 4 \in Stages BY DEF Stages
  <2>3. /\ InLine(Waiting')
        /\ \A b \in Stages : \A k \in DOMAIN Waiting'[b] :
             \E j \in DOMAIN Waiting[b] : Waiting'[b][k] = Waiting[b][j]
    BY <2>1, <2>2, WaitingAre, OneLeaves
  <2> QED BY <2>1, <2>3
<1> QED BY <1>1, OrderKept

LEMMA NothingMoves ==
  ASSUME InOrder, UNCHANGED <<seqNo, bookVars, delivered, overtaken>>,
         \A b \in Stages : Waiting'[b] = Waiting[b]
  PROVE  InOrder'
<1>1. ASSUME ~overtaken' PROVE ~overtaken /\ InLine(Waiting')
  BY <1>1 DEF InOrder, InLine
<1> QED BY <1>1, OrderKept

LEMMA MockKeepsOrder ==
  ASSUME FeedTypeOK, InOrder, NEW type \in {"A", "X", "E"}, MockSends(type)
  PROVE  InOrder'
<1>1. /\ seqNo # 0 /\ seqNo \in Nat /\ seqNo' = seqNo + 1 /\ toReplay = <<>>
      /\ Waiting'[4] = Append(Waiting[4], seqNo)
      /\ \A b \in Stages : b # 4 => Waiting'[b] = Waiting[b]
      /\ UNCHANGED <<bookVars, delivered, overtaken>>
  BY MockSendsStep DEF FeedTypeOK
<1>2. CASE overtaken BY <1>1, <1>2 DEF InOrder
<1>3. CASE ~overtaken
  <2> DEFINE w == Waiting
             v == Waiting'
             last == seqNo
  <2>1. /\ \A a \in Stages : w[a] \in Seq(Nat)
        /\ InLine(w) /\ \A a \in Stages : \A k \in DOMAIN w[a] : w[a][k] < last
    BY <1>1, <1>3, WaitingAre DEF InOrder
  <2>2. w[5] = <<>> BY <1>1, TheStages DEF Nos
  <2>3. last \in Nat /\ v[4] = Append(w[4], last) /\ \A b \in Stages : b # 4 => v[b] = w[b]
    BY <1>1
  <2> HIDE DEF w, v, last
  <2>4. ASSUME NEW a \in Stages PROVE Rising(v[a])
    <3>1. 4 \in Stages BY DEF Stages
    <3>2. Rising(Append(w[4], last)) BY <2>1, <2>3, <3>1, AppendedRises DEF InLine
    <3> QED BY <2>1, <2>3, <3>2 DEF InLine
  <2>5. ASSUME NEW a \in Stages, NEW k \in DOMAIN v[a]
        PROVE  \/ a = 4 /\ v[a][k] = last
               \/ \E j \in DOMAIN w[a] : v[a][k] = w[a][j]
    <3>1. CASE a = 4
      <4>1. w[4] \in Seq(Nat) BY <2>1, <3>1
      <4>2. Len(w[4]) \in Nat /\ k \in 1 .. Len(w[4]) + 1 /\ v[4] = Append(w[4], last)
        BY <2>3, <2>5, <3>1, <4>1
      <4>3. v[4][k] = IF k <= Len(w[4]) THEN w[4][k] ELSE last BY <4>1, <4>2, <2>3
      <4>4. k <= Len(w[4]) => k \in DOMAIN w[4] BY <4>1, <4>2
      <4> QED BY <3>1, <4>3, <4>4
    <3>2. CASE a # 4 BY <2>3, <2>5, <3>2
    <3> QED BY <3>1, <3>2
  <2>6. ASSUME NEW a \in Stages, NEW b \in Stages, a < b,
               NEW j \in DOMAIN v[a], NEW k \in DOMAIN v[b]
        PROVE  v[a][j] < v[b][k]
    <3>1. b # 5 \/ DOMAIN v[b] = {} BY <2>2, <2>3 DEF Stages
    <3>2. a # 4 BY <2>6, <3>1 DEF Stages
    <3>3. PICK i \in DOMAIN w[a] : v[a][j] = w[a][i] BY <2>5, <3>2
    <3>4. CASE b = 4 /\ v[b][k] = last BY <2>1, <3>3, <3>4
    <3>5. ASSUME NEW h \in DOMAIN w[b], v[b][k] = w[b][h] PROVE v[a][j] < v[b][k]
      BY <2>1, <2>6, <3>3, <3>5 DEF InLine, Ahead
    <3> QED BY <2>5, <3>4, <3>5
  <2>7. InLine(v) BY <2>4, <2>6 DEF InLine, Ahead
  <2>8. Processed' = Processed /\ expectedSeqNo' = expectedSeqNo /\ delivered' = delivered
    BY <1>1 DEF Processed, bookVars
  <2>9. ASSUME NEW a \in Stages, NEW k \in DOMAIN v[a]
        PROVE  /\ delivered # <<>> => expectedSeqNo <= v[a][k]
               /\ v[a][k] < last + 1
    <3>1. \A j \in DOMAIN w[a] : /\ w[a][j] \in Nat /\ w[a][j] < last
                                 /\ delivered # <<>> => expectedSeqNo <= w[a][j]
      BY <1>3, <2>1 DEF InOrder, w
    <3>2. last \in Nat /\ (delivered # <<>> => expectedSeqNo <= last)
      BY <1>1, <1>3 DEF InOrder, last
    <3>3. CASE v[a][k] = last BY <3>2, <3>3
    <3>4. ASSUME NEW j \in DOMAIN w[a], v[a][k] = w[a][j]
          PROVE  /\ delivered # <<>> => expectedSeqNo <= v[a][k]
                 /\ v[a][k] < last + 1
      BY <3>1, <3>2, <3>4
    <3> QED BY <2>5, <3>3, <3>4
  <2>10. delivered # <<>> /\ seqNo' # 0 => expectedSeqNo <= seqNo'
    <3>1. expectedSeqNo \in Nat BY DEF FeedTypeOK
    <3> QED BY <1>1, <1>3, <3>1 DEF InOrder
  <2> QED BY <1>1, <1>3, <2>7, <2>8, <2>9, <2>10 DEF InOrder, v, last
<1> QED BY <1>2, <1>3

LEMMA WorkerKeepsOrder ==
  ASSUME FeedTypeOK, InOrder, WorkerThread
  PROVE  InOrder'
<1> DEFINE n == Head(queue)[1].seqNo
           w == Waiting
           v == Waiting'
<1>1. /\ n \in Nat /\ w[1] \in Seq(Nat) /\ w[1] # <<>> /\ Head(w[1]) = n
      /\ v[1] = Tail(w[1]) /\ \A b \in Stages : b # 1 => v[b] = w[b]
      /\ expectedSeqNo' = n + 1 /\ Processed' = Processed \cup {n} /\ delivered' # <<>>
      /\ UNCHANGED <<seqNo, overtaken>>
  BY WorkerStep DEF CheckSequence
<1>2. seqNo \in Nat /\ expectedSeqNo \in Nat \ {0} BY DEF FeedTypeOK
<1>3. CASE overtaken BY <1>1, <1>3 DEF InOrder
<1>4. CASE ~overtaken
  <2>1. /\ \A a \in Stages : w[a] \in Seq(Nat)
        /\ InLine(w) /\ 1 \in Stages
    BY <1>4, WaitingAre DEF InOrder, Stages
  <2>2. /\ \A a \in Stages : \A k \in DOMAIN w[a] :
              /\ delivered # <<>> => expectedSeqNo <= w[a][k]
              /\ seqNo # 0 => w[a][k] < seqNo
        /\ \A x \in Processed : x < expectedSeqNo
        /\ delivered = <<>> => Processed = {}
    BY <1>4 DEF InOrder, Processed
  <2> HIDE DEF w, v, n
  <2>3. 1 \in DOMAIN w[1] /\ w[1][1] = n BY <1>1
  <2>4. /\ \A k \in DOMAIN v[1] : n < v[1][k]
        /\ \A k \in DOMAIN v[1] : \E j \in DOMAIN w[1] : v[1][k] = w[1][j]
        /\ Rising(v[1])
    BY <1>1, <2>1, TailRises DEF InLine
  <2>5. \A a \in Stages : /\ Rising(v[a])
                         /\ \A k \in DOMAIN v[a] : \E j \in DOMAIN w[a] : v[a][k] = w[a][j]
    BY <1>1, <2>1, <2>4 DEF InLine
  <2>6. InLine(v)
    <3>1. \A a \in Stages : Rising(v[a]) BY <2>5
    <3>2. \A a \in Stages : \A k \in DOMAIN v[a] : \E j \in DOMAIN w[a] : v[a][k] = w[a][j]
      BY <2>5
    <3>3. ASSUME NEW a \in Stages, NEW b \in Stages, a < b PROVE Ahead(v[a], v[b])
      <4>1. Ahead(w[a], w[b]) BY <2>1, <3>3 DEF InLine
      <4> QED BY <3>2, <4>1 DEF Ahead
    <3> QED BY <3>1, <3>3 DEF InLine
  <2>7. ASSUME NEW a \in Stages, NEW k \in DOMAIN v[a]
        PROVE  n < v[a][k]
    <3>1. CASE a = 1 BY <2>4, <2>7, <3>1
    <3>2. CASE a # 1
      <4>1. 1 < a BY <3>2 DEF Stages
      <4> QED BY <1>1, <2>1, <2>3, <3>2, <4>1 DEF InLine, Ahead
    <3> QED BY <3>1, <3>2
  <2>8. ASSUME NEW a \in Stages, NEW k \in DOMAIN v[a]
        PROVE  n + 1 <= v[a][k] /\ (seqNo # 0 => v[a][k] < seqNo)
    <3>1. PICK j \in DOMAIN w[a] : v[a][k] = w[a][j] BY <2>5
    <3>2. v[a][k] \in Nat BY <2>1, <3>1
    <3> QED BY <1>1, <2>2, <2>7, <3>1, <3>2
  <2>9. ASSUME NEW x \in Processed' PROVE x < n + 1
    <3>1. CASE x = n BY <1>1, <3>1
    <3>2. CASE x \in Processed
      <4>1. delivered # <<>> BY <2>2, <3>2
      <4>2. expectedSeqNo <= n BY <2>1, <2>2, <2>3, <4>1
      <4>3. x \in Nat /\ x < expectedSeqNo
        <5>1. \A k \in DOMAIN delivered : delivered[k][1] \in WireMessages
          BY DEF FeedTypeOK, Packets, Intact
        <5>2. x \in Nat BY <3>2, <5>1, NumberOf DEF Processed
        <5> QED BY <2>2, <3>2, <5>2
      <4> QED BY <1>1, <1>2, <4>2, <4>3
    <3> QED BY <1>1, <2>9, <3>1, <3>2
  <2>10. seqNo # 0 => n + 1 <= seqNo BY <1>1, <1>2, <2>1, <2>2, <2>3
  <2> QED BY <1>1, <2>6, <2>8, <2>9, <2>10 DEF InOrder, v
<1> QED BY <1>3, <1>4

LEMMA OrderStep == FeedTypeOK /\ InOrder /\ [Next]_feedVars => FeedTypeOK' /\ InOrder'
<1> SUFFICES ASSUME FeedTypeOK, InOrder, [Next]_feedVars PROVE FeedTypeOK' /\ InOrder'
  OBVIOUS
<1> DEFINE one == 1
           two == 2
           three == 3
           four == 4
           five == 5
<1>0. /\ one \in 1 .. 4 /\ two \in 1 .. 4 /\ three \in 1 .. 4 /\ four \in 1 .. 4
      /\ two = one + 1 /\ three = two + 1 /\ four = three + 1 /\ five = four + 1
  OBVIOUS
<1>1. ASSUME NEW type \in {"A", "X", "E"}, MockSends(type) PROVE FeedTypeOK' /\ InOrder'
  BY <1>1, MockSendsStep, MockKeepsOrder
<1>2. CASE ReplayerSends
  <2>1. /\ FeedTypeOK' /\ Moves(Waiting, Waiting', four, five)
        /\ UNCHANGED <<seqNo, bookVars, delivered, overtaken>>
    BY <1>2, ReplayerSendsStep
  <2> HIDE DEF four, five
  <2> QED BY <1>0, <2>1, MoveKeepsOrder
<1>3. ASSUME NEW i \in DOMAIN network, Lost(i) PROVE FeedTypeOK' /\ InOrder'
  BY <1>3, LostStep, LossKeepsOrder
<1>4. ASSUME NEW i \in DOMAIN network, Arrives(i) PROVE FeedTypeOK' /\ InOrder'
  <2>1. /\ FeedTypeOK' /\ i \in DOMAIN Waiting[4]
        /\ ~overtaken' => Moves(Waiting, Waiting', three, four)
             \/ /\ Waiting'[4] = RemoveAt(Waiting[4], i)
                /\ \A b \in Stages : b # 4 => Waiting'[b] = Waiting[b]
        /\ ~overtaken' => ~overtaken
        /\ UNCHANGED <<seqNo, bookVars, delivered>>
    BY <1>4, ArrivesStep
  <2>2. CASE overtaken' BY <2>1, <2>2 DEF InOrder
  <2>3. CASE Moves(Waiting, Waiting', three, four)
    <3> HIDE DEF three, four
    <3> QED BY <1>0, <2>1, <2>3, MoveKeepsOrder
  <2>4. CASE /\ Waiting'[4] = RemoveAt(Waiting[4], i)
             /\ \A b \in Stages : b # 4 => Waiting'[b] = Waiting[b]
    BY <2>1, <2>4, LossKeepsOrder
  <2> QED BY <2>1, <2>2, <2>3, <2>4
<1>5. CASE Bind BY <1>5, BindStep, NothingMoves
<1>6. CASE Receive
  <2>1. /\ FeedTypeOK' /\ Moves(Waiting, Waiting', two, three)
        /\ UNCHANGED <<seqNo, bookVars, delivered, overtaken>>
    BY <1>6, ReceiveStep
  <2> HIDE DEF two, three
  <2> QED BY <1>0, <2>1, MoveKeepsOrder
<1>7. CASE Push
  <2>1. /\ FeedTypeOK' /\ Moves(Waiting, Waiting', one, two)
        /\ UNCHANGED <<seqNo, bookVars, delivered, overtaken>>
    BY <1>7, PushStep
  <2> HIDE DEF one, two
  <2> QED BY <1>0, <2>1, MoveKeepsOrder
<1>8. CASE WorkerThread BY <1>8, WorkerStep, WorkerKeepsOrder
<1>9. CASE UNCHANGED feedVars
  <2>1. UNCHANGED <<toReplay, seqNo, network, socket, packet, at, queue, delivered,
                    bookVars, overtaken>>
    BY <1>9 DEF feedVars, publisherVars
  <2>2. FeedTypeOK' BY <2>1 DEF FeedTypeOK, bookVars
  <2>3. InPacket' = InPacket BY <2>1 DEF InPacket
  <2>4. \A b \in Stages : Waiting'[b] = Waiting[b] BY <2>1, <2>3, TheStages
  <2> QED BY <2>1, <2>2, <2>4, NothingMoves
<1> QED
  BY <1>1, <1>2, <1>3, <1>4, <1>5, <1>6, <1>7, <1>8, <1>9
  DEF Next, Network, ReceivingThread

LEMMA InitOrder == Init => InOrder
<1> SUFFICES ASSUME Init, ~overtaken
             PROVE  /\ InLine(Waiting)
                    /\ \A a \in Stages : \A k \in DOMAIN Waiting[a] :
                         seqNo # 0 => Waiting[a][k] < seqNo
  <2>1. Init => /\ delivered = <<>> /\ expectedSeqNo = 1
    BY DEF Init, Ring!Init
  <2>2. Init => Processed = {} BY <2>1 DEF Processed
  <2> QED BY <2>1, <2>2 DEF InOrder
<1>1. /\ Waiting[1] = <<>> /\ Waiting[2] = <<>> /\ Waiting[3] = <<>> /\ Waiting[4] = <<>>
  BY TheStages DEF Init, Ring!Init, Nos, InPacket
<1>2. toReplay \in Seq(WireMessages) /\ (seqNo # 0 => toReplay = <<>>)
  BY InitTypes DEF FeedTypeOK
<1>3. /\ Waiting[5] \in Seq(Nat) /\ DOMAIN Waiting[5] = DOMAIN toReplay
      /\ \A k \in DOMAIN toReplay : Waiting[5][k] = toReplay[k].seqNo
      /\ \A k \in DOMAIN toReplay : toReplay[k].seqNo \in Nat
  <2>1. \A k \in DOMAIN toReplay : toReplay[k] \in WireMessages BY <1>2
  <2>2. Nos(MessageNo, toReplay) \in Seq(Nat) BY <1>2, NumbersOf, NosAre
  <2>3. /\ DOMAIN Nos(MessageNo, toReplay) = DOMAIN toReplay
        /\ \A k \in DOMAIN toReplay : Nos(MessageNo, toReplay)[k] = toReplay[k].seqNo
    BY <2>1 DEF Nos, MessageNo
  <2>4. \A k \in DOMAIN toReplay : toReplay[k].seqNo \in Nat BY <2>1, NumberOf
  <2> QED BY <2>2, <2>3, <2>4, TheStages
<1>4. Rising(Waiting[5])
  <2>1. \A j, k \in DOMAIN toReplay : j < k => ~(toReplay[j].seqNo >= toReplay[k].seqNo)
    BY DEF Init
  <2> QED BY <1>3, <2>1 DEF Rising
<1>5. InLine(Waiting) BY <1>1, <1>4, TheStages DEF InLine, Ahead, Rising, Stages
<1>6. \A a \in Stages : a # 5 => DOMAIN Waiting[a] = {} BY <1>1, TheStages
<1>7. seqNo # 0 => DOMAIN Waiting[5] = {} BY <1>2, <1>3
<1> QED BY <1>5, <1>6, <1>7

--------------------------------------------------------------------------------
(* The account of the losses                                               *)

\* Of the numbers up to n, those neither processed nor n itself.
LEMMA GapCount ==
  ASSUME NEW P, NEW e \in Nat \ {0}, NEW n \in Nat
  PROVE  LET M == (1 .. e - 1) \ P
             N == (1 .. n) \ (P \cup {n})
             jump == IF n > e THEN n - e ELSE 0 IN
         /\ Cardinality(M) \in Nat /\ Cardinality(N) \in Nat
         /\ Cardinality(N) <= Cardinality(M) + jump
         /\ n >= e /\ (\A x \in P : x < e) => Cardinality(N) = Cardinality(M) + jump
<1> DEFINE M == (1 .. e - 1) \ P
           N == (1 .. n) \ (P \cup {n})
           G == e .. n - 1
           jump == IF n > e THEN n - e ELSE 0
<1>1. IsFiniteSet(1 .. e - 1) /\ IsFiniteSet(1 .. n) BY FS_Interval
<1>2. IsFiniteSet(M) /\ IsFiniteSet(N)
  <2>1. M \in SUBSET (1 .. e - 1) /\ N \in SUBSET (1 .. n) OBVIOUS
  <2> HIDE DEF M, N
  <2> QED BY <1>1, <2>1, FS_Subset
<1>3. IsFiniteSet(G) /\ Cardinality(G) = jump
  <2>1. e \in Int /\ n - 1 \in Int OBVIOUS
  <2>2. /\ IsFiniteSet(e .. n - 1)
        /\ Cardinality(e .. n - 1) = IF e > n - 1 THEN 0 ELSE (n - 1) - e + 1
    BY <2>1, FS_Interval
  <2> QED BY <2>2
<1>4. N \subseteq M \cup G OBVIOUS
<1>5. M \cap G = {} OBVIOUS
<1>6. ASSUME n >= e, \A x \in P : x < e PROVE N = M \cup G
  <2>1. G \cap P = {} BY <1>6
  <2>2. G \subseteq N BY <2>1
  <2>3. M \subseteq N BY <1>6
  <2> QED BY <1>4, <2>2, <2>3
<1> HIDE DEF M, N, G, jump
<1>7. Cardinality(M) \in Nat /\ Cardinality(N) \in Nat BY <1>2, FS_CardinalityType
<1>8. IsFiniteSet(M \cup G) /\ Cardinality(M \cup G) = Cardinality(M) + jump
  <2>1. jump \in Nat BY DEF jump
  <2>2. /\ IsFiniteSet(M \cup G)
        /\ Cardinality(M \cup G) = Cardinality(M) + Cardinality(G) - Cardinality(M \cap G)
    BY <1>2, <1>3, FS_Union
  <2>3. Cardinality(M \cap G) = 0 BY <1>5, FS_EmptySet
  <2> QED BY <1>3, <1>7, <2>1, <2>2, <2>3
<1>9. Cardinality(N) <= Cardinality(M \cup G) BY <1>4, <1>8, FS_Subset
<1> QED BY <1>6, <1>7, <1>8, <1>9 DEF M, N, jump

LEMMA AccountKept ==
  ASSUME LossAccounted, UNCHANGED <<bookVars, delivered>>, ~overtaken' => ~overtaken
  PROVE  LossAccounted'
<1>1. Processed' = Processed BY DEF Processed
<1>2. Missing' = Missing BY <1>1 DEF Missing, bookVars
<1> QED BY <1>2 DEF LossAccounted, bookVars

LEMMA WorkerKeepsAccount ==
  ASSUME FeedTypeOK, InOrder, LossAccounted, WorkerThread
  PROVE  LossAccounted'
<1> DEFINE n == Head(queue)[1].seqNo
           e == expectedSeqNo
           jump == IF n > e THEN n - e ELSE 0
<1>1. /\ n \in Nat /\ Waiting[1] \in Seq(Nat) /\ Waiting[1] # <<>> /\ Head(Waiting[1]) = n
      /\ totalMessagesProcessed' = totalMessagesProcessed + 1
      /\ sequenceGapsDetected' = sequenceGapsDetected + jump
      /\ expectedSeqNo' = n + 1 /\ Processed' = Processed \cup {n}
      /\ Len(delivered') = Len(delivered) + 1
      /\ UNCHANGED overtaken
  BY WorkerStep DEF CheckSequence
<1>2. e \in Nat \ {0} /\ sequenceGapsDetected \in Nat BY DEF FeedTypeOK
<1>3. Missing = (1 .. e - 1) \ Processed BY DEF Missing
<1>4. Missing' = (1 .. n) \ (Processed \cup {n})
  <2>1. (n + 1) - 1 = n BY <1>1
  <2> QED BY <1>1, <2>1 DEF Missing
<1>5. ASSUME ~overtaken
      PROVE  \/ n >= e /\ \A x \in Processed : x < e
             \/ n = 0 /\ e = 1
  <2>1. 1 \in Stages /\ 1 \in DOMAIN Waiting[1] /\ Waiting[1][1] = n BY <1>1 DEF Stages
  <2>2. delivered # <<>> => e <= n BY <1>5, <2>1 DEF InOrder
  <2>3. delivered = <<>> => e = 1 BY <1>5 DEF InOrder
  <2>4. \A x \in Processed : x < e BY <1>5 DEF InOrder
  <2> HIDE DEF n, e
  <2> QED BY <1>1, <1>2, <2>2, <2>3, <2>4
<1> HIDE DEF n, e
<1>6. /\ Cardinality(Missing) \in Nat /\ Cardinality(Missing') \in Nat
      /\ Cardinality(Missing') <= Cardinality(Missing) + jump
      /\ n >= e /\ (\A x \in Processed : x < e)
           => Cardinality(Missing') = Cardinality(Missing) + jump
  BY <1>1, <1>2, <1>3, <1>4, GapCount
<1>7. n = 0 /\ e = 1 => Missing = {} /\ Missing' = {} /\ jump = 0 BY <1>3, <1>4
<1>8. jump \in Nat BY <1>1, <1>2
<1>9. /\ sequenceGapsDetected >= Cardinality(Missing)
      /\ ~overtaken => sequenceGapsDetected = Cardinality(Missing)
      /\ totalMessagesProcessed = Len(delivered)
  BY DEF LossAccounted
<1> HIDE DEF jump
<1>10. sequenceGapsDetected' >= Cardinality(Missing')
  <2> DEFINE g == sequenceGapsDetected
             old == Cardinality(Missing)
             new == Cardinality(Missing')
  <2>1. g \in Nat /\ old \in Nat /\ new \in Nat /\ g >= old /\ new <= old + jump
    BY <1>2, <1>6, <1>9
  <2>2. sequenceGapsDetected' = g + jump BY <1>1
  <2> HIDE DEF g, old, new
  <2>3. g + jump >= new BY <1>8, <2>1
  <2> QED BY <2>2, <2>3 DEF new
<1>11. ASSUME ~overtaken' PROVE sequenceGapsDetected' = Cardinality(Missing')
  <2>1. ~overtaken BY <1>1, <1>11
  <2>2. CASE n >= e /\ \A x \in Processed : x < e
    BY <1>1, <1>6, <1>9, <2>1, <2>2
  <2>3. CASE n = 0 /\ e = 1
    <3>1. Cardinality(Missing') = Cardinality(Missing) BY <1>7, <2>3
    <3>2. jump = 0 BY <1>7, <2>3
    <3> QED BY <1>1, <1>2, <1>9, <2>1, <3>1, <3>2
  <2> QED BY <1>5, <2>1, <2>2, <2>3
<1> QED BY <1>1, <1>9, <1>10, <1>11 DEF LossAccounted

--------------------------------------------------------------------------------
(* The theorems                                                            *)

LEMMA FeedInit == Init => FeedInv
<1> SUFFICES ASSUME Init PROVE LossAccounted BY InitTypes, InitOrder DEF FeedInv
<1>1. delivered = <<>> /\ expectedSeqNo = 1 /\ sequenceGapsDetected = 0
  BY DEF Init, Ring!Init
<1>2. Missing = {} BY <1>1 DEF Missing
<1>3. Cardinality(Missing) = 0 BY <1>2, FS_EmptySet
<1> QED BY <1>1, <1>3 DEF LossAccounted, Init

LEMMA FeedStep == FeedInv /\ [Next]_feedVars => FeedInv'
<1> SUFFICES ASSUME FeedInv, [Next]_feedVars PROVE FeedInv' OBVIOUS
<1>0. FeedTypeOK /\ InOrder /\ LossAccounted BY DEF FeedInv
<1>1. FeedTypeOK' /\ InOrder' BY <1>0, OrderStep
<1>2. CASE WorkerThread BY <1>0, <1>1, <1>2, WorkerKeepsAccount DEF FeedInv
<1>3. CASE UNCHANGED <<bookVars, delivered>> /\ (~overtaken' => ~overtaken)
  BY <1>0, <1>1, <1>3, AccountKept DEF FeedInv
<1>4. ASSUME NEW type \in {"A", "X", "E"}, MockSends(type)
      PROVE  UNCHANGED <<bookVars, delivered, overtaken>>
  BY <1>0, <1>4, MockSendsStep
<1>5. ReplayerSends => UNCHANGED <<bookVars, delivered, overtaken>> BY DEF ReplayerSends
<1>6. ASSUME NEW i \in DOMAIN network, Arrives(i) \/ Lost(i)
      PROVE  UNCHANGED <<bookVars, delivered>> /\ (~overtaken' => ~overtaken)
  BY <1>0, <1>6, ArrivesStep, LostStep
<1>7. ReceivingThread => UNCHANGED <<bookVars, delivered, overtaken>>
  BY DEF ReceivingThread, Bind, Receive, Push, Ring!Enqueue
<1>8. UNCHANGED feedVars => UNCHANGED <<bookVars, delivered, overtaken>> BY DEF feedVars
<1>9. WorkerThread \/ (UNCHANGED <<bookVars, delivered>> /\ (~overtaken' => ~overtaken))
  <2>1. CASE \E type \in {"A", "X", "E"} : MockSends(type) BY <1>4, <2>1
  <2>2. CASE ReplayerSends BY <1>5, <2>2
  <2>3. CASE Network BY <1>6, <2>3 DEF Network
  <2>4. CASE ReceivingThread BY <1>7, <2>4
  <2>5. CASE UNCHANGED feedVars BY <1>8, <2>5
  <2> QED BY <2>1, <2>2, <2>3, <2>4, <2>5 DEF Next
<1> QED BY <1>2, <1>3, <1>9

\* The types, the order of the five queues between the publisher and the worker thread,
\* and the account of the losses hold in every reachable state of live mode.
THEOREM FeedInvariant == Spec => []FeedInv
BY FeedInit, FeedStep, PTL DEF Spec

\* Whatever datagrams the socket brought before into the one receive buffer, the worker
\* thread takes out of the ring only messages whose every field came with them.
THEOREM MessagesStayWhole == Spec => []WholeMessagesOnly
<1>1. FeedInv => WholeMessagesOnly
  <2> SUFFICES ASSUME FeedInv, NEW k \in DOMAIN delivered
               PROVE  \A s \in Covered(SizeOf[delivered[k][1].msgType]) :
                        delivered[k][s] = delivered[k][1]
    BY DEF WholeMessagesOnly
  <2>1. delivered \in Seq(Packets) BY DEF FeedInv, FeedTypeOK
  <2>2. delivered[k] \in Packets BY <2>1
  <2> QED BY <2>2 DEF Packets, Intact
<1> QED BY <1>1, FeedInvariant, PTL

\* However many datagrams are lost, before the bind, in the network or at a full socket,
\* the book's gap counter is at least the number of messages that are missing below the
\* expected one, and exactly that number unless a message overtook another.
THEOREM LossesAccounted == Spec => []LossAccounted
<1>1. FeedInv => LossAccounted BY DEF FeedInv
<1> QED BY <1>1, FeedInvariant, PTL

================================================================================
