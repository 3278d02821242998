-------------------------------- MODULE Orders --------------------------------
(***************************************************************************)
(* A line of the customer on its way to the cooks: Parser::parse, the      *)
(* order callback of main, the loop of dispatch, the serializer at both    *)
(* ends of the queue, and the factory of the kitchen.                      *)
(*                                                                         *)
(* A line is a sequence of symbols: a whole word, a letter of a size or of *)
(* a number, a digit, a blank, or ";".  No built-in type ends in a letter  *)
(* of a size, so that a word never gives its end away to the size.         *)
(*                                                                         *)
(* int and size_t have a largest value, and int wraps around behind it.    *)
(***************************************************************************)
EXTENDS Integers, Sequences, FiniteSets, SequencesExt, Menu

CONSTANTS
    Lines,      \* bound: the lines that are tried
    MaxInt,     \* the largest int
    MaxSizeT    \* the largest size_t

ASSUME OrdersAssumption ==
    Lines \subseteq Seq(STRING) /\ MaxInt \in Nat /\ MaxSizeT \in Nat

VARIABLES
    line,
    pc,         \* "typed", "rejected", "parsed", "dispatch" or "sent"
    orders,     \* what Parser::parse returned
    noted,      \* the pizzas to wait for in pendingOrders; 0 if not noted
    at,         \* the order and the pizza of it that dispatch sends next
    wire,       \* packed pizzas in order queues
    made        \* history: the recipes that the factory gave to the cooks

vars == <<line, pc, orders, noted, at, wire, made>>

-----------------------------------------------------------------------------
(* Parser.                                                                 *)
Types == [regina |-> "Regina", margarita |-> "Margarita",
          americana |-> "Americana", fantasia |-> "Fantasia"]

Spelling == [S |-> <<"s">>, M |-> <<"m">>, L |-> <<"l">>,
             XL |-> <<"x", "l">>, XXL |-> <<"x", "x", "l">>]

Digits == <<"0", "1", "2", "3", "4", "5", "6", "7", "8", "9">>
Digit == {Digits[n] : n \in DOMAIN Digits}
Small == [S |-> "s", M |-> "m", L |-> "l", X |-> "x", REGINA |-> "regina"]
Letter == DOMAIN Types \cup DOMAIN Small \cup {"pizza", "s", "m", "l", "x"}

\* toLower, and std::regex::icase.
Lower(c) == IF c \in DOMAIN Small THEN Small[c] ELSE c
InLower(s) == [i \in DOMAIN s |-> Lower(s[i])]

Blank == " "
Semicolon == ";"

Upto(s, n) == SubSeq(s, 1, n)
After(s, n) == SubSeq(s, n + 1, Len(s))

Trim(s) ==
    LET text == {i \in DOMAIN s : s[i] # Blank} IN
    IF text = {} THEN <<>> ELSE SubSeq(s, Min(text), Max(text))

\* What stands between the semicolons.
Pieces(l) ==
    LET ends == {i \in DOMAIN l : l[i] = Semicolon} \cup {Len(l) + 1}
        Place == 1 .. Cardinality(ends)
        end == CHOOSE s \in [Place -> ends] : \A i, j \in Place : i < j => s[i] < s[j]
    IN  [k \in Place |-> SubSeq(l, (IF k = 1 THEN 0 ELSE end[k - 1]) + 1, end[k] - 1)]

\* The pieces as std::getline delivers them: an empty one at the end is none.
Segments(l) ==
    LET pieces == Pieces(l) IN
    IF Last(pieces) = <<>> THEN Front(pieces) ELSE pieces

IsNumber(s) ==
    /\ Len(s) >= 2
    /\ Lower(s[1]) = "x" /\ s[2] # "0"
    /\ \A i \in 2 .. Len(s) : s[i] \in Digit

DigitValue(d) == (CHOOSE n \in DOMAIN Digits : Digits[n] = d) - 1

Value(digits) ==
    LET value[n \in 0 .. Len(digits)] ==
            IF n = 0 THEN 0 ELSE 10 * value[n - 1] + DigitValue(digits[n])
    IN  value[Len(digits)]

\* s ends in this size and a number, behind its first i symbols.
SizeFollows(s, i, size) ==
    LET r == Trim(After(s, i))
        n == Len(Spelling[size])
    IN  Len(r) > n /\ InLower(Upto(r, n)) = Spelling[size] /\ IsNumber(Trim(After(r, n)))

\* The regular expression of parseLine, anchored at both ends: where the type
\* may end.
TypeEnds(s) ==
    {i \in DOMAIN s : /\ \A j \in 1 .. i : s[j] \in Letter
                      /\ \E size \in DOMAIN Spelling : SizeFollows(s, i, size)}

NoOrder == [quantity |-> 0]

\* parseLine: the shortest type, parseSize, and parseNumber, whose stoul
\* throws on what a size_t cannot hold.  An exception is NoOrder.
ParseLine(segment) ==
    LET s == Trim(segment) IN
    IF TypeEnds(s) = {} THEN NoOrder
    ELSE LET end == Min(TypeEnds(s))
             word == InLower(Upto(s, end))
             size == CHOOSE z \in DOMAIN Spelling : SizeFollows(s, end, z)
             n == Value(After(Trim(After(Trim(After(s, end)), Len(Spelling[size]))), 1))
         IN  IF Len(word) = 1 /\ word[1] \in DOMAIN Types /\ n <= MaxSizeT
             THEN [type |-> Types[word[1]], size |-> size, quantity |-> n]
             ELSE NoOrder

\* Mutant: a semicolon at the end goes unnoticed, as getline does not notice it.
ParseOpen(l) ==
    LET segments == Segments(l) IN
    IF \E k \in DOMAIN segments : ParseLine(segments[k]) = NoOrder THEN <<>>
    ELSE [k \in DOMAIN segments |-> ParseLine(segments[k])]

\* parse; <<>> stands for any of its exceptions.
Parse(l) ==
    LET text == Trim(l)
        segments == Segments(l)
    IN  IF \/ text # <<>> /\ Last(text) = Semicolon
           \/ \E k \in DOMAIN segments : ParseLine(segments[k]) = NoOrder
        THEN <<>>
        ELSE [k \in DOMAIN segments |-> ParseLine(segments[k])]

-----------------------------------------------------------------------------
(* Pizza.hpp, the serializer and the factory.                              *)
TypeCode == [Regina |-> 1, Margarita |-> 2, Americana |-> 4, Fantasia |-> 8]
SizeCode == [S |-> 1, M |-> 2, L |-> 4, XL |-> 8, XXL |-> 16]

\* Mutant: the two bytes change places.
PackSwapped(type, size) == <<SizeCode[size], TypeCode[type]>>

Pack(type, size) == <<TypeCode[type], SizeCode[size]>>

\* The enumerators with these codes: a cast yields one that may have no name.
Unpack(bytes) ==
    [type |-> {t \in DOMAIN TypeCode : TypeCode[t] = bytes[1]},
     size |-> {z \in DOMAIN SizeCode : SizeCode[z] = bytes[2]}]

\* PizzaFactory::create with withSize: a copy of the prototype of the type;
\* none (it throws) if nobody registered the type.
Create(pizza) ==
    {[type |-> t, size |-> z, needs |-> Recipe[t]] :
        t \in pizza.type \cap DOMAIN Recipe, z \in pizza.size}

-----------------------------------------------------------------------------
OrdersInit ==
    /\ line \in Lines
    /\ pc = "typed"
    /\ orders = <<>> /\ noted = 0 /\ at = <<1, 1>>
    /\ wire = <<>> /\ made = <<>>

AcceptLine ==
    /\ pc = "typed" /\ Parse(line) # <<>>
    /\ orders' = Parse(line)
    /\ pc' = "parsed"
    /\ UNCHANGED <<line, noted, at, wire, made>>

\* The exception passes through handleLine and ends the program.
RejectLine ==
    /\ pc = "typed" /\ Parse(line) = <<>>
    /\ pc' = "rejected"
    /\ UNCHANGED <<line, orders, noted, at, wire, made>>

\* The values of an int, and what n becomes in one.
IntRange == 2 * (MaxInt + 1)
AsInt(n) == LET m == n % IntRange IN IF m <= MaxInt THEN m ELSE m - IntRange

\* The sum of the order callback wraps around in the build (as an overflow of
\* int it is undefined).
Total ==
    LET sum[n \in 0 .. Len(orders)] ==
            IF n = 0 THEN 0 ELSE AsInt(sum[n - 1] + AsInt(orders[n].quantity))
    IN  sum[Len(orders)]

\* Mutant: a total that is not positive is noted.
NoteOrderAnyway ==
    /\ pc = "parsed"
    /\ noted' = Total
    /\ pc' = "dispatch"
    /\ UNCHANGED <<line, orders, at, wire, made>>

NoteOrder ==
    /\ pc = "parsed"
    /\ noted' = IF Total > 0 THEN Total ELSE 0
    /\ pc' = "dispatch"
    /\ UNCHANGED <<line, orders, at, wire, made>>

\* One turn of the loops of dispatch.
SendPizza ==
    /\ pc = "dispatch" /\ at[1] \in DOMAIN orders
    /\ LET o == orders[at[1]] IN
        /\ wire' = Append(wire, Pack(o.type, o.size))
        /\ at' = IF at[2] < o.quantity THEN <<at[1], at[2] + 1>> ELSE <<at[1] + 1, 1>>
    /\ UNCHANGED <<line, pc, orders, noted, made>>

FinishDispatch ==
    /\ pc = "dispatch" /\ at[1] \notin DOMAIN orders
    /\ pc' = "sent"
    /\ UNCHANGED <<line, orders, noted, at, wire, made>>

\* handlePacket of a kitchen, as soon as it likes.
TakePizza ==
    /\ wire # <<>>
    /\ wire' = Tail(wire)
    /\ made' = Append(made, Create(Unpack(Head(wire))))
    /\ UNCHANGED <<line, pc, orders, noted, at>>

Finished == pc \in {"rejected", "sent"} /\ wire = <<>> /\ UNCHANGED vars

OrdersNext ==
    \/ AcceptLine \/ RejectLine
    \/ NoteOrder \/ SendPizza \/ FinishDispatch
    \/ TakePizza
    \/ Finished

OrdersSpec == OrdersInit /\ [][OrdersNext]_vars

-----------------------------------------------------------------------------
(* What a line means, apart from how the parser finds it out.  The pattern *)
(* of parseLine is the grammar of doc/subject.md made wider: its letters   *)
(* in any case, blanks around the tokens.  These are all the orders that a *)
(* piece can be read as.                                                   *)
Meanings(piece) ==
    UNION {
        LET type == InLower(Trim(Upto(piece, i)))
            size == InLower(Trim(SubSeq(piece, i + 1, j)))
            number == InLower(Trim(After(piece, j)))
        IN  {[type |-> Types[t], size |-> z, quantity |-> Value(Tail(number))] :
                t \in {t \in DOMAIN Types : type = <<t>> /\ IsNumber(number)},
                z \in {z \in DOMAIN Spelling : size = Spelling[z]}}
        : i, j \in 0 .. Len(piece)}

\* TYPE SIZE NUMBER by the letter of doc/subject.md: the size in capitals, a
\* small x before a number that has digits, and nothing in between.
Capitals == [S |-> <<"S">>, M |-> <<"M">>, L |-> <<"L">>,
             XL |-> <<"X", "L">>, XXL |-> <<"X", "X", "L">>]

Derives(piece, size) ==
    LET n == Len(Capitals[size]) + 1
        number == After(piece, n)
    IN  /\ Len(piece) > n
        /\ Lower(piece[1]) \in DOMAIN Types
        /\ SubSeq(piece, 2, n) = Capitals[size]
        /\ IsNumber(number) /\ number[1] = "x"

Derived(piece) ==
    {[type |-> Types[Lower(piece[1])], size |-> z,
      quantity |-> Value(After(piece, Len(Capitals[z]) + 2))] :
        z \in {z \in DOMAIN Capitals : Derives(piece, z)}}

\* A line is accepted when each of its pieces has a meaning, in one way only,
\* and is taken for these orders, in this order: no reading of a type with a
\* size behind it, no empty piece and no number out of range slips through.
\* The wider language takes nothing from the documented one: a line that the
\* subject derives is accepted, for the orders it derives.  (The converse is
\* not claimed: the code accepts "reginas x1", the subject does not.)
ParsedAsMeant ==
    pc # "typed" =>
        LET pieces == Pieces(line)
            fits(o) == o.quantity <= MaxSizeT
            meant == \A k \in DOMAIN pieces : \E o \in Meanings(pieces[k]) : fits(o)
            derived == \A k \in DOMAIN pieces : \E o \in Derived(pieces[k]) : fits(o)
        IN  /\ pc = "rejected" <=> ~meant
            /\ meant => /\ Len(orders) = Len(pieces)
                        /\ \A k \in DOMAIN pieces : Meanings(pieces[k]) = {orders[k]}
            /\ derived => /\ pc # "rejected"
                          /\ \A k \in DOMAIN pieces : Derived(pieces[k]) = {orders[k]}

Ordered ==
    LET sum[n \in 0 .. Len(orders)] ==
            IF n = 0 THEN 0 ELSE sum[n - 1] + orders[n].quantity
    IN  sum[Len(orders)]

\* As long as the total fits into an int, the pizzas noted are the pizzas
\* dispatched.  A total that does not fit is noted for less, or not at all: no
\* order ever waits for a pizza that was not sent.
NotedIsSent ==
    pc \in {"dispatch", "sent"} =>
        /\ Ordered <= MaxInt => noted = Ordered
        /\ noted \in 0 .. Ordered

\* The pizzas of all orders, one after the other.
AllPizzas ==
    FlattenSeq([k \in DOMAIN orders |->
        [i \in 1 .. orders[k].quantity |->
            [type |-> orders[k].type, size |-> orders[k].size,
             needs |-> Recipe[orders[k].type]]]])

\* What the kitchens make is what was ordered: the type, the size and the
\* number survive the queue and the factory, and a rejected line makes nothing.
MadeIsOrdered ==
    /\ Len(made) <= Len(AllPizzas)
    /\ \A i \in DOMAIN made : made[i] = {AllPizzas[i]}
    /\ pc = "sent" /\ wire = <<>> => Len(made) = Len(AllPizzas)
=============================================================================
