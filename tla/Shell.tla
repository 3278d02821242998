-------------------------------- MODULE Shell --------------------------------
(***************************************************************************)
(* Shell::run: the reception's loop around select and std::getline.        *)
(*                                                                         *)
(* The input passes through two buffers before a line is handled:          *)
(*   pipe     what was typed and not read yet; select looks here           *)
(*   buffer   what stdin has read ahead; std::getline looks here first     *)
(* std::cin is synchronized with stdio: it is stdin's buffer that getline  *)
(* empties, and refills with one read(2).  On a terminal a read returns    *)
(* one line, and none before its end was typed; on a pipe it returns       *)
(* whatever there is, be it half a line or three.                          *)
(*                                                                         *)
(* A line is a sequence of symbols and its end.  "order" stands for the    *)
(* text of any valid order, "wrong" for any other text that is neither an  *)
(* order nor a status command nor blank (module Orders has the parser).    *)
(***************************************************************************)
EXTENDS Naturals, Sequences

CONSTANT MaxText    \* bound: symbols typed

NL == "end of line"
Symbol == {"order", "status", "wrong", " ", NL}

ASSUME ShellAssumption == MaxText \in Nat

VARIABLES
    tty,        \* stdin is a terminal
    pipe, buffer,
    closed,     \* the input was closed
    pc,         \* where Shell::run is
    line,       \* what getline has collected, and then what is being handled
    thrown,     \* an exception has left Shell::run
    news,       \* a kitchen has sent something that nobody has read
    typed,      \* history: everything typed
    consumed,   \* history: everything that was handled
    handled     \* history: the number of lines handled

inputVars == <<tty, pipe, closed, typed>>
vars == <<inputVars, buffer, pc, line, thrown, news, consumed, handled>>

LineEnds(s) == {i \in DOMAIN s : s[i] = NL}

\* The position of the first end of line.
FirstEnd(s) == CHOOSE i \in LineEnds(s) : \A j \in LineEnds(s) : i <= j

Upto(s, n) == SubSeq(s, 1, n)
After(s, n) == SubSeq(s, n + 1, Len(s))

ShellInit ==
    /\ tty \in BOOLEAN
    /\ pipe = <<>> /\ buffer = <<>> /\ closed = FALSE
    /\ pc = "select" /\ line = <<>> /\ thrown = FALSE
    /\ news = FALSE
    /\ typed = <<>> /\ consumed = <<>> /\ handled = 0

-----------------------------------------------------------------------------
(* The customer, and the kitchens.                                         *)
Type(symbol) ==
    /\ ~closed /\ Len(typed) < MaxText
    /\ typed' = Append(typed, symbol)
    /\ pipe' = Append(pipe, symbol)
    /\ UNCHANGED <<tty, buffer, closed, pc, line, thrown, news, consumed, handled>>

CloseInput ==
    /\ ~closed
    /\ closed' = TRUE
    /\ UNCHANGED <<tty, pipe, typed, buffer, pc, line, thrown, news, consumed, handled>>

KitchenSends ==
    /\ ~news
    /\ news' = TRUE
    /\ UNCHANGED <<inputVars, buffer, pc, line, thrown, consumed, handled>>

-----------------------------------------------------------------------------
(* The kernel's side of stdin.                                             *)

\* select says that a read would not block.
Readable == closed \/ (IF tty THEN LineEnds(pipe) # {} ELSE pipe # <<>>)

\* How much one read returns.
Chunk == IF tty /\ LineEnds(pipe) # {} THEN FirstEnd(pipe) ELSE Len(pipe)

-----------------------------------------------------------------------------
(* Shell::run.                                                             *)
SelectReady ==
    /\ pc = "select"
    /\ Readable
    /\ pc' = "getline"
    /\ UNCHANGED <<inputVars, buffer, line, thrown, news, consumed, handled>>

\* Mutant: the poll is left out.
SelectTimeoutWithoutPoll ==
    /\ pc = "select"
    /\ ~Readable
    /\ UNCHANGED vars

\* 100 ms of silence: pollCb_, which reads what the kitchens have sent.
SelectTimeout ==
    /\ pc = "select"
    /\ ~Readable
    /\ news' = FALSE
    /\ UNCHANGED <<inputVars, buffer, pc, line, thrown, consumed, handled>>

\* select returns -1 (a signal that is handled interrupts it): neither branch
\* is taken, readable or not, and the loop looks again.
SelectFails ==
    /\ pc = "select"
    /\ UNCHANGED vars

\* Mutant: what was read ahead is thrown away with the line.
GetLineAlone ==
    /\ pc = "getline"
    /\ LineEnds(buffer) # {}
    /\ line' = line \o Upto(buffer, FirstEnd(buffer))
    /\ buffer' = <<>>
    /\ pc' = "handle"
    /\ UNCHANGED <<inputVars, thrown, news, consumed, handled>>

\* getline finds the end of the line in the buffer.
GetLine ==
    /\ pc = "getline"
    /\ LineEnds(buffer) # {}
    /\ line' = line \o Upto(buffer, FirstEnd(buffer))
    /\ buffer' = After(buffer, FirstEnd(buffer))
    /\ pc' = "handle"
    /\ UNCHANGED <<inputVars, thrown, news, consumed, handled>>

\* getline takes the whole buffer and reads on; it waits here for the rest of
\* the line, whatever happens in the kitchens.
Refill ==
    /\ pc = "getline"
    /\ LineEnds(buffer) = {}
    /\ pipe # <<>> /\ Readable
    /\ line' = line \o buffer
    /\ buffer' = Upto(pipe, Chunk)
    /\ pipe' = After(pipe, Chunk)
    /\ UNCHANGED <<tty, closed, typed, pc, thrown, news, consumed, handled>>

AtEndOfInput ==
    /\ pc = "getline"
    /\ LineEnds(buffer) = {} /\ pipe = <<>> /\ closed

\* At the end of the input getline still delivers a line without its end.
GetLastLine ==
    /\ AtEndOfInput
    /\ line \o buffer # <<>>
    /\ line' = line \o buffer
    /\ buffer' = <<>>
    /\ pc' = "handle"
    /\ UNCHANGED <<inputVars, thrown, news, consumed, handled>>

\* getline fails: the loop is left.
EndOfInput ==
    /\ AtEndOfInput
    /\ line \o buffer = <<>>
    /\ pc' = "ended"
    /\ UNCHANGED <<inputVars, buffer, line, thrown, news, consumed, handled>>

-----------------------------------------------------------------------------
(* Shell::handleLine.                                                      *)

\* The text of a line, without blanks behind it (blanks before it stay).
Trimmed(l) ==
    LET text == {i \in DOMAIN l : l[i] \notin {" ", NL}} IN
    IF text = {} THEN <<>>
    ELSE Upto(l, CHOOSE i \in text : \A j \in text : j <= i)

\* The parser skips blanks, also before the order; the comparison with
\* "status" does not.
Meaning(l) ==
    LET t == Trimmed(l) IN
    IF t = <<>> THEN "blank"
    ELSE IF t = <<"status">> THEN "status"
    ELSE IF t[Len(t)] = "order" /\ \A i \in 1 .. Len(t) - 1 : t[i] = " " THEN "order"
    ELSE "wrong"

LineIsDone ==
    /\ consumed' = consumed \o line
    /\ handled' = handled + 1
    /\ line' = <<>>

HandleBlank ==
    /\ pc = "handle" /\ Meaning(line) = "blank"
    /\ LineIsDone
    /\ pc' = "select"
    /\ UNCHANGED <<inputVars, buffer, thrown, news>>

\* The status and the order callback, both of which read the results of the
\* kitchens first (getStatus, updateKitchens).
HandleCommand ==
    /\ pc = "handle" /\ Meaning(line) \in {"status", "order"}
    /\ LineIsDone
    /\ news' = FALSE
    /\ pc' = "select"
    /\ UNCHANGED <<inputVars, buffer, thrown>>

\* Parser::parse throws; the handler of handleLine throws again, and the
\* exception ends the loop and, with it, the program.
HandleWrong ==
    /\ pc = "handle" /\ Meaning(line) = "wrong"
    /\ LineIsDone
    /\ thrown' = TRUE
    /\ pc' = "ended"
    /\ UNCHANGED <<inputVars, buffer, news>>

\* A callback throws (a queue, a fork, a packet fails).
CallbackThrows ==
    /\ \/ pc = "handle" /\ Meaning(line) \in {"status", "order"} /\ LineIsDone
       \/ pc = "select" /\ ~Readable /\ UNCHANGED <<line, consumed, handled>>
    /\ thrown' = TRUE
    /\ pc' = "ended"
    /\ UNCHANGED <<inputVars, buffer, news>>

-----------------------------------------------------------------------------
Run ==
    \/ SelectReady \/ SelectTimeout
    \/ GetLine \/ Refill \/ GetLastLine \/ EndOfInput
    \/ HandleBlank \/ HandleCommand \/ HandleWrong

Outside ==
    \/ \E symbol \in Symbol : Type(symbol)
    \/ CloseInput
    \/ KitchenSends

Ended == pc = "ended" /\ UNCHANGED vars

ShellNext == Run \/ SelectFails \/ CallbackThrows \/ Outside \/ Ended

\* The thread runs and select does not fail for ever; the customer may stop
\* typing, in the middle of a line too.
ShellSpec == ShellInit /\ [][ShellNext]_vars /\ WF_vars(Run)

-----------------------------------------------------------------------------
\* The state has its types, and line holds at most one line: getline and
\* handleLine never see a second one behind it, nor a rest of the one before.
ShellTypeOK ==
    /\ tty \in BOOLEAN /\ closed \in BOOLEAN /\ thrown \in BOOLEAN /\ news \in BOOLEAN
    /\ pc \in {"select", "getline", "handle", "ended"}
    /\ pipe \in Seq(Symbol) /\ buffer \in Seq(Symbol) /\ line \in Seq(Symbol)
    /\ typed \in Seq(Symbol) /\ consumed \in Seq(Symbol)
    /\ handled \in Nat
    /\ LineEnds(line) \subseteq {Len(line)}
    /\ pc = "getline" => LineEnds(line) = {}
    /\ pc = "select" => line = <<>>

\* However the input arrives in pieces, every symbol typed is handled, being
\* handled, read ahead, or still to be read, once and in this order.
InputConserved == typed = consumed \o line \o buffer \o pipe

\* Unless an exception ended it, the program has handled all of the input when
\* it ends, the last line without an end included.
NothingLeftAtEnd == pc = "ended" /\ ~thrown => consumed = typed

\* A line that stdin has read ahead while select looks at an empty pipe.
Backlogged ==
    /\ ~tty /\ ~closed
    /\ pc = "select" /\ pipe = <<>> /\ LineEnds(buffer) # {}

Lines(s) == Len(SelectSeq(s, LAMBDA x : x = NL))

\* A line typed is handled in time, or else it came through a pipe in one read
\* with the line before it, and waits for more input: select never looks at
\* what getline has read ahead.
EveryLineIsHandled ==
    \A n \in 1 .. MaxText :
        Lines(typed) >= n ~> handled >= n \/ Backlogged \/ pc = "ended"

\* getline waits for the rest of a line that somebody has begun to send.
HalfALine ==
    /\ ~tty /\ ~closed
    /\ pc = "getline" /\ pipe = <<>> /\ LineEnds(buffer) = {}

\* What a kitchen sends is read: by a poll, or before an order or a status.  A
\* writer that stops in the middle of a line is the one thing that stops it.
KitchensAreRead ==
    \/ []<>(~news \/ pc = "ended")
    \/ <>[]HalfALine

=============================================================================
