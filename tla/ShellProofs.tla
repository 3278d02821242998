----------------------------- MODULE ShellProofs -----------------------------
(***************************************************************************)
(* For a text of any length, however it is cut into reads: the line being  *)
(* handled is one line, no symbol is lost or taken twice between the pipe, *)
(* the buffer and the handler, and an orderly end leaves nothing unread.   *)
(***************************************************************************)
EXTENDS Shell, SequenceTheorems, WellFoundedInduction, TLAPS

\* The loop ends without an exception only when both buffers are empty and
\* nothing more can be typed.
EndedAtEnd ==
    pc = "ended" /\ ~thrown => closed /\ line = <<>> /\ buffer = <<>> /\ pipe = <<>>

ShellInvariant == ShellTypeOK /\ InputConserved /\ EndedAtEnd

-----------------------------------------------------------------------------
(* Lines and pieces of the text.                                           *)

\* A text with an end of line has a first one.
LEMMA FirstEndIsFirst ==
    ASSUME NEW s \in Seq(Symbol), LineEnds(s) # {}
    PROVE  /\ FirstEnd(s) \in 1 .. Len(s)
           /\ s[FirstEnd(s)] = NL
           /\ \A i \in 1 .. Len(s) : s[i] = NL => FirstEnd(s) <= i
<1>1. LineEnds(s) \subseteq Nat /\ DOMAIN s = 1 .. Len(s) /\ Len(s) \in Nat
  BY LenProperties DEF LineEnds
<1>2. PICK i \in LineEnds(s) : \A j \in LineEnds(s) : ~(<<j, i>> \in OpToRel(<, Nat))
  BY <1>1, NatLessThanWellFounded, WFMin, Zenon
<1>3. \A j \in LineEnds(s) : i <= j
  <2> SUFFICES ASSUME NEW j \in LineEnds(s)
               PROVE  i <= j
    OBVIOUS
  <2>1. i \in Nat /\ j \in Nat
    BY <1>1
  <2>2. ~(j < i)
    <3>1. SUFFICES ASSUME j < i PROVE FALSE
      OBVIOUS
    <3>2. <<j, i>> \in Nat \X Nat
      BY <2>1
    <3>3. <<j, i>>[1] < <<j, i>>[2]
      BY <3>1
    <3>4. <<j, i>> \in OpToRel(<, Nat)
      BY <3>2, <3>3, Zenon DEF OpToRel
    <3> QED
      BY <1>2, <3>4, Zenon
  <2> QED
    BY <2>1, <2>2
<1>4. FirstEnd(s) \in LineEnds(s) /\ \A j \in LineEnds(s) : FirstEnd(s) <= j
  BY <1>3 DEF FirstEnd
<1> QED
  BY <1>1, <1>4 DEF LineEnds

\* What a read takes and what it leaves make up what was there.
LEMMA Split ==
    ASSUME NEW s \in Seq(Symbol), NEW n \in 0 .. Len(s)
    PROVE  /\ Upto(s, n) \in Seq(Symbol) /\ After(s, n) \in Seq(Symbol)
           /\ Len(Upto(s, n)) = n
           /\ \A i \in 1 .. n : Upto(s, n)[i] = s[i]
           /\ Upto(s, n) \o After(s, n) = s
<1>1. Len(s) \in Nat /\ \A i \in 1 .. Len(s) : s[i] \in Symbol
  BY LenProperties, ElementOfSeq
<1>2. /\ Upto(s, n) \in Seq(Symbol) /\ Len(Upto(s, n)) = n
      /\ \A i \in 1 .. n : Upto(s, n)[i] = s[i]
  <2>1. \A i \in 1 .. n : s[i] \in Symbol
    BY <1>1
  <2> QED
    BY <1>1, <2>1, SubSeqProperties DEF Upto
<1>3. After(s, n) \in Seq(Symbol)
  <2>1. \A i \in n + 1 .. Len(s) : s[i] \in Symbol
    BY <1>1
  <2> QED
    BY <1>1, <2>1, SubSeqProperties DEF After
<1>4. Upto(s, n) \o After(s, n) = SubSeq(s, 1, Len(s))
  <2>1. /\ 1 \in 1 .. Len(s) + 1
        /\ n \in 1 - 1 .. Len(s)
        /\ Len(s) \in n .. Len(s)
    BY <1>1
  <2>2. SubSeq(s, 1, n) \o SubSeq(s, n + 1, Len(s)) = SubSeq(s, 1, Len(s))
    BY <2>1, ConcatAdjacentSubSeq, Zenon
  <2> QED
    BY <2>2 DEF Upto, After
<1> QED
  BY <1>2, <1>3, <1>4, SubSeqFull

\* Two texts without an end of line have none together.
LEMMA JoinWithoutEnd ==
    ASSUME NEW s \in Seq(Symbol), NEW t \in Seq(Symbol),
           LineEnds(s) = {}, LineEnds(t) = {}
    PROVE  LineEnds(s \o t) = {}
<1>1. /\ s \o t \in Seq(Symbol) /\ Len(s \o t) = Len(s) + Len(t)
      /\ \A i \in 1 .. Len(s) + Len(t) :
            (s \o t)[i] = IF i <= Len(s) THEN s[i] ELSE t[i - Len(s)]
  BY ConcatProperties
<1>2. /\ Len(s) \in Nat /\ DOMAIN s = 1 .. Len(s)
      /\ Len(t) \in Nat /\ DOMAIN t = 1 .. Len(t)
      /\ DOMAIN (s \o t) = 1 .. Len(s) + Len(t)
  BY <1>1, LenProperties
<1>3. SUFFICES ASSUME NEW i \in 1 .. Len(s) + Len(t), (s \o t)[i] = NL
               PROVE  FALSE
  BY <1>2 DEF LineEnds
<1>4. CASE i <= Len(s)
  BY <1>1, <1>2, <1>3, <1>4 DEF LineEnds
<1>5. CASE i > Len(s)
  <2>1. i - Len(s) \in 1 .. Len(t) /\ t[i - Len(s)] = NL
    BY <1>1, <1>2, <1>3, <1>5
  <2> QED
    BY <1>2, <2>1 DEF LineEnds
<1> QED
  BY <1>2, <1>4, <1>5

\* A text without an end of line and a first line behind it make one line.
LEMMA JoinFirstLine ==
    ASSUME NEW s \in Seq(Symbol), NEW t \in Seq(Symbol),
           LineEnds(s) = {}, LineEnds(t) # {}
    PROVE  LET l == s \o Upto(t, FirstEnd(t))
           IN  l \in Seq(Symbol) /\ LineEnds(l) \subseteq {Len(l)}
<1> DEFINE n == FirstEnd(t)
           u == Upto(t, n)
           l == s \o u
<1>1. /\ n \in 1 .. Len(t) /\ Len(t) \in Nat
      /\ \A i \in 1 .. Len(t) : t[i] = NL => n <= i
  BY FirstEndIsFirst, LenProperties
<1>2. n \in 0 .. Len(t)
  BY <1>1
<1>3. u \in Seq(Symbol) /\ Len(u) = n /\ \A i \in 1 .. n : u[i] = t[i]
  BY <1>2, Split
<1> HIDE DEF n, u
<1>4. /\ l \in Seq(Symbol) /\ Len(l) = Len(s) + n
      /\ \A i \in 1 .. Len(s) + n : l[i] = IF i <= Len(s) THEN s[i] ELSE u[i - Len(s)]
  BY <1>3, ConcatProperties
<1>5. /\ Len(s) \in Nat /\ DOMAIN s = 1 .. Len(s) /\ DOMAIN l = 1 .. Len(s) + n
  BY <1>4, LenProperties
<1> HIDE DEF l
<1>6. ASSUME NEW i \in 1 .. Len(s) + n, l[i] = NL
      PROVE  i = Len(s) + n
  <2>1. i > Len(s)
    BY <1>1, <1>4, <1>5, <1>6 DEF LineEnds
  <2>2. i - Len(s) \in 1 .. n /\ u[i - Len(s)] = NL
    BY <1>1, <1>4, <1>5, <1>6, <2>1
  <2>3. i - Len(s) \in 1 .. Len(t) /\ t[i - Len(s)] = NL
    BY <1>1, <1>3, <2>2
  <2>4. n <= i - Len(s)
    BY <1>1, <2>3
  <2> QED
    BY <1>1, <1>5, <2>2, <2>4
<1>7. l \in Seq(Symbol) /\ LineEnds(l) \subseteq {Len(l)}
  BY <1>4, <1>5, <1>6 DEF LineEnds
<1> QED
  BY <1>7 DEF l, u, n
-----------------------------------------------------------------------------
(* The actions.                                                            *)

\* One read returns at most what is in the pipe.
LEMMA ChunkInPipe ==
    ASSUME pipe \in Seq(Symbol)
    PROVE  Chunk \in 0 .. Len(pipe)
<1>1. Len(pipe) \in Nat
  BY LenProperties
<1>2. LineEnds(pipe) # {} => FirstEnd(pipe) \in 1 .. Len(pipe)
  BY FirstEndIsFirst
<1> QED
  BY <1>1, <1>2 DEF Chunk

\* An empty line has no end.
LEMMA NoEndInNothing == LineEnds(<<>>) = {} /\ <<>> \in Seq(Symbol)
<1>1. DOMAIN <<>> = {}
  OBVIOUS
<1> QED
  BY <1>1 DEF LineEnds

\* Texts in a row make one text, however they are grouped.
LEMMA Joined ==
    \A c, l \in Seq(Symbol) :
        /\ c \o l \in Seq(Symbol)
        /\ \A u \in Seq(Symbol) : c \o (l \o u) = (c \o l) \o u
<1> SUFFICES ASSUME NEW c \in Seq(Symbol), NEW l \in Seq(Symbol), NEW u \in Seq(Symbol)
             PROVE  c \o l \in Seq(Symbol) /\ c \o (l \o u) = (c \o l) \o u
  BY ConcatProperties
<1> QED
  BY ConcatProperties, ConcatAssociative

\* Every step keeps the types, and the line one line.
LEMMA TypeStep == ShellInvariant /\ [ShellNext]_vars => ShellTypeOK'
<1> SUFFICES ASSUME ShellInvariant, [ShellNext]_vars
             PROVE  ShellTypeOK'
  OBVIOUS
<1> USE DEF ShellInvariant
<1>1. ASSUME NEW symbol \in Symbol, Type(symbol)
      PROVE  ShellTypeOK'
  <2>1. Append(typed, symbol) \in Seq(Symbol) /\ Append(pipe, symbol) \in Seq(Symbol)
    BY <1>1, AppendProperties DEF ShellTypeOK
  <2> QED
    BY <1>1, <2>1 DEF ShellTypeOK, Type
<1>2. CASE CloseInput \/ KitchenSends
  BY <1>2 DEF ShellTypeOK, CloseInput, KitchenSends, inputVars
<1>3. CASE SelectReady
  BY <1>3, NoEndInNothing DEF ShellTypeOK, SelectReady, inputVars
<1>4. CASE SelectTimeout
  BY <1>4 DEF ShellTypeOK, SelectTimeout, inputVars
<1>5. CASE GetLine
  <2>1. /\ line \o Upto(buffer, FirstEnd(buffer)) \in Seq(Symbol)
        /\ LineEnds(line \o Upto(buffer, FirstEnd(buffer)))
              \subseteq {Len(line \o Upto(buffer, FirstEnd(buffer)))}
    BY <1>5, JoinFirstLine DEF ShellTypeOK, GetLine
  <2>2. FirstEnd(buffer) \in 0 .. Len(buffer)
    BY <1>5, FirstEndIsFirst DEF ShellTypeOK, GetLine
  <2>3. After(buffer, FirstEnd(buffer)) \in Seq(Symbol)
    BY <2>2, Split DEF ShellTypeOK
  <2> QED
    BY <1>5, <2>1, <2>3 DEF ShellTypeOK, GetLine, inputVars
<1>6. CASE Refill
  <2>1. line \o buffer \in Seq(Symbol) /\ LineEnds(line \o buffer) = {}
    BY <1>6, JoinWithoutEnd, ConcatProperties DEF ShellTypeOK, Refill
  <2>2. Upto(pipe, Chunk) \in Seq(Symbol) /\ After(pipe, Chunk) \in Seq(Symbol)
    BY ChunkInPipe, Split DEF ShellTypeOK
  <2> QED
    BY <1>6, <2>1, <2>2 DEF ShellTypeOK, Refill
<1>7. CASE GetLastLine
  <2>1. line \o buffer \in Seq(Symbol) /\ LineEnds(line \o buffer) = {}
    BY <1>7, JoinWithoutEnd, ConcatProperties DEF ShellTypeOK, GetLastLine, AtEndOfInput
  <2> QED
    BY <1>7, <2>1, NoEndInNothing DEF ShellTypeOK, GetLastLine, inputVars
<1>8. CASE EndOfInput
  BY <1>8 DEF ShellTypeOK, EndOfInput, inputVars
<1>9. ASSUME LineIsDone
      PROVE  /\ consumed' \in Seq(Symbol) /\ handled' \in Nat
             /\ line' = <<>> /\ line' \in Seq(Symbol) /\ LineEnds(line') = {}
  <2>1. consumed \o line \in Seq(Symbol)
    BY ConcatProperties DEF ShellTypeOK
  <2> QED
    BY <1>9, <2>1, NoEndInNothing DEF ShellTypeOK, LineIsDone
<1>10. CASE HandleBlank \/ HandleCommand \/ HandleWrong
  BY <1>9, <1>10 DEF ShellTypeOK, HandleBlank, HandleCommand, HandleWrong, inputVars
<1>11. CASE CallbackThrows
  BY <1>9, <1>11 DEF ShellTypeOK, CallbackThrows, inputVars
<1>12. CASE UNCHANGED vars
  BY <1>12 DEF ShellTypeOK, vars, inputVars
<1> QED
  BY <1>1, <1>2, <1>3, <1>4, <1>5, <1>6, <1>7, <1>8, <1>10, <1>11, <1>12
     DEF ShellNext, Run, SelectFails, Outside, Ended

\* Every step moves symbols to the next buffer at most, the first one first.
LEMMA ConserveStep == ShellInvariant /\ [ShellNext]_vars => InputConserved'
<1> SUFFICES ASSUME ShellInvariant, [ShellNext]_vars
             PROVE  InputConserved'
  OBVIOUS
<1>1. /\ pipe \in Seq(Symbol) /\ buffer \in Seq(Symbol) /\ line \in Seq(Symbol)
      /\ consumed \in Seq(Symbol)
      /\ typed = consumed \o line \o buffer \o pipe
  BY DEF ShellInvariant, ShellTypeOK, InputConserved
<1>2. ASSUME NEW symbol \in Symbol, Type(symbol)
      PROVE  InputConserved'
  <2>1. consumed \o line \o buffer \in Seq(Symbol)
    BY <1>1, Joined, Zenon
  <2>2. typed \in Seq(Symbol)
    BY <1>1, <2>1, Joined, Zenon
  <2>3. Append(pipe, symbol) = pipe \o <<symbol>> /\ Append(typed, symbol) = typed \o <<symbol>>
    BY <1>1, <2>2, AppendIsConcat
  <2>4. <<symbol>> \in Seq(Symbol)
    OBVIOUS
  <2>5. \A u \in Seq(Symbol) :
           consumed \o line \o buffer \o (pipe \o u) = consumed \o line \o buffer \o pipe \o u
    BY <1>1, <2>1, Joined, Zenon
  <2> QED
    BY <1>1, <1>2, <2>3, <2>4, <2>5 DEF InputConserved, Type
<1>3. CASE GetLine
  <2> DEFINE n == FirstEnd(buffer)
  <2>1. n \in 0 .. Len(buffer)
    BY <1>1, <1>3, FirstEndIsFirst DEF GetLine
  <2>2. /\ Upto(buffer, n) \in Seq(Symbol) /\ After(buffer, n) \in Seq(Symbol)
        /\ Upto(buffer, n) \o After(buffer, n) = buffer
    BY <1>1, <2>1, Split
  <2>3. consumed \o (line \o Upto(buffer, n)) = consumed \o line \o Upto(buffer, n)
    BY <1>1, <2>2, Joined, Zenon
  <2>4. consumed \o line \o Upto(buffer, n) \o After(buffer, n) = consumed \o line \o buffer
    <3>1. consumed \o line \in Seq(Symbol)
      BY <1>1, Joined, Zenon
    <3>2. consumed \o line \o Upto(buffer, n) \o After(buffer, n)
             = consumed \o line \o (Upto(buffer, n) \o After(buffer, n))
      BY <2>2, <3>1, Joined, Zenon
    <3> QED
      BY <2>2, <3>2, Zenon
  <2> QED
    BY <1>1, <1>3, <2>3, <2>4 DEF InputConserved, GetLine, inputVars
<1>4. CASE Refill
  <2>1. /\ Upto(pipe, Chunk) \in Seq(Symbol) /\ After(pipe, Chunk) \in Seq(Symbol)
        /\ Upto(pipe, Chunk) \o After(pipe, Chunk) = pipe
    BY <1>1, ChunkInPipe, Split
  <2>2. consumed \o (line \o buffer) = consumed \o line \o buffer
    BY <1>1, Joined, Zenon
  <2>3. consumed \o line \o buffer \in Seq(Symbol)
    BY <1>1, Joined, Zenon
  <2>4. consumed \o line \o buffer \o Upto(pipe, Chunk) \o After(pipe, Chunk)
           = consumed \o line \o buffer \o (Upto(pipe, Chunk) \o After(pipe, Chunk))
    BY <2>1, <2>3, Joined, Zenon
  <2> QED
    BY <1>1, <1>4, <2>1, <2>2, <2>4 DEF InputConserved, Refill
<1>5. CASE GetLastLine
  <2>1. consumed \o (line \o buffer) = consumed \o line \o buffer
    BY <1>1, Joined, Zenon
  <2>2. consumed \o line \o buffer \o <<>> = consumed \o line \o buffer
    BY <1>1, ConcatProperties, ConcatEmptySeq
  <2> QED
    BY <1>1, <1>5, <2>1, <2>2 DEF InputConserved, GetLastLine, inputVars
<1>6. ASSUME LineIsDone, UNCHANGED inputVars, UNCHANGED buffer
      PROVE  InputConserved'
  <2>1. consumed \o line \o <<>> = consumed \o line
    BY <1>1, ConcatProperties, ConcatEmptySeq
  <2> QED
    BY <1>1, <1>6, <2>1 DEF InputConserved, LineIsDone, inputVars
<1>7. CASE HandleBlank \/ HandleCommand \/ HandleWrong
  BY <1>6, <1>7 DEF HandleBlank, HandleCommand, HandleWrong
<1>8. CASE CallbackThrows
  <2>1. CASE LineIsDone
    BY <1>6, <1>8, <2>1 DEF CallbackThrows
  <2>2. CASE UNCHANGED <<line, consumed, handled>>
    BY <1>1, <1>8, <2>2 DEF CallbackThrows, InputConserved, inputVars
  <2> QED
    BY <1>8, <2>1, <2>2 DEF CallbackThrows
<1>9. CASE CloseInput \/ KitchenSends \/ SelectReady \/ SelectTimeout \/ EndOfInput
  BY <1>1, <1>9 DEF InputConserved, CloseInput, KitchenSends, SelectReady, SelectTimeout,
                    EndOfInput, inputVars
<1>10. CASE UNCHANGED vars
  BY <1>1, <1>10 DEF InputConserved, vars, inputVars
<1> QED
  BY <1>2, <1>3, <1>4, <1>5, <1>7, <1>8, <1>9, <1>10 DEF ShellNext, Run, SelectFails, Outside, Ended

\* Only the end of the input ends the loop in order, and nothing follows it.
LEMMA EndStep == ShellInvariant /\ [ShellNext]_vars => EndedAtEnd'
<1> SUFFICES ASSUME ShellInvariant, [ShellNext]_vars
             PROVE  EndedAtEnd'
  OBVIOUS
<1>1. CASE EndOfInput
  <2>1. line = <<>> /\ buffer = <<>>
    BY <1>1, ConcatEqualIffEmpty DEF ShellInvariant, ShellTypeOK, EndOfInput
  <2> QED
    BY <1>1, <2>1 DEF EndedAtEnd, EndOfInput, AtEndOfInput, inputVars
<1>2. CASE \E symbol \in Symbol : Type(symbol)
  BY <1>2 DEF ShellInvariant, EndedAtEnd, Type
<1>3. CASE CloseInput \/ KitchenSends
  BY <1>3 DEF ShellInvariant, EndedAtEnd, CloseInput, KitchenSends, inputVars
<1>4. CASE SelectReady \/ SelectTimeout \/ GetLine \/ Refill \/ GetLastLine
  BY <1>4 DEF EndedAtEnd, SelectReady, SelectTimeout, GetLine, Refill, GetLastLine
<1>5. CASE HandleBlank \/ HandleCommand \/ HandleWrong \/ CallbackThrows
  BY <1>5 DEF EndedAtEnd, HandleBlank, HandleCommand, HandleWrong, CallbackThrows
<1>6. CASE UNCHANGED vars
  BY <1>6 DEF ShellInvariant, EndedAtEnd, vars, inputVars
<1> QED
  BY <1>1, <1>2, <1>3, <1>4, <1>5, <1>6 DEF ShellNext, Run, SelectFails, Outside, Ended

\* Shell::run starts with nothing typed, read or handled.
LEMMA Start == ShellInit => ShellInvariant
<1> SUFFICES ASSUME ShellInit PROVE ShellInvariant
  OBVIOUS
<1>1. ShellTypeOK
  BY NoEndInNothing DEF ShellInit, ShellTypeOK
<1>2. <<>> \o <<>> = <<>>
  BY NoEndInNothing, ConcatEmptySeq
<1>3. InputConserved /\ EndedAtEnd
  BY <1>2 DEF ShellInit, InputConserved, EndedAtEnd
<1> QED
  BY <1>1, <1>3 DEF ShellInvariant

\* The invariant holds of Shell::run, whatever is typed, in whatever pieces.
LEMMA ShellKeepsInvariant == ShellSpec => []ShellInvariant
<1>1. ShellInvariant /\ [ShellNext]_vars => ShellInvariant'
  BY TypeStep, ConserveStep, EndStep DEF ShellInvariant
<1> QED
  BY Start, <1>1, PTL DEF ShellSpec

-----------------------------------------------------------------------------
(* What follows.                                                           *)

\* The state keeps its types, and handleLine gets one line at a time, however
\* getline's buffer was filled.
THEOREM ShellTypeCorrect == ShellSpec => []ShellTypeOK
<1>1. ShellInvariant => ShellTypeOK
  BY DEF ShellInvariant
<1> QED
  BY ShellKeepsInvariant, <1>1, PTL

\* What was typed is what was handled and what is on its way, in this order.
THEOREM ShellConservesInput == ShellSpec => []InputConserved
<1>1. ShellInvariant => InputConserved
  BY DEF ShellInvariant
<1> QED
  BY ShellKeepsInvariant, <1>1, PTL

\* Shell::run returns, when no exception ends it, only after it has handled
\* all of the input, be its last line ended or not.
THEOREM ShellHandlesAll == ShellSpec => []NothingLeftAtEnd
<1>1. ShellInvariant => NothingLeftAtEnd
  <2> SUFFICES ASSUME ShellInvariant, pc = "ended", ~thrown
               PROVE  consumed = typed
    BY DEF NothingLeftAtEnd
  <2>1. typed = consumed \o <<>> \o <<>> \o <<>> /\ consumed \in Seq(Symbol)
    BY DEF ShellInvariant, ShellTypeOK, InputConserved, EndedAtEnd
  <2> QED
    BY <2>1, ConcatEmptySeq
<1> QED
  BY ShellKeepsInvariant, <1>1, PTL
=============================================================================
