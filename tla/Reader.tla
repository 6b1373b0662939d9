--------------------------------- MODULE Reader ---------------------------------
(***************************************************************************)
(* ReaderBuffer of include/reader/cReader.h: a file or a named pipe is     *)
(* read in blocks into one buffer, which hands out its lines one by one,   *)
(* the way ResetFillBufferTask of include/parser/parser.h takes them.      *)
(*                                                                         *)
(* read() returns as much as it likes, at least one byte, and 0 at the     *)
(* end of the file.  Positions count from 0, as in the code: the byte at   *)
(* position i is buffer[i + 1].                                            *)
(***************************************************************************)
EXTENDS LineHandler

CONSTANTS
  BlockSize,
  Files,      \* the contents a file may have
  LineEnd,    \* kLineEnd
  Patterns    \* texts to search a line for

ASSUME ReaderAssumption ==
  /\ BlockSize \in Nat \ {0}
  /\ \A f \in Files : f \in Seq(UNION {ToSet(g) : g \in Files})
(* A text to search for is a sequence.                                     *)
ASSUME PatternsAssumption == \A p \in Patterns : p \in Seq(ToSet(p))

VARIABLES
  file,           \* what the file contains
  offset,         \* how much of it read() has returned
  buffer,         \* buffer_[0 .. size_ - 1]
  cur,            \* cur_reading_pos_
  next_line_end,  \* next_line_end_; 0 when it is not known
  pc,             \* where the reading task is
  lines           \* history: the lines handed out

vars == <<file, offset, buffer, cur, next_line_end, pc, lines>>

size == Len(buffer)

Init ==
  /\ file \in Files
  /\ offset = 0
  /\ buffer = <<>>
  /\ cur = 0
  /\ next_line_end = 0
  /\ pc = "next"
  /\ lines = <<>>

(* FindLineEnd(c, Len(buf)), which the code only calls with the reading    *)
(* position c: line ends at c are passed over, and the first one behind    *)
(* another byte is the result, -1 if there is none.                        *)
PassLineEnds(buf, c) ==
  CHOOSE n \in c .. Len(buf) :
    /\ n = Len(buf) \/ buf[n + 1] # LineEnd
    /\ \A i \in c + 1 .. n : buf[i] = LineEnd
FindLineEnd(buf, c) ==
  LET ends == {n \in PassLineEnds(buf, c) .. Len(buf) - 1 : buf[n + 1] = LineEnd}
  IN  IF ends = {} THEN -1 ELSE Min(ends)

(* HasStillLineEnd on buf at c, which looks for an end when none is known. *)
(* feof is never true: the stream is read with read().                     *)
HasStillLineEnd(buf, c) == FindLineEnd(buf, c) > 0
CalculateWithoutPassing(buf, c) ==
  /\ cur' = c
  /\ next_line_end' = IF HasStillLineEnd(buf, c) THEN FindLineEnd(buf, c) ELSE 0
CalculateNextLineEnd(buf, c) ==
  /\ cur' = PassLineEnds(buf, c)
  /\ next_line_end' = IF HasStillLineEnd(buf, c) THEN FindLineEnd(buf, c) ELSE 0

(* HasStillLine, when a line is in the buffer.                             *)
HasStillLine ==
  /\ pc = "next"
  /\ HasStillLineEnd(buffer, cur)
  /\ CalculateNextLineEnd(buffer, cur)
  /\ pc' = "line"
  /\ UNCHANGED <<file, offset, buffer, lines>>

(* HasStillLine, when there is none: NextBlock moves what is left to the   *)
(* front of the buffer.                                                    *)
NextBlockDropsRest ==
  /\ pc = "next"
  /\ ~HasStillLineEnd(buffer, cur)
  /\ buffer' = <<>>
  /\ cur' = 0
  /\ next_line_end' = 0
  /\ pc' = "read"
  /\ UNCHANGED <<file, offset, lines>>
NextBlock ==
  /\ pc = "next"
  /\ ~HasStillLineEnd(buffer, cur)
  /\ buffer' = SubSeq(buffer, PassLineEnds(buffer, cur) + 1, size)
  /\ cur' = 0
  /\ next_line_end' = 0
  /\ pc' = "read"
  /\ UNCHANGED <<file, offset, lines>>

(* One read() of NextBlock, of n bytes, and what follows it: another one,  *)
(* or the answer of HasStillLine, which ends the task if there is no line. *)
Amount == BlockSize - size
Returned == IF offset = Len(file) \/ Amount = 0 THEN {0} ELSE 1 .. Min({Amount, Len(file) - offset})
NeverReadsOn(new, n) == FALSE
ReadsOn(new, n) == ~HasStillLineEnd(new, 0) /\ n < Amount /\ n > 0
AnswerOrRetry(new) == IF HasStillLineEnd(new, 0) THEN "line" ELSE "next"
Answer(new) == IF HasStillLineEnd(new, 0) THEN "line" ELSE "closed"
Read(n) ==
  LET new == buffer \o SubSeq(file, offset + 1, offset + n)
  IN  /\ pc = "read"
      /\ offset' = offset + n
      /\ buffer' = new
      /\ IF ReadsOn(new, n)
         THEN pc' = "read" /\ UNCHANGED <<cur, next_line_end>>
         ELSE CalculateNextLineEnd(new, 0) /\ pc' = Answer(new)
      /\ UNCHANGED <<file, lines>>

(* NextHandler hands out the line, and the task asks for the next one.     *)
Line == SubSeq(buffer, cur + 1, next_line_end)
NextHandler ==
  /\ pc = "line"
  /\ lines' = Append(lines, Line)
  /\ cur' = next_line_end + 1
  /\ next_line_end' = 0
  /\ pc' = "next"
  /\ UNCHANGED <<file, offset, buffer>>

Next == HasStillLine \/ NextBlock \/ (\E n \in Returned : Read(n)) \/ NextHandler

(* The task runs, and a read() returns.                                    *)
Spec == Init /\ [][Next]_vars /\ WF_vars(Next)
--------------------------------------------------------------------------------
(* What a log is made of: a line begins at every byte that is not a line   *)
(* end and does not follow another such byte, and goes up to the next line *)
(* end.  What follows the last line end is not a line.                     *)
LineStarts == {i \in DOMAIN file : file[i] # LineEnd /\ (i = 1 \/ file[i - 1] = LineEnd)}
EndsAt(i, e) ==
  /\ e \in i + 1 .. Len(file)
  /\ file[e] = LineEnd
  /\ \A j \in i .. e - 1 : file[j] # LineEnd
Terminated(i) == \E e \in DOMAIN file : EndsAt(i, e)
IsLine(line, i) == \E e \in DOMAIN file : EndsAt(i, e) /\ line = SubSeq(file, i, e - 1)

(* The lines that were handed out begin at the places start names: one     *)
(* after the other, and with no line between two of them or before them.   *)
HandedOut(start) ==
  /\ \A k \in DOMAIN lines : IsLine(lines[k], start[k])
  /\ \A j, k \in DOMAIN lines : j < k => start[j] < start[k]
  /\ \A i \in LineStarts : \A k \in DOMAIN lines :
       i < start[k] => \E j \in DOMAIN lines : start[j] = i

(* However the reads cut the file, no line is torn, altered, repeated or   *)
(* left out before a line that is handed out (cReader.h, NextBlock moves   *)
(* the rest of the buffer, FindLineEnd moves the reading position).        *)
LinesInOrder == \E start \in [DOMAIN lines -> LineStarts] : HandedOut(start)

(* The blank lines before a line, the line and its end fit into the buffer. *)
EveryLineFits ==
  \A i \in LineStarts : \A e \in DOMAIN file : \A b \in 1 .. i :
    /\ EndsAt(i, e)
    /\ \A j \in b .. i - 1 : file[j] = LineEnd
    /\ b = 1 \/ file[b - 1] = LineEnd
    => e - b + 1 <= BlockSize

(* Reading stops only when every line with an end was handed out, if the   *)
(* lines fit into the buffer (cReader.h, HasStillLine gives up after one   *)
(* NextBlock).                                                             *)
EveryLineRead ==
  (pc = "closed" /\ EveryLineFits) =>
    \E start \in [DOMAIN lines -> LineStarts] :
      /\ HandedOut(start)
      /\ \A i \in LineStarts : Terminated(i) => \E k \in DOMAIN lines : start[k] = i

(* The search of a line finds the first place where a text occurs, if the  *)
(* first letter of the text does not occur in it again, and never takes    *)
(* another place for one (cReader.cpp, ConsumeAndTrimTillString does not   *)
(* go back after a partial match).                                         *)
Occurrences(p) == {n \in Len(p) .. Len(Line) : SubSeq(Line, n - Len(p) + 1, n) = p}
StartIsUnique(p) == \A i \in 2 .. Len(p) : p[i] # p[1]
SearchFinds ==
  pc = "line" =>
    \A p \in Patterns :
      LET h == ConsumeAndTrimTillString(Reset(Line), p)
      IN  /\ h.ok => h.pos \in Occurrences(p)
          /\ ~h.ok => h.pos = 0
          /\ StartIsUnique(p) =>
               h.pos = IF Occurrences(p) = {} THEN 0 ELSE Min(Occurrences(p))

(* The reading task comes to the end of a file that is not written any     *)
(* more.                                                                   *)
ReadingEnds == <>(pc = "closed")
================================================================================
