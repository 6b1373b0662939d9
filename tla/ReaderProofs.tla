------------------------------ MODULE ReaderProofs ------------------------------
(***************************************************************************)
(* Theorems about Reader, for every file, every size of the buffer and     *)
(* every way the reads cut the file.                                       *)
(***************************************************************************)
EXTENDS Reader, SequenceTheorems, WellFoundedInduction, TLAPS

Bytes == UNION {ToSet(f) : f \in Files}

(* Where in the file the buffer begins, and how far the file is consumed.  *)
Base == offset - size
Consumed == Base + cur

(* The buffer holds the bytes of the file that were read last.             *)
BufferInv ==
  /\ file \in Seq(Bytes)
  /\ offset \in 0 .. Len(file)
  /\ buffer \in Seq(Bytes)
  /\ size <= offset /\ size <= BlockSize
  /\ \A i \in DOMAIN buffer : buffer[i] = file[Base + i]
  /\ cur \in 0 .. size
  /\ pc \in {"next", "read", "line", "closed"}

(* What is left to read begins where a line may begin, and next_line_end   *)
(* is the end of the line at the reading position.                         *)
PositionInv ==
  /\ Consumed = 0 \/ file[Consumed] = LineEnd
  /\ pc = "read" => cur = 0
  /\ pc = "line" => /\ next_line_end \in cur + 1 .. size - 1
                    /\ \A i \in cur + 1 .. next_line_end : buffer[i] # LineEnd
                    /\ buffer[next_line_end + 1] = LineEnd

(* The lines handed out are those that begin where the file is consumed.   *)
HandedInv ==
  /\ lines \in Seq(Seq(Bytes))
  /\ \E start \in [DOMAIN lines -> LineStarts] :
       /\ HandedOut(start)
       /\ \A i \in LineStarts : i <= Consumed <=> \E k \in DOMAIN lines : start[k] = i

(* The task gives up with a full buffer or at the end of the file, and     *)
(* with no whole line in the buffer; line ends alone were passed over.     *)
ClosedInv ==
  pc = "closed" =>
    /\ offset = Len(file) \/ size = BlockSize
    /\ Base = 0 \/ file[Base] = LineEnd
    /\ \A i \in Base + 1 .. Consumed : file[i] = LineEnd
    /\ \A i \in LineStarts : \A e \in DOMAIN file : Base < i /\ e <= offset => ~EndsAt(i, e)

ReaderInv == BufferInv /\ PositionInv /\ HandedInv /\ ClosedInv

--------------------------------------------------------------------------------
(* Lemmas about positions and about the search of a line end.              *)

(* A set of positions has a first one.                                     *)
LEMMA HasMin ==
  ASSUME NEW T \in SUBSET Nat, T # {}
  PROVE  Min(T) \in T /\ \A j \in T : Min(T) <= j
<1>1. PICK x \in T : \A y \in T : ~ (<<y, x>> \in OpToRel(<, Nat))
  BY NatLessThanWellFounded, WFMin
<1>2. \A y \in T : x <= y
  <2>1. \A y \in T : y \in Nat /\ x \in Nat /\ ~(y < x)
    BY <1>1, Zenon DEF OpToRel
  <2>2. QED
    BY <2>1
<1>3. QED
  BY <1>2 DEF Min

(* FindLineEnd passes over the line ends at the reading position.          *)
LEMMA PassLineEndsIs ==
  ASSUME NEW buf \in Seq(Bytes), NEW c \in 0 .. Len(buf), NEW n, n = PassLineEnds(buf, c)
  PROVE  /\ n \in c .. Len(buf)
         /\ n = Len(buf) \/ buf[n + 1] # LineEnd
         /\ \A i \in c + 1 .. n : buf[i] = LineEnd
<1> DEFINE Stops == {x \in c .. Len(buf) : x = Len(buf) \/ buf[x + 1] # LineEnd}
<1>1. Len(buf) \in Nat /\ Len(buf) \in Stops /\ Stops \in SUBSET Nat
  OBVIOUS
<1>2. Min(Stops) \in Stops /\ \A x \in Stops : Min(Stops) <= x
  BY <1>1, HasMin
<1>3. PICK m : m = Min(Stops)
  OBVIOUS
<1>4. m \in c .. Len(buf) /\ (m = Len(buf) \/ buf[m + 1] # LineEnd)
  BY <1>2, <1>3
<1>5. \A i \in c + 1 .. m : buf[i] = LineEnd
  <2>1. SUFFICES ASSUME NEW i \in c + 1 .. m, buf[i] # LineEnd PROVE FALSE
    OBVIOUS
  <2>2. i - 1 \in c .. Len(buf) /\ (i - 1) + 1 = i /\ i - 1 < m
    BY <1>1, <1>4, <2>1
  <2>3. i - 1 \in Stops
    BY <2>1, <2>2
  <2>4. QED
    BY <1>2, <1>3, <2>2, <2>3
<1>6. QED
  BY <1>4, <1>5 DEF PassLineEnds

(* The end FindLineEnd finds is that of the line behind them.              *)
LEMMA FindLineEndIs ==
  ASSUME NEW buf \in Seq(Bytes), NEW c \in 0 .. Len(buf),
         NEW n, n = PassLineEnds(buf, c), NEW e, e = FindLineEnd(buf, c)
  PROVE  /\ HasStillLineEnd(buf, c) =>
              /\ e \in n + 1 .. Len(buf) - 1
              /\ buf[e + 1] = LineEnd
              /\ \A i \in n + 1 .. e : buf[i] # LineEnd
         /\ ~HasStillLineEnd(buf, c) => \A i \in n + 1 .. Len(buf) : buf[i] # LineEnd
<1> DEFINE Stops == {x \in n .. Len(buf) - 1 : buf[x + 1] = LineEnd}
<1>1. /\ Len(buf) \in Nat /\ n \in c .. Len(buf)
      /\ n = Len(buf) \/ buf[n + 1] # LineEnd
  BY PassLineEndsIs
<1>2. e = IF Stops = {} THEN -1 ELSE Min(Stops)
  BY DEF FindLineEnd
<1>3. CASE Stops = {}
  <2>1. e = -1 /\ ~HasStillLineEnd(buf, c)
    BY <1>2, <1>3 DEF HasStillLineEnd
  <2>2. SUFFICES ASSUME NEW i \in n + 1 .. Len(buf), buf[i] = LineEnd PROVE FALSE
    BY <2>1
  <2>3. i - 1 \in n .. Len(buf) - 1 /\ (i - 1) + 1 = i
    BY <1>1
  <2>4. i - 1 \in Stops
    BY <2>2, <2>3
  <2>5. QED
    BY <1>3, <2>4
<1>4. CASE Stops # {}
  <2>1. Stops \in SUBSET Nat
    BY <1>1
  <2>2. e \in Stops /\ \A x \in Stops : e <= x
    <3>1. PICK T : T = Stops
      OBVIOUS
    <3>2. e = Min(T) /\ T \in SUBSET Nat /\ T # {}
      BY <1>2, <1>4, <2>1, <3>1
    <3>3. Min(T) \in T /\ \A x \in T : Min(T) <= x
      BY <3>2, HasMin
    <3>4. QED
      BY <3>1, <3>2, <3>3
  <2>3. e \in n .. Len(buf) - 1 /\ buf[e + 1] = LineEnd
    BY <2>2
  <2>4. e # n /\ e > 0
    BY <1>1, <2>3
  <2>5. \A i \in n + 1 .. e : buf[i] # LineEnd
    <3>1. SUFFICES ASSUME NEW i \in n + 1 .. e, buf[i] = LineEnd PROVE FALSE
      OBVIOUS
    <3>2. i - 1 \in n .. Len(buf) - 1 /\ (i - 1) + 1 = i /\ i - 1 < e
      BY <1>1, <2>3
    <3>3. i - 1 \in Stops
      BY <3>1, <3>2
    <3>4. QED
      BY <2>2, <3>2, <3>3
  <2>6. QED
    BY <1>1, <2>3, <2>4, <2>5 DEF HasStillLineEnd
<1>5. QED
  BY <1>3, <1>4

--------------------------------------------------------------------------------
(* The invariant.                                                          *)

(* Nothing is consumed of a file that was not read yet.                    *)
LEMMA InitInv == Init => ReaderInv
<1> SUFFICES ASSUME Init PROVE ReaderInv
  OBVIOUS
<1>1. /\ file \in Seq(Bytes) /\ Len(file) \in Nat
      /\ offset = 0 /\ buffer = <<>> /\ cur = 0 /\ pc = "next" /\ lines = <<>>
  BY ReaderAssumption DEF Init, Bytes
<1>2. /\ buffer \in Seq(Bytes) /\ Len(buffer) = 0 /\ DOMAIN buffer = {}
      /\ Base = 0 /\ Consumed = 0
  <2>1. buffer \in Seq(Bytes) /\ Len(buffer) = 0
    BY <1>1, EmptySeq
  <2>2. DOMAIN buffer = {}
    BY <2>1
  <2>3. size = 0
    BY <2>1 DEF size
  <2>4. Base = 0
    BY <1>1, <2>3 DEF Base
  <2>5. QED
    BY <1>1, <2>1, <2>2, <2>4 DEF Consumed
<1>3. BufferInv /\ PositionInv /\ ClosedInv
  BY <1>1, <1>2, ReaderAssumption DEF BufferInv, PositionInv, ClosedInv, size
<1>4. HandedInv
  <2>1. lines = <<>> /\ DOMAIN lines = {} /\ LineStarts \in SUBSET (1 .. Len(file))
    BY <1>1 DEF LineStarts
  <2>2. PICK start : start = [k \in DOMAIN lines |-> 1]
    OBVIOUS
  <2>3. start \in [DOMAIN lines -> LineStarts] /\ HandedOut(start)
    BY <2>1, <2>2 DEF HandedOut
  <2>4. \A i \in LineStarts : i <= Consumed <=> \E k \in DOMAIN lines : start[k] = i
    BY <1>2, <2>1
  <2>5. lines \in Seq(Seq(Bytes))
    BY <2>1, EmptySeq
  <2>6. QED
    BY <2>3, <2>4, <2>5 DEF HandedInv
<1>5. QED
  BY <1>3, <1>4 DEF ReaderInv

(* Line ends that are passed over leave the lines handed out as they are.  *)
LEMMA HandedKept ==
  ASSUME HandedInv, file \in Seq(Bytes), Consumed \in Nat, Consumed' \in Nat,
         Consumed <= Consumed', UNCHANGED <<file, lines>>,
         \A i \in Consumed + 1 .. Consumed' : file[i] = LineEnd
  PROVE  HandedInv'
<1>1. PICK start \in [DOMAIN lines -> LineStarts] :
        /\ HandedOut(start)
        /\ \A i \in LineStarts : i <= Consumed <=> \E k \in DOMAIN lines : start[k] = i
  BY DEF HandedInv
<1>2. LineStarts' = LineStarts /\ HandedOut(start)'
  BY <1>1 DEF LineStarts, HandedOut, IsLine, EndsAt
<1>3. \A i \in LineStarts : i \in Nat /\ file[i] # LineEnd
  BY DEF LineStarts
<1>4. \A i \in LineStarts : i <= Consumed' <=> i <= Consumed
  BY <1>3
<1>5. QED
  BY <1>1, <1>2, <1>4 DEF HandedInv

(* The positions of the buffer, as positions of the file.                  *)
LEMMA Positions ==
  ASSUME BufferInv
  PROVE  /\ size \in Nat /\ size = Len(buffer) /\ DOMAIN buffer = 1 .. size
         /\ Len(file) \in Nat /\ DOMAIN file = 1 .. Len(file)
         /\ offset \in Nat /\ cur \in Nat /\ cur <= size
         /\ Base \in Nat /\ Base + size = offset /\ offset <= Len(file)
         /\ Consumed \in Nat /\ Consumed = Base + cur
         /\ \A i \in 1 .. size : buffer[i] = file[Base + i]
BY DEF BufferInv, Base, Consumed, size

(* Past line ends alone, a line may begin again.                           *)
LEMMA LineMayBegin ==
  ASSUME PositionInv, Consumed \in Nat, NEW q \in Nat, Consumed <= q,
         \A i \in Consumed + 1 .. q : file[i] = LineEnd
  PROVE  q = 0 \/ file[q] = LineEnd
<1>1. CASE q = Consumed
  BY <1>1 DEF PositionInv
<1>2. CASE q # Consumed
  BY <1>2
<1>3. QED
  BY <1>1, <1>2

(* HasStillLine finds a line in the buffer.                                *)
LEMMA HasStillLineInv == ReaderInv /\ HasStillLine => ReaderInv'
<1> SUFFICES ASSUME ReaderInv, HasStillLine PROVE ReaderInv'
  OBVIOUS
<1> USE DEF ReaderInv
<1>1. PICK n, e : n = PassLineEnds(buffer, cur) /\ e = FindLineEnd(buffer, cur)
  OBVIOUS
<1>2. /\ cur' = n /\ next_line_end' = e /\ pc' = "line" /\ HasStillLineEnd(buffer, cur)
      /\ UNCHANGED <<file, offset, buffer, lines>>
  BY <1>1 DEF HasStillLine, CalculateNextLineEnd
<1>3. buffer \in Seq(Bytes) /\ cur \in 0 .. Len(buffer)
  BY DEF BufferInv, size
<1>4. n \in cur .. Len(buffer) /\ \A i \in cur + 1 .. n : buffer[i] = LineEnd
  BY <1>1, <1>3, PassLineEndsIs
<1>5. /\ e \in n + 1 .. Len(buffer) - 1
      /\ buffer[e + 1] = LineEnd
      /\ \A i \in n + 1 .. e : buffer[i] # LineEnd
  BY <1>1, <1>2, <1>3, FindLineEndIs
<1>6. size' = size /\ Base' = Base /\ Consumed' = Base + n
  BY <1>2 DEF size, Base, Consumed
<1>7. BufferInv'
  BY <1>2, <1>4, <1>6, Positions DEF BufferInv
<1>8. \A i \in Consumed + 1 .. Consumed' : file[i] = LineEnd
  <2>1. \A i \in Consumed + 1 .. Consumed' :
          i - Base \in cur + 1 .. n /\ i - Base \in 1 .. size /\ Base + (i - Base) = i
    <3>1. /\ Consumed = Base + cur /\ Consumed' = Base + n /\ n \in cur .. size
          /\ Base \in Nat /\ cur \in Nat /\ size \in Nat
      BY <1>4, <1>6, Positions
    <3>2. QED
      BY <3>1
  <2>2. QED
    BY <1>4, <2>1, Positions
<1>9. Consumed' \in Nat /\ Consumed <= Consumed'
  BY <1>4, <1>6, Positions
<1>10. PositionInv'
  <2>1. Consumed' = 0 \/ file[Consumed'] = LineEnd
    BY <1>8, <1>9, Positions, LineMayBegin
  <2>2. QED
    BY <1>2, <1>5, <1>6, <2>1 DEF PositionInv, size
<1>11. HandedInv'
  BY <1>2, <1>8, <1>9, HandedKept, Positions DEF BufferInv
<1>12. QED
  BY <1>2, <1>7, <1>10, <1>11 DEF ClosedInv

(* NextBlock moves what is left of the buffer to its front.                *)
LEMMA NextBlockInv == ReaderInv /\ NextBlock => ReaderInv'
<1> SUFFICES ASSUME ReaderInv, NextBlock PROVE ReaderInv'
  OBVIOUS
<1> USE DEF ReaderInv
<1>1. PICK n, rest : n = PassLineEnds(buffer, cur) /\ rest = SubSeq(buffer, n + 1, size)
  OBVIOUS
<1>2. /\ cur' = 0 /\ pc' = "read" /\ buffer' = rest
      /\ UNCHANGED <<file, offset, lines>>
  BY <1>1 DEF NextBlock
<1>3. buffer \in Seq(Bytes) /\ cur \in 0 .. Len(buffer)
  BY DEF BufferInv, size
<1>4. n \in cur .. size /\ \A i \in cur + 1 .. n : buffer[i] = LineEnd
  BY <1>1, <1>3, PassLineEndsIs DEF size
<1>5. /\ rest \in Seq(Bytes) /\ Len(rest) = size - n
      /\ \A i \in 1 .. size - n : rest[i] = buffer[n + i]
  <2>1. \A i \in n + 1 .. size : buffer[i] \in Bytes
    BY <1>3, <1>4, Positions
  <2>2. n + 1 \in Int /\ size \in Int
    BY <1>4, Positions
  <2>3. /\ rest \in Seq(Bytes)
        /\ Len(rest) = IF n + 1 <= size THEN size - (n + 1) + 1 ELSE 0
        /\ \A i \in 1 .. size - (n + 1) + 1 : rest[i] = buffer[(n + 1) + i - 1]
    BY <1>1, <2>1, <2>2, SubSeqProperties
  <2>4. Len(rest) = size - n
    BY <1>4, <2>3, Positions
  <2>5. \A i \in 1 .. size - n : i \in 1 .. size - (n + 1) + 1 /\ (n + 1) + i - 1 = n + i
    BY <1>4, Positions
  <2>6. QED
    BY <2>3, <2>4, <2>5
<1>6. size' = size - n /\ Base' = Base + n /\ Consumed' = Base + n
  BY <1>2, <1>4, <1>5, Positions DEF size, Base, Consumed
<1>7. BufferInv'
  <2>1. \A i \in 1 .. size - n : n + i \in 1 .. size /\ Base + (n + i) = Base' + i
    BY <1>4, <1>6, Positions
  <2>2. \A i \in DOMAIN buffer' : buffer'[i] = file'[Base' + i]
    BY <1>2, <1>5, <2>1, Positions
  <2>3. size' <= offset' /\ size' <= BlockSize /\ cur' \in 0 .. size'
    BY <1>2, <1>4, <1>6, Positions, ReaderAssumption DEF BufferInv
  <2>4. QED
    BY <1>2, <1>5, <2>2, <2>3 DEF BufferInv
<1>8. \A i \in Consumed + 1 .. Consumed' : file[i] = LineEnd
  <2>1. \A i \in Consumed + 1 .. Consumed' :
          i - Base \in cur + 1 .. n /\ i - Base \in 1 .. size /\ Base + (i - Base) = i
    <3>1. /\ Consumed = Base + cur /\ Consumed' = Base + n /\ n \in cur .. size
          /\ Base \in Nat /\ cur \in Nat /\ size \in Nat
      BY <1>4, <1>6, Positions
    <3>2. QED
      BY <3>1
  <2>2. QED
    BY <1>4, <2>1, Positions
<1>9. Consumed' \in Nat /\ Consumed <= Consumed'
  BY <1>4, <1>6, Positions
<1>10. PositionInv'
  <2>1. Consumed' = 0 \/ file[Consumed'] = LineEnd
    BY <1>8, <1>9, Positions, LineMayBegin
  <2>2. QED
    BY <1>2, <2>1 DEF PositionInv
<1>11. HandedInv'
  BY <1>2, <1>8, <1>9, HandedKept, Positions DEF BufferInv
<1>12. QED
  BY <1>2, <1>7, <1>10, <1>11 DEF ClosedInv

(* The buffer after a read() of n bytes.                                   *)
Grown(n) == buffer \o SubSeq(file, offset + 1, offset + n)

(* What one read() adds to the buffer.                                     *)
LEMMA Reading ==
  ASSUME BufferInv, NEW n \in Returned, NEW new, new = Grown(n)
  PROVE  /\ n \in Nat /\ offset + n <= Len(file) /\ size + n <= BlockSize
         /\ new \in Seq(Bytes) /\ Len(new) = size + n
         /\ \A i \in 1 .. size + n : new[i] = file[Base + i]
         /\ n = 0 => offset = Len(file) \/ size = BlockSize
<1>1. /\ n \in Nat /\ offset + n <= Len(file) /\ size + n <= BlockSize
      /\ n = 0 => offset = Len(file) \/ size = BlockSize
  <2>1. BlockSize \in Nat /\ size <= BlockSize /\ Amount = BlockSize - size
    BY ReaderAssumption DEF BufferInv, Amount
  <2>2. CASE offset = Len(file) \/ Amount = 0
    BY <2>1, <2>2, Positions DEF Returned
  <2>3. CASE ~(offset = Len(file) \/ Amount = 0)
    <3>1. PICK T : T = {Amount, Len(file) - offset}
      OBVIOUS
    <3>2. T \in SUBSET Nat /\ T # {} /\ Amount \in T /\ Len(file) - offset \in T
      BY <2>1, <3>1, Positions
    <3>3. Min(T) \in Nat /\ Min(T) <= Amount /\ Min(T) <= Len(file) - offset
      BY <3>2, HasMin
    <3>4. n \in 1 .. Min(T)
      BY <2>3, <3>1 DEF Returned
    <3>5. Amount \in Nat /\ Len(file) - offset \in Nat /\ Min(T) \in Nat
      BY <3>2, <3>3
    <3>6. n \in Nat /\ n # 0 /\ n <= Amount /\ n <= Len(file) - offset
      BY <3>3, <3>4, <3>5
    <3>7. size \in Nat /\ Len(file) \in Nat /\ offset \in Nat
      BY Positions
    <3>8. n = 0 => offset = Len(file) \/ size = BlockSize
      BY <3>6
    <3>9. offset + n <= Len(file)
      BY <3>6, <3>7
    <3>10. size + n <= BlockSize
      BY <2>1, <3>6, <3>7
    <3>11. QED
      BY <3>6, <3>8, <3>9, <3>10
  <2>4. QED
    BY <2>2, <2>3
<1>2. PICK read : read = SubSeq(file, offset + 1, offset + n)
  OBVIOUS
<1>3. read \in Seq(Bytes) /\ Len(read) = n /\ \A i \in 1 .. n : read[i] = file[offset + i]
  <2>1. \A i \in offset + 1 .. offset + n : file[i] \in Bytes
    BY <1>1, Positions DEF BufferInv
  <2>2. offset + 1 \in Int /\ offset + n \in Int
    BY <1>1, Positions
  <2>3. /\ read \in Seq(Bytes)
        /\ Len(read) = IF offset + 1 <= offset + n THEN (offset + n) - (offset + 1) + 1 ELSE 0
        /\ \A i \in 1 .. (offset + n) - (offset + 1) + 1 : read[i] = file[(offset + 1) + i - 1]
    BY <1>2, <2>1, <2>2, SubSeqProperties
  <2>4. Len(read) = n
    BY <1>1, <2>3, Positions
  <2>5. \A i \in 1 .. n :
          i \in 1 .. (offset + n) - (offset + 1) + 1 /\ (offset + 1) + i - 1 = offset + i
    <3>1. \A k, x \in Nat : \A i \in 1 .. x :
            i \in 1 .. (k + x) - (k + 1) + 1 /\ (k + 1) + i - 1 = k + i
      OBVIOUS
    <3>2. offset \in Nat /\ n \in Nat
      BY <1>1, Positions
    <3>3. QED
      BY <3>1, <3>2
  <2>6. QED
    BY <2>3, <2>4, <2>5
<1>4. read \in Seq(Bytes) /\ buffer \in Seq(Bytes) /\ new = buffer \o read
  BY <1>2, <1>3 DEF BufferInv, Grown
<1>5. /\ new \in Seq(Bytes) /\ Len(new) = size + n
      /\ \A i \in 1 .. size + n :
           new[i] = IF i <= size THEN buffer[i] ELSE read[i - size]
  <2>1. /\ new \in Seq(Bytes) /\ Len(new) = Len(buffer) + Len(read)
        /\ \A i \in 1 .. Len(buffer) + Len(read) :
             new[i] = IF i <= Len(buffer) THEN buffer[i] ELSE read[i - Len(buffer)]
    BY <1>4, ConcatProperties
  <2>2. size = Len(buffer) /\ n = Len(read)
    BY <1>3 DEF size
  <2>3. QED
    BY <2>1, <2>2
<1>6. \A i \in 1 .. size + n : new[i] = file[Base + i]
  <2>1. SUFFICES ASSUME NEW i \in 1 .. size + n PROVE new[i] = file[Base + i]
    OBVIOUS
  <2>2. /\ size \in Nat /\ n \in Nat /\ Base \in Nat /\ Base + size = offset
        /\ \A j \in 1 .. size : buffer[j] = file[Base + j]
    BY <1>1, Positions
  <2>3. CASE i <= size
    <3>1. i \in 1 .. size
      BY <2>2, <2>3
    <3>2. QED
      BY <1>5, <2>2, <2>3, <3>1
  <2>4. CASE i > size
    <3>1. i - size \in 1 .. n /\ offset + (i - size) = Base + i
      BY <2>2, <2>4
    <3>2. new[i] = read[i - size]
      BY <1>5, <2>2, <2>4
    <3>3. QED
      BY <1>3, <3>1, <3>2
  <2>5. QED
    BY <2>2, <2>3, <2>4
<1>7. QED
  BY <1>1, <1>5, <1>6

(* One read() adds to the buffer; it is the last one if a line is there,   *)
(* or if there will be none.                                               *)
LEMMA ReadInv == ReaderInv /\ (\E n \in Returned : Read(n)) => ReaderInv'
<1> SUFFICES ASSUME ReaderInv, NEW n \in Returned, Read(n) PROVE ReaderInv'
  OBVIOUS
<1> USE DEF ReaderInv
<1>1. PICK new, p, e, c : /\ new = Grown(n) /\ p = PassLineEnds(new, 0)
                          /\ e = FindLineEnd(new, 0) /\ c = cur'
  OBVIOUS
<1>2. /\ pc = "read" /\ offset' = offset + n /\ buffer' = new
      /\ UNCHANGED <<file, lines>>
      /\ IF ReadsOn(new, n)
         THEN pc' = "read" /\ c = cur
         ELSE /\ c = p /\ pc' = Answer(new)
              /\ next_line_end' = IF HasStillLineEnd(new, 0) THEN e ELSE 0
  BY <1>1 DEF Read, CalculateNextLineEnd, Grown
<1>3. /\ n \in Nat /\ offset + n <= Len(file) /\ size + n <= BlockSize
      /\ new \in Seq(Bytes) /\ Len(new) = size + n
      /\ \A i \in 1 .. size + n : new[i] = file[Base + i]
      /\ n = 0 => offset = Len(file) \/ size = BlockSize
  BY <1>1, Reading
<1>4. cur = 0 /\ Consumed = Base /\ size \in Nat /\ Base \in Nat
      /\ offset \in Nat /\ Base + size = offset /\ Len(file) \in Nat
  BY <1>2, Positions DEF PositionInv
<1>5. size' = size + n /\ Base' = Base /\ Consumed' = Base + c
  <2>1. size' = size + n
    BY <1>2, <1>3 DEF size
  <2>2. Base' = (offset + n) - (size + n)
    BY <1>2, <2>1 DEF Base
  <2>3. Base' = Base
    BY <1>3, <1>4, <2>2
  <2>4. QED
    BY <1>1, <2>1, <2>3 DEF Consumed
<1>6. /\ p \in 0 .. Len(new) /\ \A i \in 1 .. p : new[i] = LineEnd
      /\ HasStillLineEnd(new, 0) =>
           /\ e \in p + 1 .. Len(new) - 1
           /\ new[e + 1] = LineEnd
           /\ \A i \in p + 1 .. e : new[i] # LineEnd
      /\ ~HasStillLineEnd(new, 0) => \A i \in p + 1 .. Len(new) : new[i] # LineEnd
  <2>1. 0 \in 0 .. Len(new)
    BY <1>3, <1>4
  <2>2. p \in 0 .. Len(new) /\ \A i \in 0 + 1 .. p : new[i] = LineEnd
    BY <1>1, <1>3, <2>1, PassLineEndsIs
  <2>3. \A i \in 1 .. p : new[i] = LineEnd
    BY <2>2
  <2>4. QED
    BY <1>1, <1>3, <2>1, <2>2, <2>3, FindLineEndIs
<1>7. /\ c \in 0 .. Len(new) /\ \A i \in 1 .. c : new[i] = LineEnd
      /\ pc' \in {"read", "line", "closed"}
      /\ pc' = "read" => c = 0
      /\ pc' = "line" => HasStillLineEnd(new, 0) /\ c = p /\ next_line_end' = e
      /\ pc' = "closed" => ~HasStillLineEnd(new, 0) /\ c = p /\ ~ReadsOn(new, n)
  <2>1. CASE ReadsOn(new, n)
    <3>1. c = 0 /\ Len(new) \in Nat
      BY <1>2, <1>3, <1>4, <2>1
    <3>2. QED
      BY <1>2, <2>1, <3>1
  <2>2. CASE ~ReadsOn(new, n)
    BY <1>2, <1>6, <2>2 DEF Answer
  <2>3. QED
    BY <2>1, <2>2
<1>8. /\ n \in Nat /\ size \in Nat /\ Base \in Nat
      /\ c \in Nat /\ c <= size + n
      /\ Consumed = Base /\ Consumed' = Base + c
  BY <1>3, <1>4, <1>5, <1>7
<1>9. BufferInv'
  <2>1. offset' \in 0 .. Len(file') /\ size' <= offset' /\ size' <= BlockSize
    BY <1>2, <1>3, <1>4, <1>5
  <2>2. DOMAIN buffer' = 1 .. size + n /\ file' \in Seq(Bytes)
    BY <1>2, <1>3 DEF BufferInv
  <2>3. QED
    BY <1>1, <1>2, <1>3, <1>5, <1>7, <2>1, <2>2 DEF BufferInv
<1>10. Consumed' \in Nat /\ Consumed <= Consumed'
  BY <1>8
<1>11. \A i \in Base + 1 .. Consumed' : file[i] = LineEnd
  <2>1. \A i \in Base + 1 .. Base + c :
          i - Base \in 1 .. c /\ i - Base \in 1 .. size + n /\ Base + (i - Base) = i
    BY <1>8
  <2>2. QED
    BY <1>3, <1>7, <1>8, <2>1
<1>12. PositionInv'
  <2>1. Consumed' = 0 \/ file[Consumed'] = LineEnd
    BY <1>8, <1>10, <1>11, LineMayBegin
  <2>2. CASE pc' = "line"
    <3>1. /\ e \in p + 1 .. Len(new) - 1
          /\ new[e + 1] = LineEnd
          /\ \A i \in p + 1 .. e : new[i] # LineEnd
      BY <1>6, <1>7, <2>2
    <3>2. cur' = p /\ pc' = "line" /\ next_line_end' = e /\ buffer' = new /\ size' = Len(new)
      BY <1>1, <1>2, <1>7, <2>2 DEF size
    <3>3. QED
      BY <1>2, <2>1, <3>1, <3>2 DEF PositionInv, size
  <2>3. CASE pc' # "line"
    BY <1>1, <1>2, <1>7, <2>1, <2>3 DEF PositionInv
  <2>4. QED
    BY <2>2, <2>3
<1>13. HandedInv'
  BY <1>2, <1>4, <1>10, <1>11, HandedKept DEF BufferInv
<1>14. ClosedInv'
  <2>1. SUFFICES ASSUME pc' = "closed"
                 PROVE  /\ offset' = Len(file) \/ size' = BlockSize
                        /\ Base = 0 \/ file[Base] = LineEnd
                        /\ \A i \in LineStarts : \A f \in DOMAIN file :
                             Base < i /\ f <= offset' => ~EndsAt(i, f)
    BY <1>2, <1>5, <1>11 DEF ClosedInv, LineStarts, EndsAt
  <2>2. Base = 0 \/ file[Base] = LineEnd
    BY <1>4 DEF PositionInv
  <2>3. offset' = Len(file) \/ size' = BlockSize
    <3>1. ~(n < BlockSize - size) \/ ~(n > 0)
      BY <1>7, <2>1 DEF ReadsOn, Amount
    <3>2. BlockSize \in Nat
      BY ReaderAssumption
    <3>3. QED
      BY <1>2, <1>3, <1>4, <1>5, <3>1, <3>2
  <2>4. ASSUME NEW i \in LineStarts, NEW f \in DOMAIN file, Base < i, f <= offset', EndsAt(i, f)
        PROVE  FALSE
    <3>1. i \in Nat /\ f \in Nat /\ i < f /\ file[f] = LineEnd /\ file[i] # LineEnd
      BY <2>4, Positions DEF LineStarts, EndsAt
    <3>2. /\ i - Base \in 1 .. size + n /\ f - Base \in 1 .. size + n /\ i - Base < f - Base
          /\ Base + (i - Base) = i /\ Base + (f - Base) = f
      BY <1>2, <1>3, <1>4, <2>4, <3>1
    <3>3. new[i - Base] # LineEnd /\ new[f - Base] = LineEnd
      BY <1>3, <3>1, <3>2
    <3>4. i - Base \notin 1 .. p
      BY <1>6, <3>3
    <3>5. f - Base \in p + 1 .. Len(new)
      BY <1>3, <1>4, <1>6, <3>2, <3>4
    <3>6. QED
      BY <1>6, <1>7, <2>1, <3>3, <3>5
  <2>5. QED
    BY <2>2, <2>3, <2>4
<1>15. QED
  BY <1>2, <1>9, <1>12, <1>13, <1>14

(* The line NextHandler hands out: it begins where the file is consumed    *)
(* and ends at the end that was found.                                     *)
LEMMA TheLine ==
  ASSUME BufferInv, PositionInv, pc = "line", NEW i, i = Consumed + 1,
         NEW e, e = Base + next_line_end + 1
  PROVE  /\ next_line_end \in Nat /\ next_line_end < size /\ cur < next_line_end
         /\ i \in Nat /\ e \in Nat /\ i < e /\ e <= offset
         /\ i \in LineStarts /\ EndsAt(i, e)
         /\ Line = SubSeq(file, i, e - 1) /\ Line \in Seq(Bytes)
<1>1. /\ next_line_end \in cur + 1 .. size - 1
      /\ \A j \in cur + 1 .. next_line_end : buffer[j] # LineEnd
      /\ buffer[next_line_end + 1] = LineEnd
  BY DEF PositionInv
<1>2. PICK m : m = next_line_end
  OBVIOUS
<1>3. /\ m \in Nat /\ cur < m /\ m < size /\ cur \in Nat /\ size \in Nat /\ Base \in Nat
      /\ Base + size = offset /\ offset \in Nat /\ Len(file) \in Nat /\ offset <= Len(file)
      /\ i = Base + cur + 1 /\ e = Base + m + 1
  <2>1. /\ cur \in Nat /\ size \in Nat /\ Base \in Nat /\ Base + size = offset /\ offset \in Nat
        /\ Len(file) \in Nat /\ offset <= Len(file) /\ Consumed = Base + cur
    BY Positions
  <2>2. m \in cur + 1 .. size - 1
    BY <1>1, <1>2
  <2>3. m \in Nat /\ cur < m /\ m < size
    BY <2>1, <2>2
  <2>4. i = Base + cur + 1 /\ e = Base + m + 1
    BY <1>2, <2>1
  <2>5. QED
    BY <2>1, <2>3, <2>4
<1>4. i \in Nat /\ e \in Nat /\ i < e /\ e <= offset /\ i \in 1 .. Len(file) /\ e \in i + 1 .. Len(file)
  BY <1>3
<1>5. \A j \in 1 .. size : buffer[j] = file[Base + j]
  BY Positions
<1>6. \A j \in i .. e - 1 : file[j] # LineEnd
  <2>1. \A j \in i .. e - 1 :
          j - Base \in cur + 1 .. m /\ j - Base \in 1 .. size /\ Base + (j - Base) = j
    BY <1>3
  <2>2. QED
    BY <1>1, <1>2, <1>5, <2>1
<1>7. file[e] = LineEnd
  <2>1. m + 1 \in 1 .. size /\ Base + (m + 1) = e
    BY <1>3
  <2>2. QED
    BY <1>1, <1>2, <1>5, <2>1
<1>8. EndsAt(i, e)
  BY <1>4, <1>6, <1>7 DEF EndsAt
<1>9. i \in LineStarts
  <2>1. i \in DOMAIN file /\ i \in i .. e - 1
    BY <1>4, Positions
  <2>2. i = 1 \/ file[i - 1] = LineEnd
    <3>1. Consumed \in Nat /\ (Consumed = 0 \/ file[Consumed] = LineEnd)
      BY Positions DEF PositionInv
    <3>2. i - 1 = Consumed
      BY <3>1
    <3>3. QED
      BY <3>1, <3>2
  <2>3. QED
    BY <1>6, <2>1, <2>2 DEF LineStarts
<1>10. Line = SubSeq(file, i, e - 1) /\ Line \in Seq(Bytes)
  <2>1. PICK a, b : a = SubSeq(buffer, cur + 1, m) /\ b = SubSeq(file, i, e - 1)
    OBVIOUS
  <2>2. /\ a \in Seq(Bytes) /\ Len(a) = m - cur
        /\ \A j \in 1 .. m - cur : a[j] = buffer[cur + j]
    <3>1. cur + 1 \in Int /\ m \in Int /\ cur + 1 <= m
      BY <1>3
    <3>2. \A j \in cur + 1 .. m : buffer[j] \in Bytes
      <4>1. \A j \in cur + 1 .. m : j \in 1 .. Len(buffer)
        BY <1>3 DEF size
      <4>2. QED
        BY <4>1, ElementOfSeq DEF BufferInv
    <3>3. /\ a \in Seq(Bytes)
          /\ Len(a) = IF cur + 1 <= m THEN m - (cur + 1) + 1 ELSE 0
          /\ \A j \in 1 .. m - (cur + 1) + 1 : a[j] = buffer[(cur + 1) + j - 1]
      BY <2>1, <3>1, <3>2, SubSeqProperties
    <3>4. m - (cur + 1) + 1 = m - cur /\ \A j \in 1 .. m - cur : (cur + 1) + j - 1 = cur + j
      BY <1>3
    <3>5. QED
      BY <3>1, <3>3, <3>4
  <2>3. /\ b \in Seq(Bytes) /\ Len(b) = m - cur
        /\ \A j \in 1 .. m - cur : b[j] = file[Base + (cur + j)]
    <3>1. i \in Int /\ e - 1 \in Int /\ i <= e - 1
      BY <1>4
    <3>2. \A j \in i .. e - 1 : file[j] \in Bytes
      <4>1. \A j \in i .. e - 1 : j \in 1 .. Len(file)
        BY <1>3
      <4>2. QED
        BY <4>1, ElementOfSeq DEF BufferInv
    <3>3. /\ b \in Seq(Bytes)
          /\ Len(b) = IF i <= e - 1 THEN (e - 1) - i + 1 ELSE 0
          /\ \A j \in 1 .. (e - 1) - i + 1 : b[j] = file[i + j - 1]
      BY <2>1, <3>1, <3>2, SubSeqProperties
    <3>4. (e - 1) - i + 1 = m - cur /\ \A j \in 1 .. m - cur : i + j - 1 = Base + (cur + j)
      BY <1>3
    <3>5. QED
      BY <3>1, <3>3, <3>4
  <2>4. \A j \in 1 .. m - cur : a[j] = b[j]
    <3>1. \A j \in 1 .. m - cur : cur + j \in 1 .. size
      BY <1>3
    <3>2. QED
      BY <1>5, <2>2, <2>3, <3>1
  <2>5. a = b
    BY <2>2, <2>3, <2>4, SeqEqual
  <2>6. QED
    BY <1>2, <2>1, <2>2, <2>5 DEF Line
<1>11. QED
  BY <1>2, <1>3, <1>4, <1>8, <1>9, <1>10

(* NextHandler hands out the next line of the file.                        *)
LEMMA NextHandlerInv == ReaderInv /\ NextHandler => ReaderInv'
<1> SUFFICES ASSUME ReaderInv, NextHandler PROVE ReaderInv'
  OBVIOUS
<1> USE DEF ReaderInv
<1>1. PICK b, e, l : b = Consumed + 1 /\ e = Base + next_line_end + 1 /\ l = Line
  OBVIOUS
<1>2. /\ pc = "line" /\ lines' = Append(lines, l) /\ cur' = next_line_end + 1
      /\ pc' = "next" /\ UNCHANGED <<file, offset, buffer>>
  BY <1>1 DEF NextHandler
<1>3. /\ next_line_end \in Nat /\ next_line_end < size /\ cur < next_line_end
      /\ b \in Nat /\ e \in Nat /\ b < e /\ e <= offset
      /\ b \in LineStarts /\ EndsAt(b, e)
      /\ l = SubSeq(file, b, e - 1) /\ l \in Seq(Bytes)
  BY <1>1, <1>2, TheLine
<1>4. size' = size /\ Base' = Base /\ Consumed' = e
  <2>1. size' = size /\ Base' = Base
    BY <1>2 DEF size, Base
  <2>2. Consumed' = Base + (next_line_end + 1)
    BY <1>2, <2>1 DEF Consumed
  <2>3. QED
    BY <1>1, <1>3, <2>1, <2>2, Positions
<1>5. BufferInv'
  <2>1. next_line_end + 1 \in 0 .. size
    BY <1>3, Positions
  <2>2. QED
    BY <1>2, <1>4, <2>1 DEF BufferInv
<1>6. PositionInv'
  BY <1>2, <1>3, <1>4 DEF PositionInv, EndsAt
<1>7. PICK start \in [DOMAIN lines -> LineStarts] :
        /\ HandedOut(start)
        /\ \A i \in LineStarts : i <= Consumed <=> \E k \in DOMAIN lines : start[k] = i
  BY DEF HandedInv
<1>8. PICK n : n = Len(lines)
  OBVIOUS
<1>9. /\ n \in Nat /\ DOMAIN lines = 1 .. n /\ DOMAIN lines' = 1 .. n + 1
      /\ lines' \in Seq(Seq(Bytes)) /\ lines'[n + 1] = l
      /\ \A k \in 1 .. n : lines'[k] = lines[k]
  <2>1. lines \in Seq(Seq(Bytes))
    BY DEF HandedInv
  <2>2. QED
    BY <1>2, <1>3, <1>8, <2>1, AppendProperties
<1>10. PICK new : new = [k \in 1 .. n + 1 |-> IF k = n + 1 THEN b ELSE start[k]]
  OBVIOUS
<1>11. /\ new \in [1 .. n + 1 -> LineStarts] /\ new[n + 1] = b
       /\ \A k \in 1 .. n : new[k] = start[k] /\ start[k] \in LineStarts /\ start[k] < b
  <2>1. \A k \in 1 .. n : start[k] \in LineStarts /\ start[k] <= Consumed
    BY <1>7, <1>9
  <2>2. \A k \in 1 .. n : start[k] \in Nat /\ start[k] < b
    BY <1>1, <2>1, Positions DEF LineStarts
  <2>3. \A k \in 1 .. n : k \in 1 .. n + 1 /\ k # n + 1
    BY <1>9
  <2>4. n + 1 \in 1 .. n + 1
    BY <1>9
  <2>5. QED
    BY <1>3, <1>9, <1>10, <2>1, <2>2, <2>3, <2>4
<1>12. \A k \in 1 .. n + 1 : k = n + 1 \/ k \in 1 .. n
  BY <1>9
<1>13. file' = file /\ LineStarts' = LineStarts
  BY <1>2 DEF LineStarts
<1>14. \A i \in LineStarts : i <= e <=> (i <= Consumed \/ i = b)
  <2>1. SUFFICES ASSUME NEW i \in LineStarts PROVE i <= e <=> (i <= Consumed \/ i = b)
    OBVIOUS
  <2>2. i \in Nat /\ file[i] # LineEnd /\ (i = 1 \/ file[i - 1] = LineEnd)
    BY Positions DEF LineStarts
  <2>3. Consumed \in Nat
    BY Positions
  <2>4. ~(b < i /\ i <= e)
    <3>1. SUFFICES ASSUME b < i, i <= e PROVE FALSE
      OBVIOUS
    <3>2. i - 1 \in b .. e - 1 /\ i # 1
      BY <1>1, <1>3, <2>2, <2>3, <3>1
    <3>3. QED
      BY <1>3, <2>2, <3>2 DEF EndsAt
  <2>5. QED
    BY <1>1, <1>3, <2>2, <2>3, <2>4
<1>15. HandedOut(new)'
  <2>1. \A k \in DOMAIN lines' : IsLine(lines'[k], new[k])
    <3>1. IsLine(l, b)
      <4>1. e \in DOMAIN file
        BY <1>3, Positions
      <4>2. QED
        BY <1>3, <4>1 DEF IsLine
    <3>2. \A k \in 1 .. n : IsLine(lines[k], start[k])
      BY <1>7, <1>9 DEF HandedOut
    <3>3. \A k \in 1 .. n + 1 : IsLine(lines'[k], new[k])
      BY <1>9, <1>11, <1>12, <3>1, <3>2
    <3>4. QED
      BY <1>9, <3>3
  <2>2. \A j, k \in DOMAIN lines' : j < k => new[j] < new[k]
    <3>1. \A j, k \in 1 .. n : j < k => start[j] < start[k]
      BY <1>7, <1>9 DEF HandedOut
    <3>2. \A k \in 1 .. n : ~(n + 1 < k)
      BY <1>9
    <3>3. ~(n + 1 < n + 1)
      BY <1>9
    <3>4. QED
      BY <1>9, <1>11, <1>12, <3>1, <3>2, <3>3
  <2>3. \A i \in LineStarts : \A k \in DOMAIN lines' :
          i < new[k] => \E j \in DOMAIN lines' : new[j] = i
    <3>1. SUFFICES ASSUME NEW i \in LineStarts, NEW k \in 1 .. n + 1, i < new[k]
                   PROVE  \E j \in 1 .. n : start[j] = i
      <4>1. \A j \in 1 .. n : j \in 1 .. n + 1
        BY <1>9
      <4>2. QED
        BY <1>9, <1>11, <4>1, Zenon
    <3>2. CASE k = n + 1
      <4>1. i \in Nat /\ Consumed \in Nat
        BY Positions DEF LineStarts
      <4>2. i <= Consumed
        BY <1>1, <1>11, <3>1, <3>2, <4>1
      <4>3. QED
        BY <1>7, <1>9, <4>2
    <3>3. CASE k \in 1 .. n
      BY <1>7, <1>9, <1>11, <3>1, <3>3 DEF HandedOut
    <3>4. QED
      BY <1>12, <3>2, <3>3
  <2>4. QED
    BY <1>13, <2>1, <2>2, <2>3, Zenon DEF HandedOut, IsLine, EndsAt
<1>16. \A i \in LineStarts : i <= Consumed' <=> \E k \in 1 .. n + 1 : new[k] = i
  <2>1. \A i \in LineStarts : i <= Consumed <=> \E k \in 1 .. n : start[k] = i
    BY <1>7, <1>9
  <2>2. \A i \in LineStarts :
          (\E k \in 1 .. n + 1 : new[k] = i) <=> (i = b \/ \E k \in 1 .. n : start[k] = i)
    <3>1. \A k \in 1 .. n : k \in 1 .. n + 1
      BY <1>9
    <3>2. n + 1 \in 1 .. n + 1
      BY <1>9
    <3>3. QED
      BY <1>11, <1>12, <3>1, <3>2
  <2>3. QED
    BY <1>4, <1>14, <2>1, <2>2
<1>17. HandedInv'
  <2>1. /\ new \in [DOMAIN lines' -> LineStarts']
        /\ \A i \in LineStarts' : i <= Consumed' <=> \E k \in DOMAIN lines' : new[k] = i
    BY <1>9, <1>11, <1>13, <1>16
  <2>2. lines' \in Seq(Seq(Bytes))
    BY <1>9
  <2>3. QED
    BY <1>15, <2>1, <2>2, Zenon DEF HandedInv
<1>18. QED
  BY <1>2, <1>5, <1>6, <1>17 DEF ClosedInv

(* Every step, and every stutter, keeps the invariant.                     *)
LEMMA StepInv == ReaderInv /\ [Next]_vars => ReaderInv'
<1> SUFFICES ASSUME ReaderInv, [Next]_vars PROVE ReaderInv'
  OBVIOUS
<1>1. CASE HasStillLine
  BY <1>1, HasStillLineInv
<1>2. CASE NextBlock
  BY <1>2, NextBlockInv
<1>3. CASE \E n \in Returned : Read(n)
  BY <1>3, ReadInv
<1>4. CASE NextHandler
  BY <1>4, NextHandlerInv
<1>5. CASE UNCHANGED vars
  <2>1. UNCHANGED <<file, offset, buffer, cur, next_line_end, pc, lines>>
    BY <1>5 DEF vars
  <2>2. UNCHANGED <<size, Base, Consumed, LineStarts>>
    BY <2>1 DEF size, Base, Consumed, LineStarts
  <2>3. BufferInv' /\ PositionInv'
    BY <2>1, <2>2, Zenon DEF ReaderInv, BufferInv, PositionInv
  <2>4. HandedInv'
    <3>1. file \in Seq(Bytes) /\ HandedInv
      BY DEF ReaderInv, BufferInv
    <3>2. Consumed \in Nat /\ Consumed' \in Nat /\ Consumed <= Consumed'
      BY <2>2, Positions DEF ReaderInv
    <3>3. \A i \in Consumed + 1 .. Consumed' : file[i] = LineEnd
      BY <2>2, <3>2
    <3>4. QED
      BY <2>1, <3>1, <3>2, <3>3, HandedKept
  <2>5. ClosedInv'
    BY <2>1, <2>2, Zenon DEF ReaderInv, ClosedInv, EndsAt
  <2>6. QED
    BY <2>3, <2>4, <2>5 DEF ReaderInv
<1>6. QED
  BY <1>1, <1>2, <1>3, <1>4, <1>5 DEF Next

(* Of the first line that was not handed out, if it has an end, the task   *)
(* had read all or the buffer is too small for it.                         *)
LEMMA NothingLeft ==
  ASSUME ReaderInv, pc = "closed", EveryLineFits,
         NEW i \in LineStarts, Terminated(i), Consumed < i
  PROVE  FALSE
<1> DEFINE Others == {j \in 1 .. Len(file) : Base < j /\ file[j] # LineEnd}
<1>1. /\ Base \in Nat /\ Consumed \in Nat /\ Base <= Consumed /\ offset \in Nat
      /\ Base + size = offset /\ size \in Nat /\ Len(file) \in Nat /\ DOMAIN file = 1 .. Len(file)
  BY Positions DEF ReaderInv
<1>2. /\ offset = Len(file) \/ size = BlockSize
      /\ Base = 0 \/ file[Base] = LineEnd
      /\ \A j \in LineStarts : \A e \in DOMAIN file : Base < j /\ e <= offset => ~EndsAt(j, e)
  BY DEF ReaderInv, ClosedInv
<1>3. i \in 1 .. Len(file) /\ Base < i /\ file[i] # LineEnd
  BY <1>1 DEF LineStarts
<1>4. i \in Others /\ Others \in SUBSET Nat
  BY <1>3
<1>5. PICK b : b = Min(Others)
  OBVIOUS
<1>6. b \in Others /\ \A j \in Others : b <= j
  BY <1>4, <1>5, HasMin
<1>7. b \in 1 .. Len(file) /\ Base < b /\ file[b] # LineEnd /\ b <= i
  BY <1>4, <1>6
<1>8. \A j \in Base + 1 .. b - 1 : file[j] = LineEnd
  <2>1. SUFFICES ASSUME NEW j \in Base + 1 .. b - 1, file[j] # LineEnd PROVE FALSE
    OBVIOUS
  <2>2. j \in 1 .. Len(file) /\ Base < j /\ j < b
    BY <1>1, <1>7, <2>1
  <2>3. j \in Others
    BY <2>1, <2>2
  <2>4. QED
    BY <1>6, <1>7, <2>2, <2>3
<1>9. b \in LineStarts
  <2>1. CASE b = Base + 1
    <3>1. b - 1 = Base
      BY <1>1, <2>1
    <3>2. b = 1 \/ file[b - 1] = LineEnd
      <4>1. CASE Base = 0
        BY <2>1, <4>1
      <4>2. CASE file[Base] = LineEnd
        BY <3>1, <4>2
      <4>3. QED
        BY <1>2, <4>1, <4>2
    <3>3. QED
      BY <1>1, <1>7, <3>2 DEF LineStarts
  <2>2. CASE b # Base + 1
    <3>1. b - 1 \in Base + 1 .. b - 1
      BY <1>1, <1>7, <2>2
    <3>2. QED
      BY <1>1, <1>7, <1>8, <3>1 DEF LineStarts
  <2>3. QED
    BY <2>1, <2>2
<1> DEFINE EndsBehind == {x \in b .. Len(file) : file[x] = LineEnd}
<1>10. PICK f \in DOMAIN file : EndsAt(i, f)
  BY DEF Terminated
<1>11. f \in EndsBehind /\ EndsBehind \in SUBSET Nat
  <2>1. f \in i + 1 .. Len(file) /\ file[f] = LineEnd
    BY <1>10 DEF EndsAt
  <2>2. f \in b .. Len(file)
    BY <1>3, <1>7, <2>1
  <2>3. QED
    BY <1>7, <2>1, <2>2
<1>12. PICK e : e = Min(EndsBehind)
  OBVIOUS
<1>13. e \in EndsBehind /\ \A x \in EndsBehind : e <= x
  BY <1>11, <1>12, HasMin
<1>14. EndsAt(b, e) /\ e \in DOMAIN file
  <2>1. e \in b .. Len(file) /\ file[e] = LineEnd /\ e # b
    BY <1>7, <1>13
  <2>2. e \in b + 1 .. Len(file)
    BY <1>7, <2>1
  <2>3. \A j \in b .. e - 1 : file[j] # LineEnd
    <3>1. SUFFICES ASSUME NEW j \in b .. e - 1, file[j] = LineEnd PROVE FALSE
      OBVIOUS
    <3>2. j \in b .. Len(file) /\ j < e
      BY <1>7, <2>1, <3>1
    <3>3. j \in EndsBehind
      BY <3>1, <3>2
    <3>4. QED
      BY <1>7, <1>13, <2>1, <3>2, <3>3
  <2>4. QED
    BY <1>1, <1>7, <2>1, <2>2, <2>3 DEF EndsAt
<1>15. e - (Base + 1) + 1 <= BlockSize
  <2>1. Base + 1 \in 1 .. b /\ (Base + 1) - 1 = Base
    BY <1>1, <1>7
  <2>2. Base + 1 = 1 \/ file[(Base + 1) - 1] = LineEnd
    <3>1. CASE Base = 0
      BY <3>1
    <3>2. CASE file[Base] = LineEnd
      BY <2>1, <3>2, Zenon
    <3>3. QED
      BY <1>2, <3>1, <3>2
  <2>3. QED
    BY <1>8, <1>9, <1>14, <2>1, <2>2 DEF EveryLineFits
<1>16. e <= offset
  <2>1. e \in Nat /\ e <= Len(file) /\ BlockSize \in Nat
    BY <1>1, <1>14, ReaderAssumption
  <2>2. e <= Base + BlockSize
    BY <1>1, <1>15, <2>1
  <2>3. QED
    BY <1>1, <1>2, <2>1, <2>2
<1>17. QED
  BY <1>2, <1>7, <1>9, <1>14, <1>16

--------------------------------------------------------------------------------
(* The theorems.                                                           *)

(* The buffer always holds the bytes read last, what is left begins where  *)
(* a line may begin, and what was handed out is what was consumed          *)
(* (cReader.h, ReaderBuffer).                                              *)
THEOREM ReaderInvariance == Spec => []ReaderInv
<1>1. Init => ReaderInv
  BY InitInv
<1>2. ReaderInv /\ [Next]_vars => ReaderInv'
  BY StepInv
<1>3. QED
  BY <1>1, <1>2, PTL DEF Spec

(* LinesInOrder: however the reads cut the file and whatever the size of   *)
(* the buffer, no line is torn, altered, repeated or left out before one   *)
(* that is handed out (cReader.h, NextBlock and FindLineEnd).              *)
THEOREM LinesComeInOrder == Spec => []LinesInOrder
<1>1. ReaderInv => LinesInOrder
  BY DEF ReaderInv, HandedInv, LinesInOrder
<1>2. QED
  BY <1>1, ReaderInvariance, PTL

(* EveryLineRead: if the lines fit into the buffer, reading stops only     *)
(* when every line with an end was handed out (cReader.h, HasStillLine).   *)
THEOREM LinesAllRead == Spec => []EveryLineRead
<1>1. ReaderInv => EveryLineRead
  <2> SUFFICES ASSUME ReaderInv, pc = "closed", EveryLineFits
               PROVE  \E start \in [DOMAIN lines -> LineStarts] :
                        /\ HandedOut(start)
                        /\ \A i \in LineStarts :
                             Terminated(i) => \E k \in DOMAIN lines : start[k] = i
    BY DEF EveryLineRead
  <2>1. PICK start \in [DOMAIN lines -> LineStarts] :
          /\ HandedOut(start)
          /\ \A i \in LineStarts : i <= Consumed <=> \E k \in DOMAIN lines : start[k] = i
    BY DEF ReaderInv, HandedInv
  <2>2. \A i \in LineStarts : Terminated(i) => i <= Consumed
    <3>1. SUFFICES ASSUME NEW i \in LineStarts, Terminated(i), ~(i <= Consumed) PROVE FALSE
      OBVIOUS
    <3>2. i \in Nat /\ Consumed \in Nat
      BY Positions DEF ReaderInv, LineStarts
    <3>3. Consumed < i
      BY <3>1, <3>2
    <3>4. QED
      BY <3>1, <3>3, NothingLeft
  <2>3. QED
    BY <2>1, <2>2
<1>2. QED
  BY <1>1, ReaderInvariance, PTL
--------------------------------------------------------------------------------
(* The search of a text in a line.                                         *)

(* A set of positions up to some bound has a last one.                     *)
LEMMA HasMax ==
  ASSUME NEW b \in Nat, NEW T \in SUBSET (0 .. b), T # {}
  PROVE  Max(T) \in T /\ \A j \in T : j <= Max(T)
<1> DEFINE Left == {x \in 0 .. b : b - x \in T}
<1>1. Left \in SUBSET Nat /\ Left # {}
  <2>1. PICK x \in T : TRUE
    OBVIOUS
  <2>2. b - x \in 0 .. b /\ b - (b - x) = x
    OBVIOUS
  <2>3. b - x \in Left
    BY <2>2
  <2>4. Left \subseteq Nat
    OBVIOUS
  <2>5. QED
    BY <2>3, <2>4
<1>2. PICK m : m \in Left /\ \A x \in Left : m <= x
  BY <1>1, HasMin, Zenon
<1>3. b - m \in T /\ m \in 0 .. b
  BY <1>2
<1>4. \A j \in T : j <= b - m
  <2>1. SUFFICES ASSUME NEW j \in T PROVE j <= b - m
    OBVIOUS
  <2>2. j \in 0 .. b /\ b - j \in 0 .. b /\ b - (b - j) = j
    OBVIOUS
  <2>3. m <= b - j
    BY <1>2, <2>1, <2>2
  <2>4. QED
    BY <1>3, <2>2, <2>3
<1>5. \A j \in T : b - m >= j
  BY <1>3, <1>4
<1>6. Max(T) \in T /\ \A j \in T : Max(T) >= j
  BY <1>3, <1>5, Zenon DEF Max
<1>7. QED
  BY <1>6

(* The first m letters of p are at place i of the text, and no more.       *)
LongestMatch(text, p, i, m) ==
  /\ m \in 0 .. Len(p)
  /\ i + m - 1 <= Len(text)
  /\ \A k \in 1 .. m : text[i + k - 1] = p[k]
  /\ m = Len(p) \/ i + m > Len(text) \/ text[i + m] # p[m + 1]

(* A partial match of the search is the longest one at its place.          *)
LEMMA MatchedIs ==
  ASSUME NEW S, NEW T, NEW text \in Seq(S), NEW p \in Seq(T),
         NEW i \in 1 .. Len(text), NEW m, m = Matched(text, p, i)
  PROVE  LongestMatch(text, p, i, m)
<1> DEFINE Match(n) == i + n - 1 <= Len(text) /\ \A k \in 1 .. n : text[i + k - 1] = p[k]
           Lengths == {n \in 0 .. Len(p) : Match(n)}
<1>1. Len(text) \in Nat /\ Len(p) \in Nat
  OBVIOUS
<1>2. 0 \in Lengths /\ Lengths \in SUBSET (0 .. Len(p))
  BY <1>1
<1>3. m = Max(Lengths)
  BY DEF Matched
<1>4. m \in Lengths /\ \A n \in Lengths : n <= m
  BY <1>1, <1>2, <1>3, HasMax, Zenon
<1>5. CASE m # Len(p) /\ i + m <= Len(text) /\ text[i + m] = p[m + 1]
  <2>1. m + 1 \in 0 .. Len(p) /\ i + (m + 1) - 1 <= Len(text)
    BY <1>1, <1>4, <1>5
  <2>2. \A k \in 1 .. m + 1 : text[i + k - 1] = p[k]
    <3>1. SUFFICES ASSUME NEW k \in 1 .. m + 1 PROVE text[i + k - 1] = p[k]
      OBVIOUS
    <3>2. CASE k = m + 1
      <4>1. i + k - 1 = i + m
        BY <1>4, <3>2
      <4>2. QED
        BY <1>5, <3>2, <4>1
    <3>3. CASE k # m + 1
      <4>1. k \in 1 .. m
        BY <1>4, <3>3
      <4>2. QED
        BY <1>4, <4>1
    <3>4. QED
      BY <3>2, <3>3
  <2>3. m + 1 \in Lengths
    BY <2>1, <2>2
  <2>4. m + 1 <= m
    BY <1>4, <2>3, Zenon
  <2>5. m \in Nat
    BY <1>1, <1>4
  <2>6. QED
    BY <2>4, <2>5
<1>6. QED
  BY <1>4, <1>5, <1>1 DEF LongestMatch

(* The places the search goes on from, one after the other: what it finds  *)
(* from each of them is a function of the places behind it.                *)
FoundFrom(text, p, i, f) ==
  IF i > Len(text) THEN 0
  ELSE LET m == Matched(text, p, i)
       IN  IF m = Len(p) THEN i - 1 + m
           ELSE IF i + m > Len(text) THEN 0
           ELSE IF m = 0 THEN f[i + 1] ELSE f[i + m]
IsSearch(text, p, from, f) ==
  f = [i \in from .. Len(text) + 1 |-> FoundFrom(text, p, i, f)]

(* What is found from a place depends on the places behind it only.        *)
LEMMA FoundFromBehind ==
  ASSUME NEW S, NEW T, NEW text \in Seq(S), NEW p \in Seq(T),
         NEW i \in 1 .. Len(text) + 1, NEW f, NEW g,
         \A j \in i + 1 .. Len(text) + 1 : f[j] = g[j]
  PROVE  FoundFrom(text, p, i, f) = FoundFrom(text, p, i, g)
<1>1. Len(text) \in Nat
  OBVIOUS
<1>2. CASE i > Len(text)
  BY <1>2 DEF FoundFrom
<1>3. CASE ~(i > Len(text))
  <2>1. PICK m : m = Matched(text, p, i)
    OBVIOUS
  <2>2. i \in 1 .. Len(text)
    BY <1>1, <1>3
  <2>3. m \in Nat
    <3>1. LongestMatch(text, p, i, m)
      BY <2>1, <2>2, MatchedIs, Zenon
    <3>2. QED
      BY <3>1 DEF LongestMatch
  <2>4. f[i + 1] = g[i + 1]
    BY <1>1, <2>2
  <2>5. m # 0 /\ ~(i + m > Len(text)) => f[i + m] = g[i + m]
    BY <1>1, <2>2, <2>3
  <2>6. QED
    BY <2>1, <2>4, <2>5, <1>3, Zenon DEF FoundFrom
<1>4. QED
  BY <1>2, <1>3

(* There is such a function.                                               *)
LEMMA SearchExists ==
  ASSUME NEW S, NEW T, NEW text \in Seq(S), NEW p \in Seq(T)
  PROVE  \E f : IsSearch(text, p, 1, f)
<1> DEFINE Bad == {k \in 1 .. Len(text) + 1 : ~ \E f : IsSearch(text, p, k, f)}
<1>1. Len(text) \in Nat /\ Len(text) + 1 \in Nat
  OBVIOUS
<1>2. SUFFICES ASSUME Bad # {} PROVE FALSE
  <2>1. 1 \in 1 .. Len(text) + 1
    BY <1>1
  <2>2. QED
    BY <2>1
<1>3. Bad \in SUBSET (0 .. Len(text) + 1)
  BY <1>1
<1>4. PICK k : k \in Bad /\ \A j \in Bad : j <= k
  BY <1>1, <1>2, <1>3, HasMax, Zenon
<1>5. k \in 1 .. Len(text) + 1 /\ ~ \E f : IsSearch(text, p, k, f)
  BY <1>4
<1>6. CASE k = Len(text) + 1
  <2>1. PICK f : f = [i \in k .. Len(text) + 1 |-> 0]
    OBVIOUS
  <2>2. \A i \in k .. Len(text) + 1 : FoundFrom(text, p, i, f) = 0
    BY <1>1, <1>6 DEF FoundFrom
  <2>3. f = [i \in k .. Len(text) + 1 |-> FoundFrom(text, p, i, f)]
    BY <2>1, <2>2, Zenon
  <2>4. QED
    BY <2>3, <1>5, Zenon DEF IsSearch
<1>7. CASE k # Len(text) + 1
  <2>1. k + 1 \in 1 .. Len(text) + 1 /\ ~(k + 1 <= k)
    BY <1>1, <1>5, <1>7
  <2>2. k + 1 \notin Bad
    BY <1>4, <2>1, Zenon
  <2>3. PICK f : IsSearch(text, p, k + 1, f)
    BY <2>1, <2>2
  <2>4. PICK g : g = [i \in k .. Len(text) + 1 |-> IF i = k THEN FoundFrom(text, p, k, f) ELSE f[i]]
    OBVIOUS
  <2>5. \A i \in k + 1 .. Len(text) + 1 : f[i] = g[i] /\ f[i] = FoundFrom(text, p, i, f)
    <3>1. \A i \in k + 1 .. Len(text) + 1 : i \in k .. Len(text) + 1 /\ i # k
      BY <1>5
    <3>2. \A i \in k + 1 .. Len(text) + 1 : f[i] = FoundFrom(text, p, i, f)
      BY <2>3, Zenon DEF IsSearch
    <3>3. QED
      BY <3>1, <3>2, <2>4, Zenon
  <2>6. \A i \in k .. Len(text) + 1 : FoundFrom(text, p, i, f) = FoundFrom(text, p, i, g)
    <3>1. SUFFICES ASSUME NEW i \in k .. Len(text) + 1
                   PROVE  FoundFrom(text, p, i, f) = FoundFrom(text, p, i, g)
      OBVIOUS
    <3>2. i \in 1 .. Len(text) + 1 /\ \A j \in i + 1 .. Len(text) + 1 : j \in k + 1 .. Len(text) + 1
      BY <1>1, <1>5
    <3>3. \A j \in i + 1 .. Len(text) + 1 : f[j] = g[j]
      BY <3>2, <2>5, Zenon
    <3>4. QED
      BY <3>2, <3>3, FoundFromBehind
  <2>7. \A i \in k .. Len(text) + 1 : g[i] = FoundFrom(text, p, i, g)
    <3>1. SUFFICES ASSUME NEW i \in k .. Len(text) + 1
                   PROVE  g[i] = FoundFrom(text, p, i, g)
      OBVIOUS
    <3>2. CASE i = k
      BY <3>2, <2>4, <2>6, Zenon
    <3>3. CASE i # k
      <4>1. i \in k + 1 .. Len(text) + 1
        BY <1>1, <1>5, <3>3
      <4>2. QED
        BY <4>1, <2>5, <2>6, Zenon
    <3>4. QED
      BY <3>2, <3>3
  <2>8. g = [i \in k .. Len(text) + 1 |-> FoundFrom(text, p, i, g)]
    <3>1. g = [i \in k .. Len(text) + 1 |-> g[i]]
      BY <2>4
    <3>2. QED
      BY <3>1, <2>7, Zenon
  <2>9. QED
    BY <2>8, <1>5, Zenon DEF IsSearch
<1>8. QED
  BY <1>6, <1>7

(* The search is that function, from the first place.                      *)
LEMMA SearchIs ==
  ASSUME NEW S, NEW T, NEW text \in Seq(S), NEW p \in Seq(T)
  PROVE  \E f : IsSearch(text, p, 1, f) /\ Search(text, p) = f[1]
<1>1. PICK f : f = CHOOSE h : IsSearch(text, p, 1, h)
  OBVIOUS
<1>2. IsSearch(text, p, 1, f)
  BY <1>1, SearchExists, Zenon
<1>3. Search(text, p) = f[1]
  BY <1>1 DEF Search, IsSearch, FoundFrom
<1>4. QED
  BY <1>2, <1>3

(* An occurrence of p that begins at a place.                              *)
OccursAt(text, p, j) ==
  /\ j + Len(p) - 1 <= Len(text)
  /\ \A k \in 1 .. Len(p) : text[j + k - 1] = p[k]

(* What is right to find from a place: the end of an occurrence that is    *)
(* not before it, or nothing; and, when the first letter of p does not     *)
(* occur in it again, nothing only if there is no occurrence, and no       *)
(* occurrence before the one that is found.                                *)
RightFrom(text, p, i, r) ==
  /\ r \in Nat
  /\ r # 0 => /\ r \in Len(p) .. Len(text)
              /\ \A k \in 1 .. Len(p) : text[r - Len(p) + k] = p[k]
  /\ StartIsUnique(p) /\ Len(p) > 0 => \A j \in i .. Len(text) :
       OccursAt(text, p, j) => r # 0 /\ r <= j + Len(p) - 1

(* After a partial match of m letters there is no occurrence in it, if the *)
(* first letter of p does not occur in p again.                            *)
LEMMA NoOccurrenceInMatch ==
  ASSUME NEW S, NEW T, NEW text \in Seq(S), NEW p \in Seq(T), StartIsUnique(p),
         NEW i \in 1 .. Len(text), NEW m, m = Matched(text, p, i), m # Len(p),
         NEW j \in i .. Len(text), OccursAt(text, p, j)
  PROVE  j >= i + m /\ j # i
<1>1. /\ m \in 0 .. Len(p) /\ Len(p) \in Nat /\ Len(text) \in Nat
      /\ \A k \in 1 .. m : text[i + k - 1] = p[k]
      /\ i + m > Len(text) \/ text[i + m] # p[m + 1]
  <2>1. Len(p) \in Nat /\ Len(text) \in Nat
    OBVIOUS
  <2>2. /\ m \in 0 .. Len(p)
        /\ \A k \in 1 .. m : text[i + k - 1] = p[k]
        /\ m = Len(p) \/ i + m > Len(text) \/ text[i + m] # p[m + 1]
    <3>1. LongestMatch(text, p, i, m)
      BY MatchedIs, Zenon
    <3>2. QED
      BY <3>1 DEF LongestMatch
  <2>3. QED
    BY <2>1, <2>2
<1>2. m + 1 \in 1 .. Len(p) /\ 1 \in 1 .. Len(p)
  BY <1>1
<1>3. \A k \in 1 .. Len(p) : text[j + k - 1] = p[k]
  BY DEF OccursAt
<1>4. j # i
  <2>1. SUFFICES ASSUME j = i PROVE FALSE
    OBVIOUS
  <2>2. i + (m + 1) - 1 = i + m
    BY <1>1
  <2>3. text[i + (m + 1) - 1] = p[m + 1]
    BY <1>2, <1>3, <2>1, Zenon
  <2>4. i + m <= Len(text)
    BY <1>1, <1>2, <2>1 DEF OccursAt
  <2>5. QED
    BY <1>1, <2>2, <2>3, <2>4
<1>5. ~(j < i + m)
  <2>1. SUFFICES ASSUME j < i + m PROVE FALSE
    OBVIOUS
  <2>2. PICK k : k = j - i + 1
    OBVIOUS
  <2>3. k \in 2 .. Len(p) /\ k \in 1 .. m /\ i + k - 1 = j /\ j + 1 - 1 = j
    BY <1>1, <1>4, <2>1, <2>2
  <2>4. text[j] = p[k]
    <3>1. text[i + k - 1] = p[k]
      BY <1>1, <2>3
    <3>2. QED
      BY <2>3, <3>1
  <2>5. text[j] = p[1]
    <3>1. text[j + 1 - 1] = p[1]
      BY <1>2, <1>3
    <3>2. QED
      BY <2>3, <3>1
  <2>6. p[k] # p[1]
    BY <2>3 DEF StartIsUnique
  <2>7. QED
    BY <2>4, <2>5, <2>6
<1>6. QED
  BY <1>1, <1>4, <1>5

(* If it is right what is found from the places behind a place, so is what *)
(* is found from there.                                                    *)
LEMMA FoundFromRight ==
  ASSUME NEW S, NEW T, NEW text \in Seq(S), NEW p \in Seq(T),
         NEW i \in 1 .. Len(text) + 1, NEW f,
         \A j \in i + 1 .. Len(text) + 1 : RightFrom(text, p, j, f[j])
  PROVE  RightFrom(text, p, i, FoundFrom(text, p, i, f))
<1>1. Len(text) \in Nat /\ Len(p) \in Nat
  OBVIOUS
<1>2. CASE i > Len(text)
  <2>1. FoundFrom(text, p, i, f) = 0
    BY <1>2 DEF FoundFrom
  <2>2. \A j \in i .. Len(text) : FALSE
    BY <1>1, <1>2
  <2>3. QED
    BY <2>1, <2>2 DEF RightFrom
<1>3. CASE ~(i > Len(text))
  <2>1. PICK m : m = Matched(text, p, i)
    OBVIOUS
  <2>2. i \in 1 .. Len(text)
    BY <1>1, <1>3
  <2>3. /\ m \in 0 .. Len(p)
        /\ i + m - 1 <= Len(text)
        /\ \A k \in 1 .. m : text[i + k - 1] = p[k]
    <3>1. LongestMatch(text, p, i, m)
      BY <2>1, <2>2, MatchedIs, Zenon
    <3>2. QED
      BY <3>1 DEF LongestMatch
  <2>4. CASE m = Len(p)
    <3>1. PICK r : r = FoundFrom(text, p, i, f)
      OBVIOUS
    <3>2. r = i - 1 + m
      BY <3>1, <2>1, <1>3, <2>4, Zenon DEF FoundFrom
    <3>3. r \in Nat /\ (Len(p) > 0 => r # 0) /\ r \in Len(p) .. Len(text)
      BY <1>1, <2>2, <2>3, <2>4, <3>2
    <3>4. \A k \in 1 .. Len(p) : text[r - Len(p) + k] = p[k]
      <4>1. SUFFICES ASSUME NEW k \in 1 .. Len(p) PROVE text[r - Len(p) + k] = p[k]
        OBVIOUS
      <4>2. r - Len(p) + k = i + k - 1
        BY <1>1, <2>2, <2>4, <3>2
      <4>3. QED
        BY <2>3, <2>4, <4>2
    <3>5. \A j \in i .. Len(text) : r <= j + Len(p) - 1
      BY <1>1, <2>2, <2>4, <3>2
    <3>6. RightFrom(text, p, i, r)
      BY <3>3, <3>4, <3>5, Zenon DEF RightFrom
    <3>7. QED
      BY <3>1, <3>6
  <2>5. CASE m # Len(p) /\ i + m > Len(text)
    <3>1. FoundFrom(text, p, i, f) = 0
      BY <2>1, <1>3, <2>5, Zenon DEF FoundFrom
    <3>2. StartIsUnique(p) => \A j \in i .. Len(text) : ~OccursAt(text, p, j)
      <4>1. SUFFICES ASSUME StartIsUnique(p), NEW j \in i .. Len(text), OccursAt(text, p, j)
                     PROVE  FALSE
        OBVIOUS
      <4>2. j >= i + m
        BY <2>1, <2>2, <2>5, <4>1, NoOccurrenceInMatch
      <4>3. QED
        BY <1>1, <2>3, <2>5, <4>2
    <3>3. RightFrom(text, p, i, 0)
      BY <3>2 DEF RightFrom
    <3>4. QED
      BY <3>1, <3>3, Zenon
  <2>6. CASE m # Len(p) /\ ~(i + m > Len(text))
    <3>1. PICK n : n = IF m = 0 THEN i + 1 ELSE i + m
      OBVIOUS
    <3>2. FoundFrom(text, p, i, f) = f[n]
      BY <2>1, <1>3, <2>6, <3>1, Zenon DEF FoundFrom
    <3>3. n \in i + 1 .. Len(text) + 1
      BY <1>1, <2>2, <2>3, <2>6, <3>1
    <3>4. RightFrom(text, p, n, f[n])
      BY <3>3
    <3>5. ASSUME StartIsUnique(p), NEW j \in i .. Len(text), OccursAt(text, p, j)
          PROVE  j \in n .. Len(text)
      <4>1. j >= i + m /\ j # i
        BY <2>1, <2>2, <2>6, <3>5, NoOccurrenceInMatch
      <4>2. QED
        BY <1>1, <2>2, <2>3, <3>1, <4>1
    <3>6. RightFrom(text, p, i, f[n])
      BY <3>4, <3>5, Zenon DEF RightFrom
    <3>7. QED
      BY <3>2, <3>6
  <2>7. QED
    BY <2>4, <2>5, <2>6
<1>4. QED
  BY <1>2, <1>3

(* What the search finds is right.                                         *)
LEMMA SearchRight ==
  ASSUME NEW S, NEW T, NEW text \in Seq(S), NEW p \in Seq(T)
  PROVE  RightFrom(text, p, 1, Search(text, p))
<1>1. Len(text) \in Nat /\ Len(text) + 1 \in Nat
  OBVIOUS
<1>2. PICK f : IsSearch(text, p, 1, f) /\ Search(text, p) = f[1]
  BY SearchIs
<1>3. \A i \in 1 .. Len(text) + 1 : f[i] = FoundFrom(text, p, i, f)
  BY <1>2, Zenon DEF IsSearch
<1> DEFINE Bad == {k \in 1 .. Len(text) + 1 : ~RightFrom(text, p, k, f[k])}
<1>4. Bad = {}
  <2>1. SUFFICES ASSUME Bad # {} PROVE FALSE
    OBVIOUS
  <2>2. Bad \in SUBSET (0 .. Len(text) + 1)
    BY <1>1
  <2>3. PICK k : k \in Bad /\ \A j \in Bad : j <= k
    BY <1>1, <2>1, <2>2, HasMax, Zenon
  <2>4. k \in 1 .. Len(text) + 1 /\ ~RightFrom(text, p, k, f[k])
    BY <2>3
  <2>5. \A j \in k + 1 .. Len(text) + 1 : RightFrom(text, p, j, f[j])
    <3>1. SUFFICES ASSUME NEW j \in k + 1 .. Len(text) + 1 PROVE RightFrom(text, p, j, f[j])
      OBVIOUS
    <3>2. j \in 1 .. Len(text) + 1 /\ ~(j <= k)
      BY <1>1, <2>4
    <3>3. j \notin Bad
      BY <2>3, <3>2, Zenon
    <3>4. QED
      BY <3>2, <3>3
  <2>6. RightFrom(text, p, k, FoundFrom(text, p, k, f))
    BY <2>4, <2>5, FoundFromRight
  <2>7. QED
    BY <1>3, <2>4, <2>6, Zenon
<1>5. 1 \in 1 .. Len(text) + 1
  BY <1>1
<1>6. RightFrom(text, p, 1, f[1])
  BY <1>4, <1>5
<1>7. QED
  BY <1>2, <1>6

(* The search of a line, as the matchers do it: it fails when there is no  *)
(* place, and otherwise ends behind the place.                             *)
LEMMA MatcherSearches ==
  ASSUME NEW S, NEW T, NEW text \in Seq(S), NEW p \in Seq(T),
         NEW h, h = ConsumeAndTrimTillString(Reset(text), p)
  PROVE  /\ h.pos = IF h.ok THEN Search(text, p) ELSE 0
         /\ h.ok <=> Len(text) >= Len(p) /\ Search(text, p) # 0
<1>1. Len(text) \in Nat /\ Len(p) \in Nat
  OBVIOUS
<1>2. Rest(Reset(text)) = text /\ CurLength(Reset(text)) = Len(text)
  <2>1. Rest(Reset(text)) = SubSeq(text, 1, Len(text))
    BY DEF Rest, Reset
  <2>2. CurLength(Reset(text)) = Len(text)
    BY <1>1 DEF CurLength, Reset
  <2>3. QED
    BY <2>1, <2>2, SubSeqFull
<1>3. CASE CurLength(Reset(text)) < Len(p) \/ Search(text, p) = 0
  <2>1. h = Failed(Reset(text))
    BY <1>2, <1>3, Zenon DEF ConsumeAndTrimTillString
  <2>2. h.pos = 0 /\ h.ok = FALSE
    BY <2>1 DEF Failed, Reset
  <2>3. QED
    BY <1>1, <1>2, <1>3, <2>2
<1>4. CASE ~(CurLength(Reset(text)) < Len(p) \/ Search(text, p) = 0)
  <2>1. h = Moved(Reset(text), Search(text, p))
    BY <1>2, <1>4, Zenon DEF ConsumeAndTrimTillString
  <2>2. h.pos = 0 + Search(text, p) /\ h.ok = TRUE
    BY <2>1 DEF Moved, Reset
  <2>3. Search(text, p) \in Nat
    BY SearchRight DEF RightFrom
  <2>4. QED
    BY <1>1, <1>2, <1>4, <2>2, <2>3
<1>5. QED
  BY <1>3, <1>4

(* Nothing is found where nothing is searched for.                         *)
LEMMA SearchOfNothing ==
  ASSUME NEW S, NEW T, NEW text \in Seq(S), NEW p \in Seq(T)
  PROVE  Len(p) = 0 => Search(text, p) = 0
<1>1. Len(text) \in Nat /\ 1 \in 1 .. Len(text) + 1
  OBVIOUS
<1>2. PICK f : IsSearch(text, p, 1, f) /\ Search(text, p) = f[1]
  BY SearchIs
<1>3. f[1] = FoundFrom(text, p, 1, f)
  BY <1>1, <1>2, Zenon DEF IsSearch
<1>4. CASE 1 > Len(text)
  BY <1>2, <1>3, <1>4 DEF FoundFrom
<1>5. CASE ~(1 > Len(text))
  <2>1. PICK m : m = Matched(text, p, 1)
    OBVIOUS
  <2>2. 1 \in 1 .. Len(text)
    BY <1>1, <1>5
  <2>3. m \in 0 .. Len(p)
    <3>1. LongestMatch(text, p, 1, m)
      BY <2>1, <2>2, MatchedIs, Zenon
    <3>2. QED
      BY <3>1 DEF LongestMatch
  <2>4. HAVE Len(p) = 0
  <2>5. m = Len(p) /\ m = 0
    BY <2>3, <2>4
  <2>6. f[1] = 1 - 1 + m
    BY <1>3, <1>5, <2>1, <2>5, Zenon DEF FoundFrom
  <2>7. QED
    BY <1>2, <2>5, <2>6
<1>6. QED
  BY <1>4, <1>5

(* A part of a text is p if it has the letters of p.                       *)
LEMMA PartIs ==
  ASSUME NEW S, NEW T, NEW text \in Seq(S), NEW p \in Seq(T), NEW n \in Len(p) .. Len(text)
  PROVE  SubSeq(text, n - Len(p) + 1, n) = p <=> \A k \in 1 .. Len(p) : text[n - Len(p) + k] = p[k]
<1>1. PICK M : M = Len(p)
  OBVIOUS
<1>2. PICK part : part = SubSeq(text, n - M + 1, n)
  OBVIOUS
<1>3. M \in Nat /\ Len(text) \in Nat /\ n \in M .. Len(text)
  BY <1>1
<1>4. /\ part \in Seq(S) /\ Len(part) = M
      /\ \A k \in 1 .. M : part[k] = text[n - M + k]
  <2>1. n - M + 1 \in Int /\ n \in Int
    BY <1>3
  <2>2. \A i \in n - M + 1 .. n : i \in 1 .. Len(text)
    BY <1>3
  <2>3. \A i \in n - M + 1 .. n : text[i] \in S
    BY <2>2
  <2>4. /\ part \in Seq(S)
        /\ Len(part) = IF n - M + 1 <= n THEN n - (n - M + 1) + 1 ELSE 0
        /\ \A k \in 1 .. n - (n - M + 1) + 1 : part[k] = text[(n - M + 1) + k - 1]
    BY <1>2, <2>1, <2>3, SubSeqProperties
  <2>5. n - (n - M + 1) + 1 = M
    BY <1>3
  <2>6. \A k \in 1 .. M : (n - M + 1) + k - 1 = n - M + k
    BY <1>3
  <2>7. Len(part) = M
    BY <1>3, <2>4, <2>5
  <2>8. \A k \in 1 .. M : part[k] = text[n - M + k]
    <3>1. \A k \in 1 .. M : part[k] = text[(n - M + 1) + k - 1]
      BY <2>4, <2>5, Zenon
    <3>2. QED
      BY <3>1, <2>6, Zenon
  <2>9. QED
    BY <2>4, <2>7, <2>8
<1>5. ASSUME \A k \in 1 .. M : part[k] = p[k]
      PROVE  part = p
  BY <1>1, <1>4, <1>5, SeqEqual
<1>6. part = p => \A k \in 1 .. M : part[k] = p[k]
  OBVIOUS
<1>7. part = p <=> \A k \in 1 .. M : part[k] = p[k]
  BY <1>5, <1>6
<1>8. part = p <=> \A k \in 1 .. M : text[n - M + k] = p[k]
  BY <1>4, <1>7, Zenon
<1>9. QED
  BY <1>1, <1>2, <1>8, Zenon

(* The ends of the occurrences of p: what is found is one of them, and the *)
(* first one if the first letter of p does not occur in p again.           *)
EndsOf(text, p) == {n \in Len(p) .. Len(text) : SubSeq(text, n - Len(p) + 1, n) = p}
LEMMA SearchAnswers ==
  ASSUME NEW S, NEW T, NEW text \in Seq(S), NEW p \in Seq(T),
         NEW r, r = Search(text, p),
         NEW ends, ends = EndsOf(text, p)
  PROVE  /\ r # 0 => Len(text) >= Len(p) /\ r \in ends
         /\ StartIsUnique(p) => r = IF ends = {} THEN 0 ELSE Min(ends)
<1>1. Len(text) \in Nat /\ Len(p) \in Nat
  OBVIOUS
<1>2. RightFrom(text, p, 1, r)
  BY SearchRight
<1>3. \A n \in Len(p) .. Len(text) :
        n \in ends <=> \A k \in 1 .. Len(p) : text[n - Len(p) + k] = p[k]
  <2>1. SUFFICES ASSUME NEW n \in Len(p) .. Len(text)
                 PROVE  n \in ends <=> \A k \in 1 .. Len(p) : text[n - Len(p) + k] = p[k]
    OBVIOUS
  <2>2. n \in ends <=> SubSeq(text, n - Len(p) + 1, n) = p
    BY <2>1, Zenon DEF EndsOf
  <2>3. SubSeq(text, n - Len(p) + 1, n) = p <=> \A k \in 1 .. Len(p) : text[n - Len(p) + k] = p[k]
    BY <2>1, PartIs
  <2>4. QED
    BY <2>2, <2>3, Zenon
<1>4. r # 0 => r \in Len(p) .. Len(text) /\ r \in ends
  BY <1>2, <1>3, Zenon DEF RightFrom
<1>5. r # 0 => Len(text) >= Len(p)
  BY <1>1, <1>4
<1>6. ASSUME StartIsUnique(p), Len(p) > 0
      PROVE  r = IF ends = {} THEN 0 ELSE Min(ends)
  <2>1. ASSUME NEW n \in ends
        PROVE  r # 0 /\ r <= n
    <3>1. PICK j : j = n - Len(p) + 1
      OBVIOUS
    <3>2. n \in Len(p) .. Len(text) /\ j \in 1 .. Len(text) /\ j + Len(p) - 1 = n
      BY <1>1, <1>6, <2>1, <3>1 DEF EndsOf
    <3>3. \A k \in 1 .. Len(p) : text[j + k - 1] = p[k]
      <4>1. SUFFICES ASSUME NEW k \in 1 .. Len(p) PROVE text[j + k - 1] = p[k]
        OBVIOUS
      <4>2. text[n - Len(p) + k] = p[k]
        BY <1>3, <2>1, <3>2
      <4>3. n - Len(p) + k = j + k - 1
        BY <1>1, <3>1, <3>2
      <4>4. QED
        BY <4>2, <4>3
    <3>4. OccursAt(text, p, j)
      BY <1>1, <3>2, <3>3 DEF OccursAt
    <3>5. r # 0 /\ r <= j + Len(p) - 1
      BY <1>2, <1>6, <3>2, <3>4, Zenon DEF RightFrom
    <3>6. QED
      BY <3>2, <3>5
  <2>2. CASE ends = {}
    BY <1>4, <2>2
  <2>3. CASE ends # {}
    <3>1. ends \in SUBSET Nat
      BY <1>1 DEF EndsOf
    <3>2. Min(ends) \in ends /\ \A n \in ends : Min(ends) <= n
      BY <3>1, <2>3, HasMin, Zenon
    <3>3. r \in ends /\ r <= Min(ends) /\ Min(ends) <= r
      BY <1>4, <2>1, <2>3, <3>2
    <3>4. r \in Nat /\ Min(ends) \in Nat
      BY <3>1, <3>2, <3>3
    <3>5. r = Min(ends)
      BY <3>3, <3>4
    <3>6. QED
      BY <2>3, <3>5
  <2>4. QED
    BY <2>2, <2>3
<1>7. ASSUME ~(Len(p) > 0)
      PROVE  r = IF ends = {} THEN 0 ELSE Min(ends)
  <2>1. Len(p) = 0
    BY <1>1, <1>7
  <2>2. r = 0
    BY <2>1, SearchOfNothing, Zenon
  <2>3. 0 \in ends
    <3>1. 0 \in Len(p) .. Len(text)
      BY <1>1, <2>1
    <3>2. \A k \in 1 .. Len(p) : FALSE
      BY <2>1
    <3>3. QED
      BY <1>3, <3>1, <3>2, Zenon
  <2>4. ends \in SUBSET Nat
    BY <1>1 DEF EndsOf
  <2>5. Min(ends) \in ends /\ \A n \in ends : Min(ends) <= n
    BY <2>3, <2>4, HasMin, Zenon
  <2>6. Min(ends) \in Nat /\ Min(ends) <= 0
    BY <2>3, <2>4, <2>5
  <2>7. QED
    BY <2>2, <2>3, <2>6
<1>8. QED
  BY <1>4, <1>5, <1>6, <1>7

(* The search of the matchers finds the first place where a text occurs    *)
(* whose first letter does not occur in it again, and never takes another  *)
(* place for one (cReader.cpp, ConsumeAndTrimTillString).                  *)
THEOREM SearchIsRight == Spec => []SearchFinds
<1>1. ReaderInv => SearchFinds
  <2>1. SUFFICES ASSUME ReaderInv, pc = "line", NEW p \in Patterns
                 PROVE  LET h == ConsumeAndTrimTillString(Reset(Line), p)
                        IN  /\ h.ok => h.pos \in Occurrences(p)
                            /\ ~h.ok => h.pos = 0
                            /\ StartIsUnique(p) =>
                                 h.pos = IF Occurrences(p) = {} THEN 0 ELSE Min(Occurrences(p))
    BY Zenon DEF SearchFinds
  <2>2. Line \in Seq(Bytes)
    <3>1. buffer \in Seq(Bytes) /\ cur \in 0 .. size /\ next_line_end \in cur + 1 .. size - 1
      BY <2>1 DEF ReaderInv, BufferInv, PositionInv
    <3>2. cur + 1 \in Int /\ next_line_end \in Int
          /\ \A i \in cur + 1 .. next_line_end : buffer[i] \in Bytes
      BY <3>1 DEF size
    <3>3. QED
      BY <3>1, <3>2, SubSeqProperties DEF Line
  <2>3. p \in Seq(ToSet(p))
    BY PatternsAssumption
  <2>4. PICK h : h = ConsumeAndTrimTillString(Reset(Line), p)
    OBVIOUS
  <2>5. PICK r : r = Search(Line, p)
    OBVIOUS
  <2>6. /\ h.pos = IF h.ok THEN r ELSE 0
        /\ h.ok <=> Len(Line) >= Len(p) /\ r # 0
    BY <2>2, <2>3, <2>4, <2>5, MatcherSearches
  <2>7. /\ r # 0 => Len(Line) >= Len(p) /\ r \in Occurrences(p)
        /\ StartIsUnique(p) => r = IF Occurrences(p) = {} THEN 0 ELSE Min(Occurrences(p))
    <3>1. PICK ends, text : ends = Occurrences(p) /\ text = Line
      OBVIOUS
    <3>2. ends = EndsOf(text, p)
      BY <3>1, Zenon DEF Occurrences, EndsOf
    <3>3. /\ r # 0 => Len(text) >= Len(p) /\ r \in ends
          /\ StartIsUnique(p) => r = IF ends = {} THEN 0 ELSE Min(ends)
      <4>1. text \in Seq(Bytes) /\ r = Search(text, p)
        BY <2>2, <2>5, <3>1, Zenon
      <4>2. QED
        BY <2>3, <3>2, <4>1, SearchAnswers
    <3>4. QED
      BY <3>1, <3>3, Zenon
  <2>8. h.pos = r
    BY <2>6, <2>7
  <2>9. /\ h.ok => h.pos \in Occurrences(p)
        /\ ~h.ok => h.pos = 0
        /\ StartIsUnique(p) =>
             h.pos = IF Occurrences(p) = {} THEN 0 ELSE Min(Occurrences(p))
    BY <2>6, <2>7, <2>8
  <2>10. QED
    BY <2>4, <2>9
<1>2. QED
  BY <1>1, ReaderInvariance, PTL
================================================================================
