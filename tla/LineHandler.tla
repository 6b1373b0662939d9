------------------------------ MODULE LineHandler ------------------------------
(***************************************************************************)
(* LineHandler of include/reader/cReader.h and source/reader/cReader.cpp:  *)
(* the matchers the log parsers are written with.                          *)
(*                                                                         *)
(* A line is a sequence of tokens.  A token is a digit, a blank, or a      *)
(* piece of text that a parser consumes at once.  A handler holds the      *)
(* line, the number of tokens consumed, whether every step so far          *)
(* succeeded, and the values read, by the name of the variable they are    *)
(* read into.                                                              *)
(*                                                                         *)
(* A parser is a chain  a and b and c  of calls: a sequence of steps, run  *)
(* by Parse.  The first one that fails ends it; what the earlier ones      *)
(* consumed stays consumed.                                                *)
(*                                                                         *)
(* Lengths are in tokens; where the code counts characters and it makes a  *)
(* difference, so does the model.                                          *)
(***************************************************************************)
EXTENDS Integers, Sequences, SequencesExt, TLC

CONSTANTS
  Words,      \* the texts of letters and digits (is_alnum)
  MaxULong,   \* ULONG_MAX
  MaxInt      \* INT_MAX

ASSUME LineHandlerAssumption == MaxULong \in Nat /\ MaxInt \in Nat

Blank == " "
Digits == <<"0", "1", "2", "3", "4", "5", "6", "7", "8", "9", "a", "b", "c", "d", "e", "f">>
DigitsOf(base) == {Digits[i] : i \in 1 .. base}

Reset(line) == [line |-> line, pos |-> 0, ok |-> TRUE, got |-> <<>>]
Rest(h) == SubSeq(h.line, h.pos + 1, Len(h.line))
CurLength(h) == Len(h.line) - h.pos
IsEmpty(h) == CurLength(h) <= 0

Moved(h, n) == [h EXCEPT !.pos = @ + n]
Failed(h) == [h EXCEPT !.ok = FALSE]
Got(h, name, value) == [h EXCEPT !.got = (name :> value) @@ @]

(* MoveForward goes on by a number of characters, which does not part a    *)
(* token in the lines considered.                                          *)
Characters(tokens) == FoldLeft(LAMBDA sum, t : sum + Len(t), 0, tokens)
MoveForward(h, steps) ==
  IF IsEmpty(h) \/ Characters(Rest(h)) < steps THEN Failed(h)
  ELSE Moved(h, CHOOSE n \in 1 .. Len(Rest(h)) : Characters(SubSeq(Rest(h), 1, n)) = steps)

(* The length of the longest run of tokens of a set at the reading         *)
(* position.                                                               *)
Run(h, tokens) ==
  Max({n \in 0 .. Len(Rest(h)) : \A i \in 1 .. n : Rest(h)[i] \in tokens})

TrimL(h) == Moved(h, Run(h, {Blank}))

TrimTillWhitespace(h) == Moved(h, Run(h, ToSet(h.line) \ {Blank}))

(* ExtractAndSubstrUntil, and its Into version, which wants something.     *)
Extracted(h, tokens) == SubSeq(Rest(h), 1, Run(h, tokens))
ExtractAndSubstrUntil(h, tokens, name) ==
  Moved(Got(h, name, Extracted(h, tokens)), Run(h, tokens))
ExtractAndSubstrUntilInto(h, tokens, name) ==
  LET after == ExtractAndSubstrUntil(h, tokens, name)
  IN  IF after.got[name] = <<>> THEN Failed(after) ELSE after

SkipTill(h, tokens) ==
  LET n == Run(h, ToSet(h.line) \ tokens)
  IN  IF n < CurLength(h) THEN Moved(h, n) ELSE Failed(h)

(* The search of ConsumeAndTrimTillString.  A partial match of m > 0       *)
(* tokens is not gone back into: the search continues behind it.  The      *)
(* result is the number of tokens up to the end of the match, 0 if there   *)
(* is none.                                                                *)
Matched(text, p, i) ==
  Max({m \in 0 .. Len(p) : /\ i + m - 1 <= Len(text)
                           /\ \A k \in 1 .. m : text[i + k - 1] = p[k]})
SearchSkipsMismatch(text, p) ==
  LET from[i \in 1 .. Len(text) + 2] ==
        IF i > Len(text) THEN 0
        ELSE LET m == Matched(text, p, i)
             IN  IF m = Len(p) THEN i - 1 + m
                 ELSE IF i + m > Len(text) THEN 0 ELSE from[i + m + 1]
  IN  from[1]
Search(text, p) ==
  LET from[i \in 1 .. Len(text) + 1] ==
        IF i > Len(text) THEN 0
        ELSE LET m == Matched(text, p, i)
             IN  IF m = Len(p) THEN i - 1 + m
                 ELSE IF i + m > Len(text) THEN 0
                 ELSE IF m = 0 THEN from[i + 1] ELSE from[i + m]
  IN  from[1]

ConsumeAndTrimTillString(h, p) ==
  LET n == Search(Rest(h), p)
  IN  IF CurLength(h) < Len(p) \/ n = 0 THEN Failed(h) ELSE Moved(h, n)

ConsumeAndTrimString(h, p) ==
  IF ~IsEmpty(h) /\ IsPrefix(p, Rest(h)) THEN Moved(h, Len(p)) ELSE Failed(h)

ConsumeAndTrimChar(h, c) ==
  IF ~IsEmpty(h) /\ Rest(h)[1] = c THEN Moved(h, 1) ELSE Failed(h)

(* strtoul and strtol: ULONG_MAX stands for every number from there on; a  *)
(* number that does not fit into an int wraps around.                      *)
ValueOf(digits, base) ==
  FoldLeft(LAMBDA sum, t : sum * base + (CHOOSE i \in 1 .. base : Digits[i] = t) - 1, 0, digits)
ToInt(n) == ((n + MaxInt + 1) % (2 * (MaxInt + 1))) - MaxInt - 1

(* With base 16 all letters and digits that follow are taken for the       *)
(* number, and strtoul converts the digits in front: a word is 0.  No word *)
(* that is taken so begins with one of the letters a to f.                 *)
ParseUintTrim(h, base, name) ==
  LET text   == Extracted(h, IF base = 10 THEN DigitsOf(10) ELSE DigitsOf(16) \cup Words)
      digits == Extracted(h, DigitsOf(base))
  IN  IF text = <<>> \/ ValueOf(digits, base) >= MaxULong
      THEN Failed(h)
      ELSE Moved(Got(h, name, ValueOf(digits, base)), Len(text))

ParseInt(h, name) ==
  LET digits == Extracted(h, DigitsOf(10))
  IN  IF digits = <<>> THEN Failed(h)
      ELSE Moved(Got(h, name, ToInt(ValueOf(digits, 10))), Len(digits))

ParseBoolFromUint(h, base, name) ==
  LET after == ParseUintTrim(h, base, name)
  IN  IF after.ok THEN Got(after, name, after.got[name] # 0) ELSE after

ParseBoolFromStringRepr(h, name) ==
  LET isTrue  == ConsumeAndTrimString(h, <<"true">>)
      isFalse == ConsumeAndTrimString(h, <<"false">>)
  IN  CASE isTrue.ok  -> Got(isTrue, name, TRUE)
        [] isFalse.ok -> Got(isFalse, name, FALSE)
        [] OTHER      -> Failed(h)

ParseBoolFromInt(h, name) ==
  LET after == ParseInt(h, name)
  IN  IF after.ok THEN Got(after, name, after.got[name] # 0) ELSE after

(* if (a) ... else if (b) ...: the first of some tokens that is there, or  *)
(* that occurs in what is left.                                            *)
First(tokens, found) == tokens[Min({i \in DOMAIN tokens : tokens[i] \in found})]
ConsumeFirstString(h, tokens, name) ==
  IF ~IsEmpty(h) /\ Rest(h)[1] \in ToSet(tokens)
  THEN Moved(Got(h, name, Rest(h)[1]), 1) ELSE Failed(h)
ConsumeTillFirstString(h, tokens, name) ==
  LET found == ToSet(tokens) \cap ToSet(Rest(h))
      first == First(tokens, found)
  IN  IF found = {} THEN Failed(h)
      ELSE Moved(Got(h, name, first), Search(Rest(h), <<first>>))

(* One more number of a list, none above a limit.                          *)
ParseNext(h, base, limit, name) ==
  LET after == ParseUintTrim(h, base, "next")
      list  == IF name \in DOMAIN h.got THEN h.got[name] ELSE <<>>
  IN  IF after.ok /\ after.got.next <= limit THEN Got(after, name, Append(list, after.got.next))
      ELSE Failed(after)

(* The steps a parser is written with, and a chain of them.                *)
Lit(token)         == <<"lit", token>>
Till(token)        == <<"till", token>>
Uint(base, name)   == <<"uint", base, name>>
Signed(name)       == <<"int", name>>
Bool(name)         == <<"bool", name>>
BoolUint(name)     == <<"bool uint", name>>
BoolInt(name)      == <<"bool int", name>>
Word(tokens, name) == <<"word", tokens, name>>
Trim               == <<"trim">>
TrimWord           == <<"trim word">>
SkipTo(tokens)     == <<"skip to", tokens>>
OneLit(tokens, name)     == <<"one lit", tokens, name>>
OneTill(tokens, name)    == <<"one till", tokens, name>>
NextUint(base, limit, name) == <<"next", base, limit, name>>

Step(h, s) ==
  IF ~h.ok THEN h ELSE
  CASE s[1] = "lit"       -> ConsumeAndTrimString(h, <<s[2]>>)
    [] s[1] = "till"      -> ConsumeAndTrimTillString(h, <<s[2]>>)
    [] s[1] = "uint"      -> ParseUintTrim(h, s[2], s[3])
    [] s[1] = "int"       -> ParseInt(h, s[2])
    [] s[1] = "bool"      -> ParseBoolFromStringRepr(h, s[2])
    [] s[1] = "bool uint" -> ParseBoolFromUint(h, 10, s[2])
    [] s[1] = "bool int"  -> ParseBoolFromInt(h, s[2])
    [] s[1] = "word"      -> ExtractAndSubstrUntilInto(h, s[2], s[3])
    [] s[1] = "trim"      -> TrimL(h)
    [] s[1] = "trim word" -> TrimTillWhitespace(h)
    [] s[1] = "skip to"   -> SkipTill(h, s[2])
    [] s[1] = "one lit"   -> ConsumeFirstString(h, s[2], s[3])
    [] s[1] = "one till"  -> ConsumeTillFirstString(h, s[2], s[3])
    [] s[1] = "next"      -> ParseNext(h, s[2], s[3], s[4])

Parse(h, steps) == FoldLeft(Step, h, steps)
================================================================================
