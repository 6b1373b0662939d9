-------------------------------- MODULE MCReader --------------------------------
(* Reader for TLC: all files of two letters and line ends up to a length.  *)
EXTENDS Reader

CONSTANTS MaxFile   \* the longest file (bound of the instance)

Letters == {"a", "b"}
Texts(symbols, n) == UNION {[1 .. k -> symbols] : k \in 0 .. n}
AllFiles == Texts(Letters \cup {LineEnd}, MaxFile)
AllPatterns == Texts(Letters, 3) \ {<<>>}
================================================================================
