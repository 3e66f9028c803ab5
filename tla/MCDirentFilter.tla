---------------------------- MODULE MCDirentFilter ----------------------------
(* Instances of DirentFilter for TLC: every answer of up to four entries,    *)
(* alone or followed by what is not an entry.                                *)
EXTENDS DirentFilter, SequencesExt

MCNames == {"dot", "bus32", "bus40", "bus48", "other24", "other32", "other40"}
MCKeep  == {"dot", "bus32", "bus40", "bus48"}

(* Entries of 24 to 48 bytes: names of up to 4, 12, 20 and 28 characters.    *)
CellsOf(n) ==
  CASE n \in {"dot", "other24"}     -> 3
    [] n \in {"bus32", "other32"}   -> 4
    [] n = "bus48"                  -> 6
    [] OTHER                        -> 5

(* Where d_reclen would be read, the sixth cell of an entry holds two        *)
(* characters of a name, which make a large number.                          *)
Laid(n, total, size, ended) ==
  [k \in 1 .. total |-> [of |-> n, ended |-> k = 3 /\ ended,
                         size |-> CASE k = 3 -> size [] k = 6 -> 100 [] OTHER -> 0]]

EntryOf(n) == Laid(n, CellsOf(n), CellsOf(n), TRUE)

(* A fragment of a header, a record length of 0, one beyond the buffer of a  *)
(* hidden and of a kept entry, and a name without end.                       *)
Tails == {<<>>, Laid("bus32", 2, 4, TRUE), Laid("bus32", 4, 0, TRUE),
          Laid("other32", 4, 5, TRUE), Laid("bus32", 4, 7, TRUE),
          Laid("bus32", 4, 9, FALSE)}

Answers == UNION {[1 .. n -> MCNames] : n \in 0 .. 4}

MCBuffers ==
  LET flat(a, t) == FlattenSeq([i \in DOMAIN a |-> EntryOf(a[i])]) \o t
      asBuffer(s) == [len |-> Len(s), cells |-> [o \in 0 .. Len(s) - 1 |-> s[o + 1]]]
  IN  {asBuffer(flat(a, t)) : <<a, t>> \in (Answers \X Tails) \ {<<<<>>, <<>>>>}}
=============================================================================
