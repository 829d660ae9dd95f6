---------------------------- MODULE PatchEngine ----------------------------
(***************************************************************************)
(* internal/patch: find and replace with a fallback that ignores white     *)
(* space.  A text is a sequence of marks; "sp" stands for the characters   *)
(* that the fallbacks trim, "nl" for the newline.  Positions count from 1. *)
(***************************************************************************)
EXTENDS Integers, SequencesExt, FiniteSetsExt

Edit(old, new, all) == [old |-> old, new |-> new, all |-> all]
Failed == [ok |-> FALSE, text |-> <<>>, count |-> 0, fuzzy |-> 0]
Unchanged(text) == [ok |-> TRUE, text |-> text, count |-> 0, fuzzy |-> 0]

OccursAt(old, text, i) ==
  i + Len(old) - 1 <= Len(text) /\ SubSeq(text, i, i + Len(old) - 1) = old

\* The text with what lies from position i up to, not including, j replaced.
Spliced(text, i, j, new) == SubSeq(text, 1, i - 1) \o new \o SubSeq(text, j, Len(text))

\* How many members of S there are up to i, the k-th member, and all in order.
Rank(S, i) == Cardinality({j \in S : j <= i})
Nth(S, k) == CHOOSE i \in S : Rank(S, i) = k
InOrder(S) == [k \in 1..Cardinality(S) |-> Nth(S, k)]

-----------------------------------------------------------------------------
(* strings.Count, strings.Replace and strings.ReplaceAll: from left to right,
   the search goes on behind the occurrence that was found. *)

Found(text, old) ==
  LET taken[i \in 1..Len(text)] ==
        OccursAt(old, text, i) /\ \A j \in 1..(i - 1) : taken[j] => j + Len(old) <= i
  IN {i \in 1..Len(text) : taken[i]}

\* [k]: the last k of the occurrences in S are replaced.
ReplacedFrom(text, old, new, S) ==
  LET at(k) == Nth(S, Cardinality(S) - k + 1)
      from[k \in 0..Cardinality(S)] ==
        IF k = 0 THEN text ELSE Spliced(from[k - 1], at(k), at(k) + Len(old), new)
  IN from
Replaced(text, old, new, S) == ReplacedFrom(text, old, new, S)[Cardinality(S)]

-----------------------------------------------------------------------------
(* The strategies, and the lines they compare *)

Marks(line) == {i \in 1..Len(line) : line[i] # "sp"}
TrimRight(line) == SubSeq(line, 1, Max(Marks(line) \cup {0}))
TrimSpace(line) == SubSeq(TrimRight(line), Min(Marks(line) \cup {Len(line) + 1}), Len(TrimRight(line)))
Strategies == {"whitespace", "indentation"}
Normalized(strategy, line) == IF strategy = "whitespace" THEN TrimRight(line) ELSE TrimSpace(line)

Newlines(text) == {i \in 1..Len(text) : text[i] = "nl"}

\* The end of the line that starts at i, without its newline.
LineEnd(text, i) == Min({j \in Newlines(text) : j >= i} \cup {Len(text) + 1}) - 1

\* strings.Split
Split(text) ==
  LET starts == InOrder({1} \cup {i + 1 : i \in Newlines(text)})
  IN [k \in DOMAIN starts |-> SubSeq(text, starts[k], LineEnd(text, starts[k]))]

\* The offsets of splitLines: an empty rest is not a line.
Offsets(text) ==
  InOrder(({1} \cup {i + 1 : i \in Newlines(text)}) \ {Len(text) + 1})

\* locateLines: where each matching region of lines starts and ends.
Located(text, old, strategy) ==
  LET trailing == Last(old) = "nl"
      pattern  == [k \in DOMAIN Split(IF trailing THEN Front(old) ELSE old) |->
                     Normalized(strategy, Split(IF trailing THEN Front(old) ELSE old)[k])]
      at       == Offsets(text)
      line(k)  == SubSeq(text, at[k], LineEnd(text, at[k]))
      matches  == {k \in 1..(Len(at) - Len(pattern) + 1) :
                     \A j \in DOMAIN pattern : Normalized(strategy, line(k + j - 1)) = pattern[j]}
      after(k) == LineEnd(text, at[k + Len(pattern) - 1]) + 1
  IN {[start |-> at[k],
       end   |-> IF trailing /\ after(k) <= Len(text) THEN after(k) + 1 ELSE after(k)] : k \in matches}

-----------------------------------------------------------------------------
(* applyOne, on the result so far *)

\* The first strategy that finds anything decides.
Decisive(text, old) ==
  IF Located(text, old, "whitespace") # {} THEN "whitespace" ELSE "indentation"

SplicedAt(r, e, at) ==
  [ok |-> TRUE, text |-> Spliced(r.text, at.start, at.end, e.new),
   count |-> r.count + 1, fuzzy |-> r.fuzzy + 1]

\* A variant that takes the first of several regions.
FuzzyFirst(r, e) ==
  LET regions == Located(r.text, e.old, Decisive(r.text, e.old))
  IN IF regions = {} THEN Failed
     ELSE SplicedAt(r, e, CHOOSE x \in regions : \A y \in regions : x.start <= y.start)

\* ... and has to find one region.
Fuzzy(r, e) ==
  LET regions == Located(r.text, e.old, Decisive(r.text, e.old))
  IN IF Cardinality(regions) # 1 THEN Failed
     ELSE SplicedAt(r, e, CHOOSE x \in regions : TRUE)

ApplyOne(r, e) ==
  LET found == Found(r.text, e.old)
  IN IF ~r.ok \/ e.old = <<>> THEN Failed
     ELSE IF found = {} THEN Fuzzy(r, e)
     ELSE IF Cardinality(found) > 1 /\ ~e.all THEN Failed
     ELSE [ok |-> TRUE, text |-> Replaced(r.text, e.old, e.new, found),
           count |-> r.count + Cardinality(found), fuzzy |-> r.fuzzy]

\* Apply: the Result after each of the edits; one that fails ends it.
Applied(content, patch) ==
  LET res[k \in 0..Len(patch)] ==
        IF k = 0 THEN Unchanged(content) ELSE ApplyOne(res[k - 1], patch[k])
  IN res
Apply(content, patch) == Applied(content, patch)[Len(patch)]

-----------------------------------------------------------------------------
(* Reference: what one edit may do, in terms of regions of the text alone. *)

\* White space that a strategy ignores, wherever it stands in a text.
Ignored(text, strategy) ==
  {i \in 1..Len(text) :
     /\ text[i] = "sp"
     /\ \/ \A j \in i..LineEnd(text, i) : text[j] = "sp"
        \/ strategy = "indentation" /\ \A j \in 1..i : (\A k \in j..i : text[k] # "nl") => text[j] = "sp"}
Kept(text, strategy) ==
  LET at == InOrder((1..Len(text)) \ Ignored(text, strategy))
  IN [k \in DOMAIN at |-> text[at[k]]]

\* The regions of whole lines that equal old up to what the strategy ignores: the
\* newline behind the last line belongs to the region when old ends in one, and
\* may be missing at the end of the text.  What follows the last newline of a text
\* is a line only if there is something.
Similar(text, old, strategy) ==
  {x \in [start : 1..Len(text), end : 1..(Len(text) + 1)] :
     LET region == SubSeq(text, x.start, x.end - 1)
         atEnd  == x.end = Len(text) + 1
     IN /\ x.start <= x.end
        /\ x.start > 1 => text[x.start - 1] = "nl"
        /\ LET whole == Kept(region, strategy) = Kept(old, strategy)
           IN \/ Last(old) # "nl" /\ atEnd /\ Last(text) # "nl" /\ whole
              \/ Last(old) # "nl" /\ ~atEnd /\ text[x.end] = "nl" /\ whole
              \/ Last(old) = "nl" /\ region # <<>> /\ Last(region) = "nl" /\ whole
              \/ /\ Last(old) = "nl" /\ atEnd /\ region # <<>> /\ Last(region) # "nl"
                 /\ Append(Kept(region, strategy), "nl") = Kept(old, strategy)}

Occurrences(text, old) == {i \in 1..Len(text) : OccursAt(old, text, i)}

\* The leftmost occurrences that do not overlap.
IsLeftmost(S, text, old) ==
  /\ S \subseteq Occurrences(text, old)
  /\ \A i \in Occurrences(text, old) : \E s \in S : s <= i /\ i < s + Len(old)
  /\ \A s, t \in S : s < t => s + Len(old) <= t
=============================================================================
