-------------------------------- MODULE Names --------------------------------
(***************************************************************************)
(* How a name is compared with a listed one (compliance-service            *)
(* sanctions/screen.ts): boundedLevenshtein, which fills the table of edit *)
(* distances row by row and gives up early, and extraNamesBeyond, which    *)
(* takes the listed words out of the applicant's one by one.               *)
(*                                                                         *)
(* A text is a sequence of letters for the first and of words for the      *)
(* second.  Normalisation is left out.                                     *)
(***************************************************************************)
EXTENDS Integers, Sequences, FiniteSets

CONSTANTS
  Letters,       \* letters, or words
  MaxLength,     \* bound on the length of a text
  MaxTolerance   \* bound on the edits that may be allowed

ASSUME NamesAssumption == MaxLength \in Nat /\ MaxTolerance \in Nat

VARIABLES
  given, listed, \* the applicant's text and the list's
  tolerance,     \* max
  line,          \* i: the row of the table that is done
  prev,          \* the row
  result         \* what is returned, -1 for nothing yet

namesVars == <<given, listed, tolerance, line, prev, result>>

Texts == UNION {[1..n -> Letters] : n \in 0..MaxLength}

AtMost(a, b) == IF a < b THEN a ELSE b

NamesTypeOK ==
  /\ given \in Texts /\ listed \in Texts /\ tolerance \in 0..MaxTolerance
  /\ line \in 0..Len(given) /\ prev \in [0..Len(listed) -> 0..(2 * MaxLength)]
  /\ result \in -1..(2 * MaxLength)

NamesInit ==
  /\ given \in Texts /\ listed \in Texts /\ tolerance \in 0..MaxTolerance
  /\ line = 0
  /\ prev = [j \in 0..Len(listed) |-> j]
  /\ result = -1

\* Too different in length: no table is needed.
Apart == Len(given) - Len(listed) \notin -tolerance..tolerance

TooLong ==
  /\ result = -1 /\ Apart
  /\ result' = tolerance + 1
  /\ UNCHANGED <<given, listed, tolerance, line, prev>>

\* Row i of the table from row i - 1.
NextRow(i) ==
  LET cur[j \in 0..Len(listed)] ==
        IF j = 0 THEN i
        ELSE LET cost == IF given[i] = listed[j] THEN 0 ELSE 1
             IN  AtMost(AtMost(prev[j] + 1, cur[j - 1] + 1), prev[j - 1] + cost)
  IN  cur

\* Faulty: it gives up when the row has reached the tolerance.
GivesUpEarly(row) == \A j \in DOMAIN row : row[j] >= tolerance

\* rowMin > max.
GivesUp(row) == \A j \in DOMAIN row : row[j] > tolerance

FillRow ==
  /\ result = -1 /\ line < Len(given) /\ ~Apart
  /\ LET cur == NextRow(line + 1)
     IN  IF GivesUp(cur) THEN result' = tolerance + 1 /\ UNCHANGED <<line, prev>>
         ELSE line' = line + 1 /\ prev' = cur /\ UNCHANGED result
  /\ UNCHANGED <<given, listed, tolerance>>

Return ==
  /\ result = -1 /\ line = Len(given) /\ ~Apart
  /\ result' = prev[Len(listed)]
  /\ UNCHANGED <<given, listed, tolerance, line, prev>>

NamesNext == TooLong \/ FillRow \/ Return

NamesSpec == NamesInit /\ [][NamesNext]_namesVars

\* remaining.splice(i, 1) of the first w.
Without(words, w) ==
  LET i == CHOOSE k \in DOMAIN words : words[k] = w /\ \A l \in 1..(k - 1) : words[l] # w
  IN  SubSeq(words, 1, i - 1) \o SubSeq(words, i + 1, Len(words))

\* extraNamesBeyond, with -1 for null; MAX_EXTRA_NAMES is 2.
ExtraNames(candidate, words) ==
  LET extra == Len(candidate) - Len(words)
      \* remaining[n]: what is left of the candidate after n of the listed words
      remaining[n \in 0..Len(words)] ==
        IF n = 0 THEN candidate
        ELSE IF \E k \in DOMAIN remaining[n - 1] : remaining[n - 1][k] = words[n]
             THEN Without(remaining[n - 1], words[n]) ELSE <<>>
  IN  IF extra \in {1, 2} /\ Len(remaining[Len(words)]) = extra THEN extra ELSE -1

-----------------------------------------------------------------------------
(* Properties. *)

\* The edit distance of the first c[1] letters of given and the first c[2] of listed,
\* as it is defined: the reference.
Distance ==
  LET d[c \in (0..Len(given)) \X (0..Len(listed))] ==
        IF c[1] = 0 THEN c[2] ELSE IF c[2] = 0 THEN c[1]
        ELSE IF given[c[1]] = listed[c[2]] THEN d[<<c[1] - 1, c[2] - 1>>]
        ELSE 1 + AtMost(d[<<c[1] - 1, c[2] - 1>>],
                        AtMost(d[<<c[1] - 1, c[2]>>], d[<<c[1], c[2] - 1>>]))
  IN  d[<<Len(given), Len(listed)>>]

Occurrences(w, text) == Cardinality({k \in DOMAIN text : text[k] = w})

\* Whenever it gives up, the table it did not fill would have said the same: an
\* answer within the tolerance is the edit distance, any other means that it is
\* not within the tolerance.  And words are extra exactly when all the listed ones
\* are there, each as often as it is listed.
MatchIsExact ==
  /\ result # -1 => IF Distance <= tolerance THEN result = Distance
                     ELSE result > tolerance
  /\ LET extra == Len(given) - Len(listed)
         all   == \A w \in Letters : Occurrences(w, given) >= Occurrences(w, listed)
     IN  ExtraNames(given, listed) = IF extra \in {1, 2} /\ all THEN extra ELSE -1
=============================================================================
