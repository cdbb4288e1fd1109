----------------------------- MODULE ArrayScans -----------------------------
(***************************************************************************)
(* The programs of problems/ that go through one array with two indices,   *)
(* in place, and data-structures/bubble_sort.c; a step is a pass of the    *)
(* loop.  Arrays are sequences: index i of the code is i + 1 here, and the *)
(* character NUL is what lies behind the end.                              *)
(***************************************************************************)
EXTENDS Integers, SequencesExt

CONSTANTS
  MaxLength,  \* bound: of the arrays ...
  MaxNeedle   \* ... and of the text looked for

VARIABLES
  kind,    \* which program it is
  given,   \* the array it is called with ...
  target,  \* ... and the sum or the text it looks for
  a,       \* the array, as it changes
  left,    \* left, the writing index, or i
  right,   \* right, the reading index, or next
  answer,  \* best, found, swapped: what the loop keeps
  done

vars == <<kind, given, target, a, left, right, answer, done>>

Kinds == {"area", "two", "all", "palindrome", "purified", "reverse", "words",
          "unique", "zeroes", "spaces", "vowels", "trim", "find", "bubble"}

\* Characters: a letter, its capital, a vowel, a blank and another letter.
Alphanumeric == {"b", "B", "o", "k"}
Lower(c) == IF c = "B" THEN "b" ELSE c

UpTo(m, S) == UNION {[1 .. n -> S] : n \in 0 .. m}
Arrays(S) == UpTo(MaxLength, S)
Ascending(s) == \A i \in 1 .. Len(s) - 1 : s[i] <= s[i + 1]

\* find-sum.c skips numbers above the target: its numbers are not negative.
\* find-sum-optimised.c and rem-array-duplicates.c are given sorted numbers.
Inputs ==
  CASE kind = "area" -> Arrays(1 .. 4)
    [] kind \in {"two", "unique"} -> {s \in Arrays(-1 .. 3) : s # <<>> /\ Ascending(s)}
    [] kind \in {"all", "zeroes", "reverse", "bubble"} -> Arrays(0 .. 2) \ {<<>>}
    [] kind \in {"palindrome", "purified"} -> Arrays({"b", "B", "k", " "})
    [] kind \in {"words", "find", "trim", "spaces"} -> Arrays({"b", "k", " "})
    [] kind = "vowels" -> Arrays({"b", "o", "k"})

Targets == CASE kind \in {"two", "all"} -> -1 .. 4
             [] kind = "find" -> UpTo(MaxNeedle, {"b", "k"})
             [] OTHER -> {0}

\* The first index from i on with character c, or with another one.
FirstOf(c, i) == Min({j \in i .. Len(a) : a[j] = c} \cup {Len(a) + 1})
FirstNot(c, i) == Min({j \in i .. Len(a) : a[j] # c} \cup {Len(a) + 1})

Letters(s) == SelectSeq(s, LAMBDA c : c \in Alphanumeric)
Purified(s) == [i \in DOMAIN Letters(s) |-> Lower(Letters(s)[i])]

Init ==
  /\ kind \in Kinds /\ given \in Inputs /\ target \in Targets
  /\ a = IF kind = "purified" THEN Purified(given) ELSE given
  /\ left = 1 /\ done = FALSE
  /\ right = CASE kind \in {"area", "two", "palindrome", "purified", "reverse"} -> Len(a)
               [] kind = "unique" -> 2
               [] kind = "trim" /\ Len(a) > 1 -> IF a[2] = " " THEN FirstNot(" ", 1) ELSE 1
               [] OTHER -> 1
  /\ answer = CASE kind \in {"two", "all"} -> {}
                [] kind \in {"palindrome", "purified"} -> TRUE
                [] kind = "bubble" -> FALSE
                [] OTHER -> 0

Loop(k) == ~done /\ kind \in k /\ UNCHANGED <<kind, given, target>>
\* The loop goes on with these indices, or ends.
Go(l, r) == left' = l /\ right' = r /\ UNCHANGED done
End == done' = TRUE /\ UNCHANGED <<left, right>>
-----------------------------------------------------------------------------
(* Two indices that come closer: max_area, find_target of sorted numbers,  *)
(* is_palindrome, reverse_array, reverse_chunk, reverse_string             *)

Area(i, j) == Min({a[i], a[j]}) * (j - i)

\* The variant moves the index of the taller side.
TallerMoves == a[left] < a[right]
ShorterMoves == a[left] > a[right]

max_area ==
  /\ Loop({"area"}) /\ UNCHANGED a
  /\ IF left < right
     THEN /\ answer' = Max({answer, Area(left, right)})
          /\ IF ShorterMoves THEN Go(left, right - 1) ELSE Go(left + 1, right)
     ELSE End /\ UNCHANGED answer

find_target ==
  /\ Loop({"two"}) /\ UNCHANGED a
  /\ IF left >= right THEN End /\ UNCHANGED answer
     ELSE LET sum == a[left] + a[right] IN
          \/ sum = target /\ answer' = {<<left, right>>} /\ End
          \/ sum < target /\ Go(left + 1, right) /\ UNCHANGED answer
          \/ sum > target /\ Go(left, right - 1) /\ UNCHANGED answer

Skips(i) == kind = "palindrome" /\ a[i] \notin Alphanumeric
\* The variant compares capitals as they are.
SameCharacter == a[left] = a[right]
Equal == Lower(a[left]) = Lower(a[right])

is_palindrome ==
  /\ Loop({"palindrome", "purified"}) /\ UNCHANGED a
  /\ \/ left >= right /\ End /\ UNCHANGED answer
     \/ /\ left < right /\ UNCHANGED answer
        /\ \/ Skips(left) /\ Go(left + 1, right)
           \/ ~Skips(left) /\ Skips(right) /\ Go(left, right - 1)
           \/ ~Skips(left) /\ ~Skips(right) /\ Equal /\ Go(left + 1, right - 1)
     \/ /\ left < right /\ ~Skips(left) /\ ~Skips(right) /\ ~Equal
        /\ answer' = FALSE /\ End

reverse_array ==
  /\ Loop({"reverse"}) /\ UNCHANGED answer
  /\ IF left < right
     THEN a' = [a EXCEPT ![left] = a[right], ![right] = a[left]] /\ Go(left + 1, right - 1)
     ELSE End /\ UNCHANGED a

\* The whole text first, then each word.
Chunk(i, j) == SubSeq(a, 1, i - 1) \o Reverse(SubSeq(a, i, j)) \o SubSeq(a, j + 1, Len(a))

reverse_words ==
  /\ Loop({"words"})
  /\ IF answer = 0
     THEN a' = Reverse(a) /\ answer' = 1 /\ Go(left, right)
     ELSE /\ UNCHANGED answer
          /\ IF left > Len(a) THEN End /\ UNCHANGED a
             ELSE a' = Chunk(left, FirstOf(" ", left) - 1) /\ Go(FirstOf(" ", left) + 1, right)
-----------------------------------------------------------------------------
(* A reading index ahead of a writing one: remove_duplicates, move_zeroes, *)
(* compress_spaces, strip_vowels, trim_left                                *)

\* Which ones are written, and where.
Keeps ==
  CASE kind = "unique" -> a[right] # a[left]
    [] kind = "zeroes" -> a[right] # 0
    [] kind = "vowels" -> a[right] # "o"
    [] OTHER -> TRUE
Place == IF kind = "unique" THEN left + 1 ELSE left

\* Where it reads on; the variant only skips a second blank.
NextOfTwo == IF kind = "spaces" /\ a[right] = " " /\ FirstNot(" ", right) > right + 1
             THEN right + 2 ELSE right + 1
NextRead == IF kind = "spaces" /\ a[right] = " " THEN FirstNot(" ", right) ELSE right + 1

\* The text ends where the last character was written; numbers stay, and only
\* move_zeroes fills up.  trim_right follows trim_left.
TrimRight(s) == SubSeq(s, 1, Max({i \in DOMAIN s : s[i] # " "} \cup {0}))
Finished ==
  CASE kind = "unique" -> a
    [] kind = "zeroes" -> [i \in DOMAIN a |-> IF i < left THEN a[i] ELSE 0]
    [] kind = "trim" -> TrimRight(SubSeq(a, 1, left - 1))
    [] OTHER -> SubSeq(a, 1, left - 1)

compact ==
  /\ Loop({"unique", "zeroes", "spaces", "vowels", "trim"})
  /\ IF right > Len(a) THEN a' = Finished /\ answer' = left /\ End
     ELSE /\ UNCHANGED answer
          /\ IF Keeps
             THEN a' = [a EXCEPT ![Place] = a[right]] /\ Go(left + 1, NextRead)
             ELSE UNCHANGED a /\ Go(left, NextRead)
-----------------------------------------------------------------------------
(* find_target of any numbers, find_substring, bubble_sort_cards           *)

\* Every pair is looked at, unless one of the two is too much already; the
\* variant goes on from where the last row ended.
RowAfter == right
FirstColumn == 1

TooMuch == a[left] > target \/ a[right] > target

find_pairs ==
  /\ Loop({"all"}) /\ UNCHANGED a
  /\ \/ left > Len(a) /\ End /\ UNCHANGED answer
     \/ left <= Len(a) /\ right > Len(a) /\ Go(left + 1, FirstColumn) /\ UNCHANGED answer
     \/ /\ left <= Len(a) /\ right <= Len(a) /\ Go(left, right + 1)
        /\ answer' = IF ~TooMuch /\ a[left] + a[right] = target
                     THEN answer \cup {<<left, right>>} ELSE answer

Matches(i) == IsPrefix(target, SubSeq(a, i, Len(a)))

find_substring ==
  /\ Loop({"find"}) /\ UNCHANGED a
  /\ IF target = <<>> \/ (left <= Len(a) /\ Matches(left)) THEN answer' = left /\ End
     ELSE UNCHANGED answer /\ IF left <= Len(a) THEN Go(left + 1, right) ELSE End

\* The variant sorts with one sweep.
OneSweep == FALSE
Again == answer

bubble_sort_cards ==
  /\ Loop({"bubble"})
  /\ IF left < Len(a)
     THEN /\ Go(left + 1, right)
          /\ IF a[left] > a[left + 1]
             THEN a' = [a EXCEPT ![left] = a[left + 1], ![left + 1] = a[left]] /\ answer' = TRUE
             ELSE UNCHANGED <<a, answer>>
     ELSE /\ UNCHANGED a /\ answer' = FALSE
          /\ IF Again THEN Go(1, right) ELSE End

Terminated == done /\ UNCHANGED vars

Next == \/ max_area \/ find_target \/ is_palindrome \/ reverse_array \/ reverse_words
        \/ compact \/ find_pairs \/ find_substring \/ bubble_sort_cards \/ Terminated

Spec == Init /\ [][Next]_vars
-----------------------------------------------------------------------------
Indices == DOMAIN given
Pairs == {p \in Indices \X Indices : p[1] < p[2]}
Inside(p) == left <= p[1] /\ p[2] <= right
Sums(P) == {p \in P : given[p[1]] + given[p[2]] = target}

TypeOK == /\ kind \in Kinds /\ done \in BOOLEAN
          /\ Len(a) <= Len(given)
          /\ left \in 0 .. MaxLength + 2 /\ right \in 0 .. MaxLength + 2

(* The writing index stays behind the reading one: nothing is overwritten
   before it has been read.                                                 *)
WritesBehindReads ==
  kind \in {"unique", "zeroes", "spaces", "vowels", "trim"} /\ ~done =>
    Place <= right /\ SubSeq(a, right, Len(a)) = SubSeq(given, right, Len(given))

(* What the two indices have left behind is no better than what is kept:
   max_area and find_target of sorted numbers pass no better pair by, and the
   other find_target prints exactly the pairs that sum up to the target.    *)
NothingPassedBy ==
  CASE kind = "area" -> \A p \in Pairs : Area(p[1], p[2]) <= answer \/ (Inside(p) /\ ~done)
    [] kind = "two" -> /\ answer \subseteq Sums(Pairs)
                       /\ answer = {} => \A p \in Sums(Pairs) : Inside(p) /\ ~done
    [] kind = "all" /\ done -> answer = Sums(Indices \X Indices)
    [] OTHER -> TRUE

(* Both ways to compare from the two ends decide whether what is left of the
   text without blanks and capitals reads the same backwards, and
   find_substring finds the first place where the text begins.              *)
Decided ==
  done =>
    CASE kind \in {"palindrome", "purified"} ->
           answer <=> Purified(given) = Reverse(Purified(given))
      [] kind = "find" ->
           LET found == {Len(front) + 1 : front \in {f \in Prefixes(given) : IsPrefix(f \o target, given)}}
           IN answer = IF found = {} THEN 0 ELSE Min(found)
      [] OTHER -> TRUE

\* The word around index i of the given text.
WordStart(i) == Max({0} \cup {j \in 1 .. i : given[j] = " "}) + 1
WordEnd(i) == Min({Len(given) + 1} \cup {j \in i .. Len(given) : given[j] = " "}) - 1

(* Arrays are turned round; of a phrase the words, each as it was, and the
   blanks between them; the sort leaves the same cards in ascending order.  *)
Rearranged ==
  done =>
    CASE kind = "reverse" -> a = Reverse(given)
      [] kind = "words" ->
           \A i \in DOMAIN given :
             LET mirrored == Len(given) + 1 - i IN
             IF given[i] = " " THEN a[mirrored] = " "
             ELSE a[Len(given) + 1 - WordEnd(i) + i - WordStart(i)] = given[i]
      [] kind = "bubble" ->
           Ascending(a) /\ \A n \in 0 .. 2 : Cardinality({i \in DOMAIN a : a[i] = n})
                                             = Cardinality({i \in DOMAIN a : given[i] = n})
      [] OTHER -> TRUE

\* What each of the filters promises to keep.
Stays(i) ==
  CASE kind = "unique" -> i = 1 \/ given[i] # given[i - 1]
    [] kind = "zeroes" -> given[i] # 0
    [] kind = "vowels" -> given[i] # "o"
    [] kind = "spaces" -> given[i] # " " \/ i = 1 \/ given[i - 1] # " "
    [] OTHER -> TRUE
Filtered == LET kept == SelectSeq([i \in DOMAIN given |-> i], Stays)
            IN [j \in DOMAIN kept |-> given[kept[j]]]
TrimLeft(s) == SubSeq(s, Min({i \in DOMAIN s : s[i] # " "} \cup {Len(s) + 1}), Len(s))
OneBlankFirst == Len(given) > 1 /\ given[1] = " " /\ given[2] # " "

(* Repetitions, zeroes, vowels and further blanks are left out and the rest
   stays in order; trim takes the blanks off both ends, unless a single one
   is in front.                                                             *)
FilterKept ==
  done =>
    CASE kind = "unique" -> SubSeq(a, 1, answer) = Filtered
      [] kind = "zeroes" -> a = Filtered \o [i \in 1 .. Len(a) - Len(Filtered) |-> 0]
      [] kind \in {"vowels", "spaces"} -> a = Filtered
      [] kind = "trim" -> a = TrimRight(IF OneBlankFirst THEN given ELSE TrimLeft(given))
      [] OTHER -> TRUE
=============================================================================
