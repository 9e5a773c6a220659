----------------------------- MODULE Setup_proofs -----------------------------
(***************************************************************************)
(* Setup keeps the user's part of every file.  Each text falls apart into  *)
(* what precedes the program's part and what follows it; a run replaces    *)
(* what is between the two.                                                *)
(***************************************************************************)
EXTENDS Setup, Numbers, SequenceTheorems, TLAPS

(***************************************************************************)
(* Replacing a stretch of a text                                           *)
(***************************************************************************)
(* The bounds of an interval.                                              *)
LEMMA Bounds ==
    ASSUME NEW lo \in Nat, NEW hi \in Nat, lo <= hi
    PROVE  Min(lo..hi) = lo /\ Max(lo..hi) = hi
<1>1. lo \in lo..hi /\ hi \in lo..hi
  OBVIOUS
<1>2. \A x \in lo..hi : x \in Int /\ lo <= x /\ x <= hi
  OBVIOUS
<1>3. \A x \in lo..hi : (\A y \in lo..hi : x <= y) => x = lo
  BY <1>1, <1>2
<1>4. \A x \in lo..hi : (\A y \in lo..hi : x >= y) => x = hi
  BY <1>1, <1>2
<1> QED
  BY <1>1, <1>2, <1>3, <1>4 DEF Min, Max

(* The least of a nonempty set of numbers.                                 *)
LEMMA MinIsLeast ==
    ASSUME NEW I \in SUBSET Nat, I # {}
    PROVE  Min(I) \in I /\ \A j \in I : Min(I) <= j
  BY LeastNumber DEF Min

(* Nothing lies between a number and the next.                             *)
LEMMA NextNumber ==
    ASSUME NEW a \in Nat, NEW b \in Nat, a <= b, ~(a + 1 <= b)
    PROVE  a = b
  OBVIOUS

(* Something remains between two numbers that differ.                      *)
LEMMA Remains ==
    ASSUME NEW a \in Nat, NEW b \in Nat, a <= b, a # b
    PROVE  1 \in 1 .. b - a
  OBVIOUS

(* A text of three parts.                                                  *)
LEMMA Parts ==
    ASSUME NEW S, NEW pre \in Seq(S), NEW mid \in Seq(S), NEW post \in Seq(S)
    PROVE  /\ pre \o mid \o post \in Seq(S)
           /\ Len(pre \o mid \o post) = Len(pre) + Len(mid) + Len(post)
           /\ \A i \in 1 .. Len(pre) + Len(mid) + Len(post) :
                (pre \o mid \o post)[i] = IF i <= Len(pre) THEN pre[i]
                                          ELSE IF i <= Len(pre) + Len(mid) THEN mid[i - Len(pre)]
                                          ELSE post[i - Len(pre) - Len(mid)]
<1>1. /\ pre \o mid \in Seq(S)
      /\ Len(pre \o mid) = Len(pre) + Len(mid)
      /\ \A i \in 1 .. Len(pre) + Len(mid) :
           (pre \o mid)[i] = IF i <= Len(pre) THEN pre[i] ELSE mid[i - Len(pre)]
  BY ConcatProperties
<1>2. Len(pre) \in Nat /\ Len(mid) \in Nat /\ Len(post) \in Nat
  BY LenProperties
<1> DEFINE head == pre \o mid
<1> HIDE DEF head
<1>3. /\ head \o post \in Seq(S)
      /\ Len(head \o post) = Len(head) + Len(post)
      /\ \A i \in 1 .. Len(head) + Len(post) :
           (head \o post)[i] = IF i <= Len(head) THEN head[i] ELSE post[i - Len(head)]
  BY <1>1, ConcatProperties DEF head
<1>4. ASSUME NEW i \in 1 .. Len(pre) + Len(mid) + Len(post)
      PROVE  (head \o post)[i] = IF i <= Len(pre) THEN pre[i]
                                 ELSE IF i <= Len(pre) + Len(mid) THEN mid[i - Len(pre)]
                                 ELSE post[i - Len(pre) - Len(mid)]
  <2>1. Len(head) = Len(pre) + Len(mid)
    BY <1>1 DEF head
  <2>2. (head \o post)[i] = IF i <= Len(head) THEN head[i] ELSE post[i - Len(head)]
    BY <1>2, <1>3, <2>1
  <2>3. CASE i <= Len(pre) + Len(mid)
    <3>1. head[i] = IF i <= Len(pre) THEN pre[i] ELSE mid[i - Len(pre)]
      BY <1>1, <1>2, <2>3 DEF head
    <3> QED
      BY <1>2, <2>1, <2>2, <2>3, <3>1
  <2>4. CASE ~(i <= Len(pre) + Len(mid))
    <3>1. ~(i <= Len(pre)) /\ i - Len(head) = i - Len(pre) - Len(mid)
      BY <1>2, <2>1, <2>4
    <3> QED
      BY <2>1, <2>2, <2>4, <3>1
  <2> QED
    BY <2>3, <2>4
<1> QED
  BY <1>1, <1>2, <1>3, <1>4 DEF head

(* Where the middle is; whatever replaces it has the same around it.       *)
Place(pre, mid) == (Len(pre) + 1) .. (Len(pre) + Len(mid))
Swapped(pre, mid, post) ==
    \A new : Around(pre \o mid \o post, Place(pre, mid), new) = pre \o new \o post

(* Replacing the middle.                                                   *)
LEMMA Swap ==
    ASSUME NEW S, NEW pre \in Seq(S), NEW mid \in Seq(S), NEW post \in Seq(S), mid # << >>
    PROVE  Swapped(pre, mid, post)
<1> DEFINE text == pre \o mid \o post
           lo == Len(pre) + 1
           hi == Len(pre) + Len(mid)
<1>1. Len(pre) \in Nat /\ Len(mid) \in Nat /\ Len(post) \in Nat
  BY LenProperties
<1>2. Len(mid) > 0
  BY <1>1, EmptySeq
<1>3. /\ text \in Seq(S)
      /\ Len(text) = Len(pre) + Len(mid) + Len(post)
      /\ \A i \in 1 .. Len(pre) + Len(mid) + Len(post) :
           text[i] = IF i <= Len(pre) THEN pre[i]
                     ELSE IF i <= Len(pre) + Len(mid) THEN mid[i - Len(pre)]
                     ELSE post[i - Len(pre) - Len(mid)]
  BY Parts
<1> HIDE DEF text
<1>4. lo \in Nat /\ hi \in Nat /\ lo <= hi /\ lo - 1 = Len(pre)
  BY <1>1, <1>2
<1>5. Min(lo..hi) = lo /\ Max(lo..hi) = hi /\ lo..hi # {}
  <2> HIDE DEF lo, hi
  <2> QED
    BY <1>4, Bounds
<1>6. SubSeq(text, 1, Len(pre)) = pre
  <2>1. \A i \in 1 .. Len(pre) : text[i] = pre[i] /\ text[i] \in S
    BY <1>1, <1>3, ElementOfSeq
  <2>2. /\ SubSeq(text, 1, Len(pre)) \in Seq(S)
        /\ Len(SubSeq(text, 1, Len(pre))) = Len(pre)
        /\ \A i \in 1 .. Len(pre) : SubSeq(text, 1, Len(pre))[i] = text[i]
    BY <1>1, <2>1, SubSeqProperties
  <2> QED
    BY <2>1, <2>2, SeqEqual
<1>7. SubSeq(text, hi + 1, Len(text)) = post
  <2>1. ASSUME NEW i \in 1 .. Len(post) PROVE text[hi + i] = post[i]
    <3> DEFINE j == hi + i
    <3>1. /\ j \in 1 .. Len(pre) + Len(mid) + Len(post)
          /\ ~(j <= Len(pre)) /\ ~(j <= Len(pre) + Len(mid))
          /\ j - Len(pre) - Len(mid) = i
      BY <1>1, <2>1
    <3> HIDE DEF j
    <3>2. text[j] = post[j - Len(pre) - Len(mid)]
      BY <1>3, <3>1
    <3>3. text[j] = post[i]
      BY <3>1, <3>2
    <3> QED
      BY <3>3 DEF j
  <2>2. \A i \in hi + 1 .. Len(text) : text[i] \in S
    BY <1>1, <1>3, ElementOfSeq
  <2> DEFINE sub == SubSeq(text, hi + 1, Len(text))
  <2>3. /\ sub \in Seq(S)
        /\ Len(sub) = IF hi + 1 <= Len(text) THEN Len(text) - (hi + 1) + 1 ELSE 0
        /\ \A i \in 1 .. Len(text) - (hi + 1) + 1 : sub[i] = text[hi + 1 + i - 1]
    <3>1. hi + 1 \in Int /\ Len(text) \in Int
      BY <1>1, <1>3
    <3> HIDE DEF hi
    <3> QED
      BY <2>2, <3>1, SubSeqProperties
  <2> HIDE DEF sub
  <2>4. Len(sub) = Len(post)
    BY <1>1, <1>3, <2>3
  <2>5. ASSUME NEW i \in 1 .. Len(post) PROVE sub[i] = post[i]
    <3>1. i \in 1 .. Len(text) - (hi + 1) + 1 /\ hi + 1 + i - 1 = hi + i
      BY <1>1, <1>3
    <3>2. sub[i] = text[hi + 1 + i - 1]
      BY <2>3, <3>1
    <3> QED
      BY <2>1, <3>1, <3>2, Zenon
  <2>6. sub = post
    BY <2>3, <2>4, <2>5, SeqEqual
  <2> QED
    BY <2>6 DEF sub
<1>8. \A new : Around(text, lo..hi, new)
                  = SubSeq(text, 1, lo - 1) \o new \o SubSeq(text, hi + 1, Len(text))
  BY <1>5 DEF Around
<1>9. \A new : Around(text, lo..hi, new) = pre \o new \o post
  BY <1>4, <1>6, <1>7, <1>8
<1> QED
  BY <1>9, Zenon DEF text, Swapped, Place

(***************************************************************************)
(* The program's part of a text                                            *)
(***************************************************************************)
(* Whatever is put in place of the block, pre comes before it and post     *)
(* after it.                                                               *)
Halves(text, block, pre, post) ==
    /\ pre \in Seq(Line) /\ post \in Seq(Line)
    /\ \A new \in Seq(Line) : Around(text, block, new) = pre \o new \o post

(* No start marker, or the one of the first block.                         *)
OneBlock(text) == Cardinality(Markers(text, "start")) = (IF Block(text) = {} THEN 0 ELSE 1)
Unmarked(text) == \A i \in DOMAIN text : text[i][1] # "start"
Headless(text) == \A i \in DOMAIN text : text[i] # <<"table", "ours">>
Cut(text) == text = << >> \/ text[1][1] = "table"

(* Short texts.                                                            *)
LEMMA ShortTexts ==
    ASSUME NEW S, NEW a \in S, NEW b \in S, NEW c \in S
    PROVE  << >> \in Seq(S) /\ <<a>> \in Seq(S) /\ <<a, b>> \in Seq(S) /\ <<a, b, c>> \in Seq(S)
  OBVIOUS

(* The notes and the section are texts.                                    *)
LEMMA OursAreTexts ==
    /\ \A b \in Bodies : InstructionsBlock(b) \in Seq(Line)
    /\ \A e \in Entries : TomlSection(e) \in Seq(Line)
    /\ \A f : Frontmatter(f) \in Seq(Line)
<1>1. \A kind, t \in Words : <<kind, t>> \in Line
  BY DEF Line
<1>2. /\ "start" \in Words /\ "body" \in Words /\ "end" \in Words /\ "" \in Words
      /\ "table" \in Words /\ "ours" \in Words /\ "key" \in Words /\ "front" \in Words
      /\ \A b \in Bodies : b \in Words
      /\ \A e \in Entries : e \in Words
  BY TextsAssumption
<1>3. ASSUME NEW b \in Bodies PROVE InstructionsBlock(b) \in Seq(Line)
  <2>1. <<"start", "">> \in Line /\ <<"body", b>> \in Line /\ <<"end", "">> \in Line
    BY <1>1, <1>2
  <2>2. <<<<"start", "">>, <<"body", b>>, <<"end", "">>>> \in Seq(Line)
    BY <2>1, ShortTexts
  <2> QED
    BY <2>2 DEF InstructionsBlock
<1>4. ASSUME NEW e \in Entries PROVE TomlSection(e) \in Seq(Line)
  <2>1. <<"table", "ours">> \in Line /\ <<"key", e>> \in Line
    BY <1>1, <1>2
  <2> QED
    BY <2>1 DEF TomlSection
<1>5. ASSUME NEW f PROVE Frontmatter(f) \in Seq(Line)
  <2>1. <<"front", "">> \in Line
    BY <1>1, <1>2
  <2>2. <<<<"front", "">>>> \in Seq(Line) /\ << >> \in Seq(Line)
    BY <2>1, ShortTexts
  <2> QED
    BY <2>2, Zenon DEF Frontmatter
<1> QED
  BY <1>3, <1>4, <1>5

(* With nothing to replace, what is new goes to the end.                   *)
LEMMA HalvesAtEnd ==
    ASSUME NEW text \in Seq(Line)
    PROVE  Halves(text, {}, text, << >>)
<1> SUFFICES ASSUME NEW new \in Seq(Line) PROVE text \o new = text \o new \o << >>
  BY EmptySeq DEF Halves, Around
<1>1. text \o new \in Seq(Line)
  BY ConcatProperties
<1> QED
  BY <1>1, ConcatEmptySeq

(* A stretch of a text has what is before it and what is after it.         *)
LEMMA HalvesOfStretch ==
    ASSUME NEW text \in Seq(Line), NEW lo \in Nat, NEW hi \in Nat,
           1 <= lo, lo <= hi, hi <= Len(text)
    PROVE  LET pre == SubSeq(text, 1, lo - 1)
               post == SubSeq(text, hi + 1, Len(text))
           IN  /\ Halves(text, lo..hi, pre, post)
               /\ DOMAIN pre = 1 .. lo - 1
               /\ \A i \in 1 .. lo - 1 : pre[i] = text[i]
               /\ DOMAIN post = 1 .. Len(text) - hi
               /\ \A i \in 1 .. Len(text) - hi : post[i] = text[hi + i]
<1> DEFINE pre == SubSeq(text, 1, lo - 1)
           post == SubSeq(text, hi + 1, Len(text))
<1>1. Len(text) \in Nat /\ DOMAIN text = 1 .. Len(text)
  BY LenProperties
<1>2. \A i \in 1 .. Len(text) : text[i] \in Line
  BY ElementOfSeq
<1>3. /\ pre \in Seq(Line)
      /\ Len(pre) = lo - 1
      /\ \A i \in 1 .. lo - 1 : pre[i] = text[i]
  <2>1. \A i \in 1 .. lo - 1 : text[i] \in Line
    BY <1>1, <1>2
  <2>2. /\ pre \in Seq(Line)
        /\ Len(pre) = IF 1 <= lo - 1 THEN lo - 1 - 1 + 1 ELSE 0
        /\ \A i \in 1 .. lo - 1 - 1 + 1 : pre[i] = text[1 + i - 1]
    BY <2>1, SubSeqProperties
  <2> HIDE DEF pre
  <2> QED
    BY <2>2
<1>4. /\ post \in Seq(Line)
      /\ Len(post) = Len(text) - hi
      /\ \A i \in 1 .. Len(text) - hi : post[i] = text[hi + i]
  <2>1. \A i \in hi + 1 .. Len(text) : text[i] \in Line
    BY <1>1, <1>2
  <2>2. /\ post \in Seq(Line)
        /\ Len(post) = IF hi + 1 <= Len(text) THEN Len(text) - (hi + 1) + 1 ELSE 0
        /\ \A i \in 1 .. Len(text) - (hi + 1) + 1 : post[i] = text[hi + 1 + i - 1]
    BY <1>1, <2>1, SubSeqProperties
  <2> HIDE DEF post
  <2>3. ASSUME NEW i \in 1 .. Len(text) - hi PROVE post[i] = text[hi + i]
    <3>1. hi + 1 + i - 1 = hi + i /\ i \in 1 .. Len(text) - (hi + 1) + 1
      BY <1>1
    <3>2. post[i] = text[hi + 1 + i - 1]
      BY <2>2, <3>1
    <3> QED
      BY <3>1, <3>2
  <2>4. Len(post) = Len(text) - hi
    <3>1. Len(post) = IF hi + 1 <= Len(text) THEN Len(text) - (hi + 1) + 1 ELSE 0
      BY <2>2
    <3>2. CASE hi + 1 <= Len(text)
      <4>1. Len(post) = Len(text) - (hi + 1) + 1
        BY <3>1, <3>2
      <4> QED
        BY <1>1, <4>1
    <3>3. CASE ~(hi + 1 <= Len(text))
      <4>1. Len(post) = 0
        BY <3>1, <3>3
      <4>2. hi = Len(text)
        BY <1>1, <3>3, NextNumber
      <4> QED
        BY <1>1, <4>1, <4>2
    <3> QED
      BY <3>2, <3>3
  <2> QED
    BY <2>2, <2>3, <2>4
<1> HIDE DEF pre, post
<1>5. DOMAIN pre = 1 .. lo - 1 /\ DOMAIN post = 1 .. Len(text) - hi
  BY <1>3, <1>4, LenProperties
<1>6. \A new : Around(text, lo..hi, new) = pre \o new \o post
  <2>1. Min(lo..hi) = lo /\ Max(lo..hi) = hi /\ lo..hi # {}
    BY Bounds
  <2> QED
    BY <2>1 DEF Around, pre, post
<1> QED
  BY <1>3, <1>4, <1>5, <1>6 DEF Halves, pre, post

(* The first block of a text.  Outside it there is no start marker when    *)
(* the text has no other.                                                  *)
LEMMA BlockHalves ==
    ASSUME NEW text \in Seq(Line)
    PROVE  \E pre, post :
             /\ Halves(text, Block(text), pre, post)
             /\ OneBlock(text) => Unmarked(pre) /\ Unmarked(post)
<1> DEFINE starts == Markers(text, "start")
           ends == {i \in Markers(text, "end") : starts # {} /\ i > Min(starts)}
<1>1. Len(text) \in Nat /\ DOMAIN text = 1 .. Len(text)
  BY LenProperties
<1>2. starts \subseteq 1 .. Len(text) /\ ends \subseteq 1 .. Len(text)
  BY <1>1 DEF Markers
<1>3. IsFiniteSet(starts)
  <2>1. IsFiniteSet(1 .. Len(text))
    BY <1>1, FS_Interval
  <2> HIDE DEF starts
  <2> QED
    BY <1>2, <2>1, FS_Subset
<1>4. Block(text) = IF starts = {} \/ ends = {} THEN {} ELSE Min(starts) .. Min(ends)
  BY DEF Block
<1>5. \A i \in DOMAIN text : text[i][1] = "start" <=> i \in starts
  BY DEF Markers
<1>6. \A i \in ends : starts # {} /\ i > Min(starts)
  OBVIOUS
<1>7. OneBlock(text) <=> Cardinality(starts) = (IF Block(text) = {} THEN 0 ELSE 1)
  BY DEF OneBlock
<1> HIDE DEF starts, ends
<1>8. CASE starts = {} \/ ends = {}
  <2>1. Block(text) = {}
    BY <1>4, <1>8
  <2>2. OneBlock(text) => Unmarked(text)
    <3> SUFFICES ASSUME OneBlock(text) PROVE Unmarked(text)
      OBVIOUS
    <3>1. starts = {}
      BY <1>3, <1>7, <2>1, FS_EmptySet
    <3> QED
      BY <1>5, <3>1 DEF Unmarked
  <2> QED
    BY <2>1, <2>2, HalvesAtEnd DEF Unmarked
<1>9. CASE ~(starts = {} \/ ends = {})
  <2> DEFINE lo == Min(starts)
             hi == Min(ends)
  <2>1. Block(text) = lo .. hi
    BY <1>4, <1>9
  <2>2. lo \in starts /\ hi \in ends
    <3>1. starts \in SUBSET Nat /\ ends \in SUBSET Nat
      BY <1>1, <1>2
    <3> QED
      BY <1>9, <3>1, MinIsLeast
  <2>3. lo < hi
    BY <1>6, <2>2, <1>1, <1>2
  <2> HIDE DEF lo, hi
  <2>4. lo \in Nat /\ hi \in Nat /\ 1 <= lo /\ lo <= hi /\ hi <= Len(text)
    BY <1>1, <1>2, <2>2, <2>3
  <2>5. OneBlock(text) => \A i \in starts : i = lo
    <3> SUFFICES ASSUME OneBlock(text) PROVE \A i \in starts : i = lo
      OBVIOUS
    <3>1. lo \in lo .. hi
      BY <2>4
    <3>2. Cardinality(starts) = 1
      BY <1>7, <2>1, <3>1
    <3>3. PICK x : starts = {x}
      BY <1>3, <3>2, FS_Singleton
    <3> QED
      BY <2>2, <3>3
  <2> DEFINE pre == SubSeq(text, 1, lo - 1)
             post == SubSeq(text, hi + 1, Len(text))
  <2>6. /\ Halves(text, lo..hi, pre, post)
        /\ DOMAIN pre = 1 .. lo - 1
        /\ \A i \in 1 .. lo - 1 : pre[i] = text[i]
        /\ DOMAIN post = 1 .. Len(text) - hi
        /\ \A i \in 1 .. Len(text) - hi : post[i] = text[hi + i]
    BY <2>4, HalvesOfStretch
  <2> HIDE DEF pre, post
  <2>7. OneBlock(text) => Unmarked(pre)
    <3>1. \A i \in 1 .. lo - 1 : i \in DOMAIN text /\ i # lo
      BY <1>1, <2>4
    <3> QED
      BY <1>5, <2>5, <2>6, <3>1 DEF Unmarked
  <2>8. OneBlock(text) => Unmarked(post)
    <3>1. \A i \in 1 .. Len(text) - hi : hi + i \in DOMAIN text /\ hi + i # lo
      BY <1>1, <2>3, <2>4
    <3> QED
      BY <1>5, <2>5, <2>6, <3>1 DEF Unmarked
  <2> QED
    BY <2>1, <2>6, <2>7, <2>8
<1> QED
  BY <1>8, <1>9

(* The notes between two unmarked texts are the block, and the only one.   *)
LEMMA BlockFound ==
    ASSUME NEW pre \in Seq(Line), NEW post \in Seq(Line), Unmarked(pre), Unmarked(post),
           NEW b \in Bodies, NEW text, text = pre \o InstructionsBlock(b) \o post
    PROVE  /\ text \in Seq(Line) /\ text # << >>
           /\ Block(text) = (Len(pre) + 1) .. (Len(pre) + 3)
           /\ Cardinality(Markers(text, "start")) = 1
<1> DEFINE mid == InstructionsBlock(b)
           at == Len(pre)
<1>1. /\ mid \in Seq(Line) /\ Len(mid) = 3
      /\ mid[1][1] = "start" /\ mid[2][1] = "body" /\ mid[3][1] = "end"
  BY OursAreTexts DEF InstructionsBlock
<1>0. text = pre \o mid \o post /\ mid \in Seq(Line)
  BY OursAreTexts
<1> HIDE DEF mid
<1>2. /\ Len(pre) \in Nat /\ DOMAIN pre = 1 .. Len(pre)
      /\ Len(post) \in Nat /\ DOMAIN post = 1 .. Len(post)
  BY LenProperties
<1>3. /\ text \in Seq(Line)
      /\ Len(text) = Len(pre) + 3 + Len(post)
      /\ \A i \in 1 .. Len(pre) + 3 + Len(post) :
           text[i] = IF i <= Len(pre) THEN pre[i]
                     ELSE IF i <= Len(pre) + 3 THEN mid[i - Len(pre)]
                     ELSE post[i - Len(pre) - 3]
  <2>1. /\ pre \o mid \o post \in Seq(Line)
        /\ Len(pre \o mid \o post) = Len(pre) + Len(mid) + Len(post)
        /\ \A i \in 1 .. Len(pre) + Len(mid) + Len(post) :
             (pre \o mid \o post)[i] = IF i <= Len(pre) THEN pre[i]
                                       ELSE IF i <= Len(pre) + Len(mid) THEN mid[i - Len(pre)]
                                       ELSE post[i - Len(pre) - Len(mid)]
    BY <1>0, Parts
  <2>2. Len(mid) = 3
    BY <1>1
  <2> QED
    BY <1>0, <2>1, <2>2
<1>4. DOMAIN text = 1 .. Len(text)
  BY <1>3, LenProperties
<1>5. \A i \in 1 .. at : i \in DOMAIN text /\ text[i] = pre[i]
  BY <1>2, <1>3, <1>4
<1>6. /\ {at + 1, at + 2, at + 3} \subseteq DOMAIN text
      /\ text[at + 1] = mid[1] /\ text[at + 2] = mid[2] /\ text[at + 3] = mid[3]
  BY <1>2, <1>3, <1>4
<1>7. \A i \in DOMAIN text : i > at + 3 => i - at - 3 \in DOMAIN post /\ text[i] = post[i - at - 3]
  BY <1>2, <1>3, <1>4
<1>8. Markers(text, "start") = {at + 1}
  <2>1. ASSUME NEW i \in DOMAIN text PROVE text[i][1] = "start" <=> i = at + 1
    <3>1. CASE i <= at
      BY <1>2, <1>4, <1>5, <3>1, <1>3 DEF Unmarked
    <3>2. CASE i = at + 1
      BY <1>1, <1>6, <3>2
    <3>3. CASE i = at + 2 \/ i = at + 3
      BY <1>1, <1>2, <1>6, <3>3
    <3>4. CASE i > at + 3
      BY <1>2, <1>7, <3>4 DEF Unmarked
    <3>5. i \in Nat
      BY <1>2, <1>3, <1>4
    <3>6. i <= at \/ i = at + 1 \/ (i = at + 2 \/ i = at + 3) \/ i > at + 3
      BY <1>2, <3>5
    <3> QED
      BY <3>1, <3>2, <3>3, <3>4, <3>6
  <2> QED
    BY <1>6, <2>1 DEF Markers
<1>9. Min({at + 1}) = at + 1
  <2>1. {at + 1} \in SUBSET Nat /\ {at + 1} # {}
    BY <1>2
  <2>2. Min({at + 1}) \in {at + 1}
    BY <2>1, MinIsLeast
  <2> QED
    BY <2>2
<1> DEFINE ends == {i \in Markers(text, "end") : i > at + 1}
<1>10. at + 3 \in ends /\ at + 2 \notin ends
  BY <1>1, <1>2, <1>6 DEF Markers
<1>11. \A i \in ends : i \in Nat /\ i > at + 1 /\ i # at + 2
  BY <1>2, <1>3, <1>4, <1>10 DEF Markers
<1>12. Min(ends) = at + 3
  <2>1. ends \in SUBSET Nat /\ ends # {}
    BY <1>10, <1>11
  <2> HIDE DEF ends
  <2>2. Min(ends) \in ends /\ Min(ends) <= at + 3
    BY <1>10, <2>1, MinIsLeast
  <2> QED
    BY <1>2, <1>11, <2>2
<1>13. Block(text) = (at + 1) .. (at + 3)
  <2>1. ends = {i \in Markers(text, "end") : {at + 1} # {} /\ i > Min({at + 1})}
    BY <1>9
  <2>2. Block(text) = IF {at + 1} = {} \/ ends = {} THEN {} ELSE Min({at + 1}) .. Min(ends)
    BY <1>8, <2>1 DEF Block
  <2> HIDE DEF ends
  <2> QED
    BY <1>9, <1>10, <1>12, <2>2
<1>14. Cardinality({at + 1}) = 1
  BY FS_Singleton
<1>15. text # << >>
  BY <1>6
<1> QED
  BY <1>3, <1>8, <1>13, <1>14, <1>15

(* The section of a text, up to the next table.                            *)
LEMMA SectionHalves ==
    ASSUME NEW text \in Seq(Line)
    PROVE  \E pre, post : Halves(text, Section(text), pre, post) /\ Headless(pre) /\ Cut(post)
<1> DEFINE heads == {i \in DOMAIN text : text[i] = <<"table", "ours">>}
           next == {i \in Markers(text, "table") : heads # {} /\ i > Min(heads)}
<1>1. Len(text) \in Nat /\ DOMAIN text = 1 .. Len(text)
  BY LenProperties
<1>2. heads \subseteq 1 .. Len(text) /\ next \subseteq 1 .. Len(text)
  BY <1>1 DEF Markers
<1>3. Section(text) = IF heads = {} THEN {}
                      ELSE Min(heads) .. (IF next = {} THEN Len(text) ELSE Min(next) - 1)
  BY DEF Section
<1>4. \A i \in DOMAIN text : text[i] = <<"table", "ours">> <=> i \in heads
  OBVIOUS
<1>5. \A i \in next : i > Min(heads) /\ text[i][1] = "table"
  BY DEF Markers
<1> HIDE DEF heads, next
<1>6. CASE heads = {}
  <2>1. Section(text) = {} /\ Headless(text)
    BY <1>3, <1>4, <1>6 DEF Headless
  <2> QED
    BY <2>1, HalvesAtEnd DEF Cut
<1>7. CASE heads # {}
  <2> DEFINE lo == Min(heads)
             hi == IF next = {} THEN Len(text) ELSE Min(next) - 1
  <2>1. heads \in SUBSET Nat /\ next \in SUBSET Nat
    BY <1>1, <1>2
  <2>2. lo \in heads /\ \A i \in heads : lo <= i
    BY <1>7, <2>1, MinIsLeast
  <2>3. next # {} => Min(next) \in next
    BY <2>1, MinIsLeast
  <2>4. Section(text) = lo..hi
    BY <1>3, <1>7
  <2>5. hi = Len(text) \/ hi + 1 \in next
    <3>1. CASE next # {}
      <4>1. Min(next) \in next /\ Min(next) \in Nat
        BY <2>1, <2>3, <3>1
      <4>2. hi = Min(next) - 1
        BY <3>1
      <4> HIDE DEF hi
      <4>3. hi + 1 = Min(next)
        BY <4>1, <4>2
      <4> QED
        BY <4>1, <4>3
    <3> QED
      BY <3>1
  <2>6. hi \in Nat /\ lo <= hi /\ hi <= Len(text)
    <3>1. lo \in 1 .. Len(text)
      BY <1>2, <2>2
    <3>2. CASE next = {}
      BY <1>1, <3>1, <3>2
    <3>3. CASE next # {}
      <4>1. Min(next) \in 1 .. Len(text) /\ Min(next) > lo
        BY <1>2, <1>5, <2>3, <3>3
      <4>2. hi = Min(next) - 1
        BY <3>3
      <4> HIDE DEF lo, hi
      <4> QED
        BY <1>1, <3>1, <4>1, <4>2
    <3> QED
      BY <3>2, <3>3
  <2>7. lo \in Nat /\ 1 <= lo
    <3>1. lo \in 1 .. Len(text)
      BY <1>2, <2>2
    <3> HIDE DEF lo
    <3> QED
      BY <1>1, <3>1
  <2> HIDE DEF lo, hi
  <2> DEFINE pre == SubSeq(text, 1, lo - 1)
             post == SubSeq(text, hi + 1, Len(text))
  <2>8. /\ Halves(text, lo..hi, pre, post)
        /\ DOMAIN pre = 1 .. lo - 1
        /\ \A i \in 1 .. lo - 1 : pre[i] = text[i]
        /\ DOMAIN post = 1 .. Len(text) - hi
        /\ \A i \in 1 .. Len(text) - hi : post[i] = text[hi + i]
    BY <2>6, <2>7, HalvesOfStretch
  <2> HIDE DEF pre, post
  <2>9. Headless(pre)
    <3>1. \A i \in 1 .. lo - 1 : i \in DOMAIN text /\ i \notin heads
      BY <1>1, <2>2, <2>6, <2>7
    <3> QED
      BY <1>4, <2>8, <3>1 DEF Headless
  <2>10. Cut(post)
    <3>1. CASE hi = Len(text)
      <4>1. Len(post) = 0
        BY <1>1, <2>8, <3>1, LenProperties DEF Halves
      <4> QED
        BY <2>8, <4>1, EmptySeq DEF Cut, Halves
    <3>2. CASE hi # Len(text)
      <4>1. 1 \in 1 .. Len(text) - hi
        BY <1>1, <2>6, <3>2, Remains
      <4>2. post[1] = text[hi + 1]
        BY <2>8, <4>1
      <4>3. hi + 1 \in next
        BY <2>5, <3>2
      <4> QED
        BY <1>5, <4>2, <4>3 DEF Cut
    <3> QED
      BY <3>1, <3>2
  <2> QED
    BY <2>4, <2>8, <2>9, <2>10
<1> QED
  BY <1>6, <1>7

(* The section between a text without one and the next table is found.     *)
LEMMA SectionFound ==
    ASSUME NEW pre \in Seq(Line), NEW post \in Seq(Line), Headless(pre), Cut(post),
           NEW e \in Entries, NEW text, text = pre \o TomlSection(e) \o post
    PROVE  text \in Seq(Line) /\ Section(text) = (Len(pre) + 1) .. (Len(pre) + 2)
<1> DEFINE mid == TomlSection(e)
           at == Len(pre)
           heads == {i \in DOMAIN text : text[i] = <<"table", "ours">>}
           next == {i \in Markers(text, "table") : heads # {} /\ i > Min(heads)}
<1>0. text = pre \o mid \o post /\ mid \in Seq(Line)
  BY OursAreTexts
<1>1. Len(mid) = 2 /\ mid[1] = <<"table", "ours">> /\ mid[2][1] = "key"
  BY DEF TomlSection
<1> HIDE DEF mid
<1>2. /\ Len(pre) \in Nat /\ DOMAIN pre = 1 .. Len(pre)
      /\ Len(post) \in Nat /\ DOMAIN post = 1 .. Len(post)
  BY LenProperties
<1>3. /\ text \in Seq(Line)
      /\ Len(text) = Len(pre) + 2 + Len(post)
      /\ \A i \in 1 .. Len(pre) + 2 + Len(post) :
           text[i] = IF i <= Len(pre) THEN pre[i]
                     ELSE IF i <= Len(pre) + 2 THEN mid[i - Len(pre)]
                     ELSE post[i - Len(pre) - 2]
  <2>1. /\ pre \o mid \o post \in Seq(Line)
        /\ Len(pre \o mid \o post) = Len(pre) + Len(mid) + Len(post)
        /\ \A i \in 1 .. Len(pre) + Len(mid) + Len(post) :
             (pre \o mid \o post)[i] = IF i <= Len(pre) THEN pre[i]
                                       ELSE IF i <= Len(pre) + Len(mid) THEN mid[i - Len(pre)]
                                       ELSE post[i - Len(pre) - Len(mid)]
    BY <1>0, Parts
  <2>2. Len(mid) = 2
    BY <1>1
  <2> QED
    BY <1>0, <2>1, <2>2
<1>4. DOMAIN text = 1 .. Len(text)
  BY <1>3, LenProperties
<1>5. \A i \in 1 .. at : i \in DOMAIN text /\ text[i] = pre[i]
  BY <1>2, <1>3, <1>4
<1>6. /\ {at + 1, at + 2} \subseteq DOMAIN text
      /\ text[at + 1] = mid[1] /\ text[at + 2] = mid[2]
  BY <1>2, <1>3, <1>4
<1>7. heads \in SUBSET Nat /\ at + 1 \in heads /\ \A i \in heads : ~(i <= at)
  <2>1. heads \in SUBSET Nat
    BY <1>2, <1>3, <1>4
  <2>2. at + 1 \in heads
    BY <1>1, <1>6
  <2>3. ASSUME NEW i \in heads, i <= at PROVE FALSE
    <3>1. i \in 1 .. at
      BY <1>2, <1>3, <1>4, <2>3
    <3>2. text[i] = pre[i] /\ i \in DOMAIN pre
      BY <1>2, <1>5, <3>1
    <3> QED
      BY <3>2 DEF Headless
  <2> QED
    BY <2>1, <2>2, <2>3
<1> HIDE DEF heads
<1>8. Min(heads) = at + 1
  <2>1. Min(heads) \in heads /\ Min(heads) <= at + 1
    BY <1>7, MinIsLeast
  <2>2. Min(heads) \in Nat /\ ~(Min(heads) <= at)
    BY <1>7, <2>1
  <2> QED
    BY <1>2, <2>1, <2>2
<1>9. next = {i \in DOMAIN text : text[i][1] = "table" /\ i > at + 1}
  BY <1>7, <1>8 DEF Markers
<1> HIDE DEF next
<1>10. \A i \in next : i \in Nat /\ i <= Len(text) /\ i >= at + 3
  <2> SUFFICES ASSUME NEW i \in next PROVE i \in Nat /\ i <= Len(text) /\ i >= at + 3
    OBVIOUS
  <2>1. i \in Nat /\ i <= Len(text) /\ i > at + 1 /\ text[i][1] = "table"
    BY <1>2, <1>3, <1>4, <1>9
  <2>2. i # at + 2
    BY <1>1, <1>6, <2>1
  <2> QED
    BY <1>2, <2>1, <2>2
<1>11. post # << >> => at + 3 \in next
  <2> SUFFICES ASSUME post # << >> PROVE at + 3 \in next
    OBVIOUS
  <2>1. Len(post) > 0 /\ post[1][1] = "table"
    BY <1>2, EmptySeq DEF Cut
  <2>2. at + 3 \in DOMAIN text /\ at + 3 > at + 1
    BY <1>2, <1>3, <1>4, <2>1
  <2> DEFINE j == at + 3
  <2>3. j \in 1 .. Len(pre) + 2 + Len(post) /\ ~(j <= Len(pre)) /\ ~(j <= Len(pre) + 2)
        /\ j - Len(pre) - 2 = 1
    BY <1>2, <2>1
  <2> HIDE DEF j
  <2>4. text[j] = post[1]
    BY <1>3, <2>3
  <2> QED
    BY <1>9, <2>1, <2>2, <2>4 DEF j
<1>12. Section(text) = (at + 1) .. (at + 2)
  <2>1. Section(text) = (at + 1) .. (IF next = {} THEN Len(text) ELSE Min(next) - 1)
    <3>1. Section(text) = IF heads = {} THEN {}
                          ELSE Min(heads) .. (IF next = {} THEN Len(text) ELSE Min(next) - 1)
      BY DEF Section, heads, next
    <3> QED
      BY <1>7, <1>8, <3>1
  <2>2. CASE post = << >>
    <3>1. Len(text) = at + 2
      BY <1>2, <1>3, <2>2, EmptySeq
    <3>2. next = {}
      BY <1>2, <1>10, <3>1
    <3> QED
      BY <2>1, <3>1, <3>2
  <2>3. CASE post # << >>
    <3>1. next \in SUBSET Nat /\ at + 3 \in next
      BY <1>10, <1>11, <2>3
    <3>2. Min(next) \in next /\ Min(next) <= at + 3
      BY <3>1, MinIsLeast
    <3>3. Min(next) = at + 3
      BY <1>2, <1>10, <3>2
    <3>4. Min(next) - 1 = at + 2
      BY <1>2, <3>3
    <3> QED
      BY <2>1, <3>1, <3>4
  <2> QED
    BY <2>2, <2>3
<1> QED
  BY <1>3, <1>12

(***************************************************************************)
(* What a run makes of a file                                              *)
(***************************************************************************)
(* The markers of an empty text.                                           *)
LEMMA EmptyText ==
    /\ Block(<< >>) = {} /\ Section(<< >>) = {} /\ OneBlock(<< >>)
    /\ \A new \in Seq(Line) : Around(<< >>, {}, new) = new
<1>1. \A kind : Markers(<< >>, kind) = {}
  BY DEF Markers
<1>2. Block(<< >>) = {}
  BY <1>1 DEF Block
<1>3. Section(<< >>) = {}
  BY DEF Section
<1>4. OneBlock(<< >>)
  BY <1>1, <1>2, FS_EmptySet DEF OneBlock
<1>5. \A new \in Seq(Line) : Around(<< >>, {}, new) = new
  BY ConcatEmptySeq DEF Around
<1> QED
  BY <1>2, <1>3, <1>4, <1>5

(* The user's part of the notes, given what is around the block.           *)
OwnNotes(f, own) ==
    IF IsPrefix(Frontmatter(f), own) THEN SubSeq(own, Len(Frontmatter(f)) + 1, Len(own)) ELSE own

(* The front matter alone, and no text at all, hold nothing of the user's. *)
LEMMA OwnOfNothing ==
    ASSUME NEW f
    PROVE  OwnNotes(f, << >>) = << >> /\ OwnNotes(f, Frontmatter(f)) = << >>
<1> DEFINE front == Frontmatter(f)
<1>1. front = << >> \/ front = <<<<"front", "">>>>
  BY DEF Frontmatter
<1>2. \A text : OwnNotes(f, text) = IF IsPrefix(front, text) THEN SubSeq(text, Len(front) + 1, Len(text)) ELSE text
  BY DEF OwnNotes
<1> HIDE DEF front
<1>3. CASE front = << >>
  <2>1. SubSeq(<< >>, Len(<< >>) + 1, Len(<< >>)) = << >>
    OBVIOUS
  <2> QED
    BY <1>2, <1>3, <2>1 DEF front
<1>4. CASE front = <<<<"front", "">>>>
  <2>1. Len(front) = 1
    BY <1>4
  <2>2. OwnNotes(f, << >>) = << >>
    <3>1. ~IsPrefix(front, << >>)
      BY <2>1 DEF IsPrefix
    <3> QED
      BY <1>2, <3>1
  <2>3. OwnNotes(f, front) = << >>
    <3>1. SubSeq(front, Len(front) + 1, Len(front)) = << >>
      <4>1. \A x : SubSeq(<<x>>, 2, 1) = << >>
        OBVIOUS
      <4> QED
        <5>1. SubSeq(front, 2, 1) = << >>
          BY <1>4, <4>1
        <5>2. Len(front) + 1 = 2
          BY <2>1
        <5> QED
          BY <2>1, <5>1, <5>2
    <3>2. IsPrefix(front, front)
      BY <2>1 DEF IsPrefix
    <3> QED
      BY <1>2, <3>1, <3>2
  <2> QED
    BY <2>2, <2>3 DEF front
<1> QED
  BY <1>1, <1>3, <1>4

(* The user's part of the new text is that of the old, which has the notes *)
(* of this run.                                                            *)
SameNotes(f, text, b, new) ==
    /\ OneBlock(new)
    /\ OwnNotes(f, Around(new, Block(new), << >>)) = OwnNotes(f, Around(text, Block(text), << >>))
    /\ InstructionsPreview(f, new, b) = new

(* Putting the notes into a text with at most one block leaves what is     *)
(* around the block, and putting them in again changes nothing.            *)
LEMMA NotesKept ==
    ASSUME NEW f, NEW text \in Seq(Line), NEW b \in Bodies, NEW new, new = InstructionsPreview(f, text, b)
    PROVE  new \in Seq(Line) /\ (OneBlock(text) => SameNotes(f, text, b, new))
<1> DEFINE mid == InstructionsBlock(b)
<1>1. mid \in Seq(Line) /\ Frontmatter(f) \in Seq(Line) /\ << >> \in Seq(Line)
  BY OursAreTexts, EmptySeq
<1>2. Len(mid) = 3 /\ mid # << >>
  BY DEF InstructionsBlock
<1> HIDE DEF mid
<1>3. ASSUME NEW pre \in Seq(Line), NEW post \in Seq(Line), Unmarked(pre), Unmarked(post),
             new = pre \o mid \o post
      PROVE  /\ OneBlock(new) /\ Around(new, Block(new), << >>) = pre \o << >> \o post
             /\ InstructionsPreview(f, new, b) = new
  <2>1. /\ new \in Seq(Line) /\ new # << >>
        /\ Block(new) = (Len(pre) + 1) .. (Len(pre) + 3)
        /\ Cardinality(Markers(new, "start")) = 1
    BY <1>3, BlockFound DEF mid
  <2>2. \A x : Around(new, Block(new), x) = pre \o x \o post
    <3>1. Block(new) = Place(pre, mid)
      BY <1>2, <2>1 DEF Place
    <3> QED
      <4>1. Swapped(pre, mid, post)
        BY <1>1, <1>2, Swap
      <4>2. \A x : Around(pre \o mid \o post, Place(pre, mid), x) = pre \o x \o post
        BY <4>1, Zenon DEF Swapped
      <4> QED
        BY <1>3, <3>1, <4>2, Zenon
  <2>3. Block(new) # {}
    <3>1. Len(pre) + 1 \in (Len(pre) + 1) .. (Len(pre) + 3)
      BY LenProperties
    <3> QED
      BY <2>1, <3>1
  <2>4. OneBlock(new)
    BY <2>1, <2>3 DEF OneBlock
  <2>5. InstructionsPreview(f, new, b) = Around(new, Block(new), mid)
    BY <2>1 DEF InstructionsPreview, mid
  <2> QED
    BY <1>1, <1>3, <2>2, <2>4, <2>5
<1>4. CASE text = << >>
  <2>1. new = Frontmatter(f) \o mid
    BY <1>4 DEF InstructionsPreview, mid
  <2>2. new \in Seq(Line) /\ new = Frontmatter(f) \o mid \o << >>
    BY <1>1, <2>1, ConcatProperties, ConcatEmptySeq
  <2>3. Unmarked(Frontmatter(f)) /\ Unmarked(<< >>)
    <3>1. Unmarked(<< >>) /\ Unmarked(<<<<"front", "">>>>)
      <4>1. \A x : DOMAIN <<x>> = {1} /\ <<x>>[1] = x
        OBVIOUS
      <4>2. <<"front", "">>[1] # "start" /\ DOMAIN << >> = {}
        OBVIOUS
      <4>3. Unmarked(<< >>)
        BY <4>2 DEF Unmarked
      <4>4. Unmarked(<<<<"front", "">>>>)
        BY <4>1, <4>2, Zenon DEF Unmarked
      <4> QED
        BY <4>3, <4>4
    <3> QED
      BY <3>1, Zenon DEF Frontmatter
  <2>4. /\ OneBlock(new) /\ Around(new, Block(new), << >>) = Frontmatter(f) \o << >> \o << >>
        /\ InstructionsPreview(f, new, b) = new
    BY <1>1, <1>3, <2>2, <2>3
  <2>5. Frontmatter(f) \o << >> \o << >> = Frontmatter(f)
    BY <1>1, ConcatEmptySeq
  <2>6. Around(text, Block(text), << >>) = << >>
    BY <1>1, <1>4, EmptyText
  <2> QED
    BY <2>2, <2>4, <2>5, <2>6, OwnOfNothing DEF SameNotes
<1>5. CASE text # << >>
  <2>1. new = Around(text, Block(text), mid)
    BY <1>5 DEF InstructionsPreview, mid
  <2>2. PICK pre, post :
          /\ Halves(text, Block(text), pre, post)
          /\ OneBlock(text) => Unmarked(pre) /\ Unmarked(post)
    BY BlockHalves
  <2>3. pre \in Seq(Line) /\ post \in Seq(Line)
    BY <2>2 DEF Halves
  <2>4. new = pre \o mid \o post /\ Around(text, Block(text), << >>) = pre \o << >> \o post
    BY <1>1, <2>1, <2>2 DEF Halves
  <2>5. new \in Seq(Line)
    BY <1>1, <2>3, <2>4, Parts
  <2> QED
    BY <1>3, <2>2, <2>3, <2>4, <2>5 DEF SameNotes
<1> QED
  BY <1>4, <1>5

(* A configuration in TOML, as Merged treats it.                           *)
TomlMerged(text, e) ==
    IF Parses(text) /\ Registered(text, e) THEN text
    ELSE IF Parses(text) THEN MergedToml(text, e) ELSE Absent

(* The same of a TOML configuration and its section.                       *)
LEMMA TomlKept ==
    ASSUME NEW text \in Seq(Line), NEW e \in Entries, NEW new, new = TomlMerged(text, e), new # Absent
    PROVE  /\ new \in Seq(Line)
           /\ Around(new, Section(new), << >>) = Around(text, Section(text), << >>)
           /\ TomlMerged(new, e) = new
<1> DEFINE mid == TomlSection(e)
<1>1. mid \in Seq(Line) /\ << >> \in Seq(Line)
  BY OursAreTexts, EmptySeq
<1>2. Len(mid) = 2 /\ mid # << >>
  BY DEF TomlSection
<1> HIDE DEF mid
<1>3. CASE new = text
  BY <1>3
<1>4. CASE new # text
  <2>1. new = Around(text, Section(text), mid) /\ Parses(new)
    BY <1>4 DEF TomlMerged, MergedToml, mid
  <2>2. PICK pre, post : Halves(text, Section(text), pre, post) /\ Headless(pre) /\ Cut(post)
    BY SectionHalves
  <2>3. pre \in Seq(Line) /\ post \in Seq(Line)
    BY <2>2 DEF Halves
  <2>4. new = pre \o mid \o post /\ Around(text, Section(text), << >>) = pre \o << >> \o post
    BY <1>1, <2>1, <2>2 DEF Halves
  <2>5. new \in Seq(Line) /\ Section(new) = (Len(pre) + 1) .. (Len(pre) + 2)
    BY <2>2, <2>3, <2>4, SectionFound DEF mid
  <2>6. \A x : Around(new, Section(new), x) = pre \o x \o post
    <3>1. Section(new) = Place(pre, mid)
      BY <1>2, <2>5 DEF Place
    <3> QED
      <4>1. Swapped(pre, mid, post)
        BY <1>1, <1>2, <2>3, Swap
      <4>2. \A x : Around(pre \o mid \o post, Place(pre, mid), x) = pre \o x \o post
        BY <4>1, Zenon DEF Swapped
      <4> QED
        BY <2>4, <3>1, <4>2, Zenon
  <2>7. MergedToml(new, e) = new
    BY <2>1, <2>4, <2>6 DEF MergedToml, mid
  <2>8. TomlMerged(new, e) = new
    BY <2>1, <2>7 DEF TomlMerged
  <2> QED
    BY <2>4, <2>5, <2>6, <2>8
<1> QED
  BY <1>3, <1>4

(***************************************************************************)
(* Files                                                                   *)
(***************************************************************************)
Files == Configs \union Notes
Texts(f) == TextsOf(f) \union {Absent}
Given(f, text) == IF text = Absent THEN Nothing(f) ELSE text

(* The kinds of files.                                                     *)
LEMMA Kinds ==
    ASSUME NEW f \in Files
    PROVE  /\ f[2] = "config" \/ f[2] = "notes"
           /\ f[2] = "notes" => ~IsToml(f)
  BY DEF Files, Configs, Notes, IsToml

(* Texts are not Absent.                                                   *)
LEMMA TextsPresent ==
    ASSUME NEW f
    PROVE  Absent \notin TextsOf(f)
  BY TextsAssumption DEF TextsOf

(* What an operation makes of a file, by the kind of the file.             *)
LEMMA NotesOperations ==
    ASSUME NEW f \in Files, f[2] = "notes"
    PROVE  /\ TextsOf(f) = Seq(Line) /\ Nothing(f) = << >> /\ Truncated(f) = << >>
           /\ \A old, e, b : Merged(f, old, e, b)
                               = InstructionsPreview(f, IF old = Absent THEN << >> ELSE old, b)
           /\ \A text : Promised(f, text) <=> (text = Absent \/ OneBlock(text))
           /\ \A text \in Seq(Line) : Own(f, text) = OwnNotes(f, Around(text, Block(text), << >>))
<1>1. ~IsToml(f) /\ f[2] # "config"
  BY Kinds
<1>2. \A text \in Seq(Line) : text # Absent
  BY TextsAssumption
<1>3. \A old, e, b : Merged(f, old, e, b)
                       = InstructionsPreview(f, IF old = Absent THEN << >> ELSE old, b)
  BY <1>1 DEF Merged
<1>4. \A text : Promised(f, text) <=> (text = Absent \/ OneBlock(text))
  BY <1>1, Zenon DEF Promised, OneBlock
<1>5. \A text \in Seq(Line) : Own(f, text) = OwnNotes(f, Around(text, Block(text), << >>))
  BY <1>2, Zenon DEF Own, OwnNotes
<1> QED
  BY <1>3, <1>4, <1>5, Zenon DEF TextsOf, Nothing, Truncated

(* The same for a TOML configuration.                                      *)
LEMMA TomlOperations ==
    ASSUME NEW f \in Files, f[2] # "notes", IsToml(f)
    PROVE  /\ TextsOf(f) = Seq(Line) /\ Nothing(f) = << >> /\ Truncated(f) = << >>
           /\ \A old, e, b : Merged(f, old, e, b) = TomlMerged(IF old = Absent THEN << >> ELSE old, e)
           /\ \A text : Promised(f, text)
           /\ \A text \in Seq(Line) : Own(f, text) = Around(text, Section(text), << >>)
<1>1. \A text \in Seq(Line) : text # Absent
  BY TextsAssumption
<1>2. \A old, e, b : Merged(f, old, e, b) = TomlMerged(IF old = Absent THEN << >> ELSE old, e)
  BY DEF Merged, TomlMerged
<1>3. \A text : Promised(f, text)
  BY Kinds DEF Promised
<1>4. \A text \in Seq(Line) : Own(f, text) = Around(text, Section(text), << >>)
  BY <1>1, Zenon DEF Own
<1> QED
  BY <1>2, <1>3, <1>4, Zenon DEF TextsOf, Nothing, Truncated

(* The same for a JSON configuration.                                      *)
LEMMA JsonOperations ==
    ASSUME NEW f \in Files, f[2] # "notes", ~IsToml(f)
    PROVE  /\ TextsOf(f) = Json /\ Nothing(f) = NewJson /\ Truncated(f) = [NewJson EXCEPT !.ok = FALSE]
           /\ \A old, e, b : Merged(f, old, e, b) = MergedConfig(IF old = Absent THEN NewJson ELSE old, e)
           /\ \A text : Promised(f, text)
           /\ \A text \in Json : Own(f, text) = [text EXCEPT !.ours = Absent]
<1>1. \A text \in Json : text # Absent
  BY TextsAssumption
<1>2. \A old, e, b : Merged(f, old, e, b) = MergedConfig(IF old = Absent THEN NewJson ELSE old, e)
  BY DEF Merged
<1>3. \A text : Promised(f, text)
  BY Kinds DEF Promised
<1>4. \A text \in Json : Own(f, text) = [text EXCEPT !.ours = Absent]
  BY <1>1, Zenon DEF Own
<1> QED
  BY <1>2, <1>3, <1>4, Zenon DEF TextsOf, Nothing, Truncated

(* Merging an entry into a JSON configuration leaves the rest of it.       *)
LEMMA JsonKept ==
    /\ NewJson \in Json /\ [NewJson EXCEPT !.ok = FALSE] \in Json
    /\ [NewJson EXCEPT !.ours = Absent] = NewJson
    /\ \A json \in Json : [json EXCEPT !.ours = Absent] \in Json
    /\ \A json \in Json, e \in Entries : MergedConfig(json, e) # Absent =>
         /\ MergedConfig(json, e) \in Json
         /\ [MergedConfig(json, e) EXCEPT !.ours = Absent] = [json EXCEPT !.ours = Absent]
         /\ MergedConfig(MergedConfig(json, e), e) = MergedConfig(json, e)
<1>1. "object" \in Words /\ "none" \in Words /\ \A e \in Entries : e \in Words
  BY TextsAssumption
<1>2. NewJson \in Json /\ [NewJson EXCEPT !.ok = FALSE] \in Json /\ [NewJson EXCEPT !.ours = Absent] = NewJson
  <2>1. NewJson \in Json
    BY <1>1, Zenon DEF NewJson, Json
  <2>2. [NewJson EXCEPT !.ok = FALSE] \in Json
    BY <2>1 DEF Json
  <2>3. [NewJson EXCEPT !.ours = Absent] = NewJson
    <3>1. NewJson.ours = Absent
      BY DEF NewJson
    <3>2. \A json \in Json : json.ours = Absent => [json EXCEPT !.ours = Absent] = json
      BY DEF Json
    <3> QED
      BY <2>1, <3>1, <3>2
  <2> QED
    BY <2>1, <2>2, <2>3
<1>3. \A json \in Json : [json EXCEPT !.ours = Absent] \in Json
  BY DEF Json
<1>4. ASSUME NEW json \in Json, NEW e \in Entries, MergedConfig(json, e) # Absent
      PROVE  /\ MergedConfig(json, e) \in Json
             /\ [MergedConfig(json, e) EXCEPT !.ours = Absent] = [json EXCEPT !.ours = Absent]
             /\ MergedConfig(MergedConfig(json, e), e) = MergedConfig(json, e)
  <2> DEFINE new == [json EXCEPT !.ours = e]
  <2>1. MergedConfig(json, e) = new /\ json.ok /\ json.servers = "object"
    BY <1>4 DEF MergedConfig
  <2>2. new \in Json /\ new.ok = json.ok /\ new.servers = json.servers
    BY <1>1 DEF Json
  <2>3. [new EXCEPT !.ours = Absent] = [json EXCEPT !.ours = Absent] /\ [new EXCEPT !.ours = e] = new
    BY DEF Json
  <2>4. MergedConfig(new, e) = [new EXCEPT !.ours = e]
    BY <2>1, <2>2 DEF MergedConfig
  <2> HIDE DEF new
  <2> QED
    BY <2>1, <2>2, <2>3, <2>4
<1> QED
  BY <1>2, <1>3, <1>4

(* A run keeps the user's part of every file whose text it understands,    *)
(* and finds its own work done when it runs again.                         *)
LEMMA MergedKeeps ==
    ASSUME NEW f \in Files, NEW old \in Texts(f), NEW e \in Entries, NEW b \in Bodies,
           NEW new, new = Merged(f, old, e, b), new # Absent
    PROVE  /\ new \in TextsOf(f)
           /\ Promised(f, old) =>
                /\ Promised(f, new)
                /\ Own(f, new) = Own(f, Given(f, old))
                /\ Merged(f, new, e, b) = new
<1> DEFINE text == Given(f, old)
<1>1. CASE f[2] = "notes"
  <2>1. text \in Seq(Line)
    BY <1>1, NotesOperations, EmptySeq DEF Texts, Given
  <2>2. new = InstructionsPreview(f, text, b)
    BY <1>1, NotesOperations DEF Given
  <2>3. Promised(f, old) => OneBlock(text)
    BY <1>1, NotesOperations, EmptyText DEF Given
  <2> HIDE DEF text
  <2>4. new \in Seq(Line) /\ (OneBlock(text) => SameNotes(f, text, b, new))
    BY <2>1, <2>2, NotesKept
  <2>5. Merged(f, new, e, b) = InstructionsPreview(f, new, b)
    BY <1>1, NotesOperations
  <2>6. /\ Own(f, new) = OwnNotes(f, Around(new, Block(new), << >>))
        /\ Own(f, text) = OwnNotes(f, Around(text, Block(text), << >>))
    BY <1>1, <2>1, <2>4, NotesOperations
  <2> QED
    BY <1>1, <2>3, <2>4, <2>5, <2>6, NotesOperations DEF text, SameNotes
<1>2. CASE f[2] # "notes" /\ IsToml(f)
  <2>1. text \in Seq(Line)
    BY <1>2, TomlOperations, EmptySeq DEF Texts, Given
  <2>2. new = TomlMerged(text, e)
    BY <1>2, TomlOperations DEF Given
  <2> HIDE DEF text
  <2>3. /\ new \in Seq(Line)
        /\ Around(new, Section(new), << >>) = Around(text, Section(text), << >>)
        /\ TomlMerged(new, e) = new
    BY <2>1, <2>2, TomlKept
  <2>4. Merged(f, new, e, b) = TomlMerged(new, e)
    BY <1>2, TomlOperations
  <2>5. Own(f, new) = Own(f, text)
    BY <1>2, <2>1, <2>3, TomlOperations
  <2> QED
    BY <1>2, <2>3, <2>4, <2>5, TomlOperations DEF text
<1>3. CASE f[2] # "notes" /\ ~IsToml(f)
  <2>1. text \in Json
    BY <1>3, JsonOperations, JsonKept DEF Texts, Given
  <2>2. new = MergedConfig(text, e)
    BY <1>3, JsonOperations DEF Given
  <2> HIDE DEF text
  <2>3. /\ new \in Json
        /\ [new EXCEPT !.ours = Absent] = [text EXCEPT !.ours = Absent]
        /\ MergedConfig(new, e) = new
    BY <2>1, <2>2, JsonKept
  <2>4. Merged(f, new, e, b) = MergedConfig(new, e)
    BY <1>3, JsonOperations
  <2>5. Own(f, new) = Own(f, text)
    BY <1>3, <2>1, <2>3, JsonOperations
  <2> QED
    BY <1>3, <2>3, <2>4, <2>5, JsonOperations DEF text
<1> QED
  BY <1>1, <1>2, <1>3

(* An empty file, and one that a killed run left, hold nothing of the      *)
(* user's.                                                                 *)
LEMMA NothingOwned ==
    ASSUME NEW f \in Files
    PROVE  /\ Nothing(f) \in TextsOf(f) /\ Truncated(f) \in TextsOf(f)
           /\ Promised(f, Absent) /\ Promised(f, Truncated(f))
           /\ Own(f, Nothing(f)) = Nothing(f)
           /\ f[2] = "config" => \A text \in TextsOf(f) : Own(f, text) \in TextsOf(f)
<1>1. CASE f[2] = "notes"
  <2>1. << >> \in Seq(Line)
    BY EmptySeq
  <2>2. Around(<< >>, Block(<< >>), << >>) = << >>
    BY <2>1, EmptyText
  <2> QED
    BY <1>1, <2>1, <2>2, NotesOperations, EmptyText, OwnOfNothing
<1>2. CASE f[2] # "notes" /\ IsToml(f)
  <2>1. << >> \in Seq(Line)
    BY EmptySeq
  <2>2. Around(<< >>, Section(<< >>), << >>) = << >>
    BY <2>1, EmptyText
  <2>3. ASSUME NEW text \in Seq(Line) PROVE Around(text, Section(text), << >>) \in Seq(Line)
    <3>1. PICK pre, post : Halves(text, Section(text), pre, post)
      BY SectionHalves
    <3>2. Around(text, Section(text), << >>) = pre \o << >> \o post /\ pre \in Seq(Line) /\ post \in Seq(Line)
      BY <2>1, <3>1 DEF Halves
    <3> QED
      BY <2>1, <3>2, Parts
  <2> QED
    BY <1>2, <2>1, <2>2, <2>3, TomlOperations
<1>3. CASE f[2] # "notes" /\ ~IsToml(f)
  <2>1. NewJson \in Json /\ [NewJson EXCEPT !.ok = FALSE] \in Json
    BY JsonKept
  <2>2. Own(f, NewJson) = NewJson /\ \A text \in Json : Own(f, text) \in Json
    BY <1>3, <2>1, JsonOperations, JsonKept
  <2>3. TextsOf(f) = Json /\ Nothing(f) = NewJson /\ Truncated(f) = [NewJson EXCEPT !.ok = FALSE]
    BY <1>3, JsonOperations
  <2>4. \A text : Promised(f, text)
    BY <1>3, JsonOperations
  <2> QED
    BY <2>1, <2>2, <2>3, <2>4
<1> QED
  BY <1>1, <1>2, <1>3

(***************************************************************************)
(* The invariant                                                           *)
(***************************************************************************)
(* The contents of the files are texts of theirs.                          *)
Typed ==
    /\ file = [f \in Files |-> file[f]]
    /\ \A f \in Files : file[f] \in Texts(f)
    /\ bak = [f \in Files |-> bak[f]]
    /\ users = [f \in Files |-> users[f]]
    /\ entry \in Entries /\ body \in Bodies
(* What is promised is the user's part of the file.                        *)
Kept ==
    \A f \in Files : users[f] # Absent => Promised(f, file[f]) /\ Own(f, Given(f, file[f])) = users[f]
BackupKept ==
    \A f \in Files : users[f] = Absent /\ f[2] = "config" /\ TargetOf(f).backup => bak[f] # Absent
IInv == Typed /\ Kept /\ BackupKept

(* The invariant holds at the start.                                       *)
LEMMA InitIInv == Init => IInv
<1> SUFFICES ASSUME Init PROVE IInv
  OBVIOUS
<1>1. file = [f \in Files |-> Absent] /\ bak = file /\ DOMAIN file = Files
  BY DEF Init, Files
<1>2. users = [f \in Files |-> Nothing(f)]
  BY <1>1 DEF Init
<1>3. \A f \in Files : file[f] = Absent /\ users[f] = Nothing(f)
  BY <1>1, <1>2
<1>4. Typed
  BY <1>1, <1>2, <1>3 DEF Typed, Texts, Init
<1>5. Kept
  BY <1>3, NothingOwned DEF Kept, Given
<1>6. BackupKept
  BY <1>3, NothingOwned, TextsPresent DEF BackupKept
<1> QED
  BY <1>4, <1>5, <1>6 DEF IInv

(* The conjuncts of Typed, of the next state.                              *)
LEMMA TypedLater ==
    ASSUME file' = [f \in Files |-> file'[f]], \A f \in Files : file'[f] \in Texts(f),
           bak' = [f \in Files |-> bak'[f]], users' = [f \in Files |-> users'[f]],
           entry' \in Entries, body' \in Bodies
    PROVE  Typed'
  BY DEF Typed

(* An edit of the user's.                                                  *)
LEMMA EditIInv == ASSUME IInv, NEW g \in DOMAIN file, Edit(g) PROVE IInv'
<1>1. DOMAIN file = Files /\ Typed /\ Kept /\ BackupKept /\ g \in Files
  BY DEF IInv, Typed
<1>2. PICK text \in UserTexts[g] \ {file[g]} :
        /\ file' = [file EXCEPT ![g] = text]
        /\ users' = [users EXCEPT ![g] = IF ~Promised(g, text) THEN Absent
                                         ELSE IF text = Absent THEN Nothing(g) ELSE Own(g, text)]
        /\ UNCHANGED <<bak, steps, entry, body>>
  BY DEF Edit
<1>3. text \in Texts(g)
  BY <1>1, TextsAssumption DEF Texts, Files
<1>4. /\ file'[g] = text
      /\ users'[g] = IF ~Promised(g, text) THEN Absent ELSE Own(g, Given(g, text))
  BY <1>1, <1>2, NothingOwned DEF Given, Typed
<1>5. \A f \in Files : f # g => file'[f] = file[f] /\ users'[f] = users[f]
  BY <1>1, <1>2 DEF Typed
<1>6. file' = [f \in Files |-> file'[f]] /\ users' = [f \in Files |-> users'[f]]
  BY <1>1, <1>2 DEF Typed
<1>7. Typed'
  <2>1. \A f \in Files : file'[f] \in Texts(f)
    BY <1>1, <1>3, <1>4, <1>5 DEF Typed
  <2>2. bak' = [f \in Files |-> bak'[f]]
    BY <1>1, <1>2 DEF Typed
  <2>3. entry' \in Entries /\ body' \in Bodies
    BY <1>1, <1>2 DEF Typed
  <2> QED
    BY <1>6, <2>1, <2>2, <2>3, TypedLater
<1>8. Kept'
  BY <1>1, <1>4, <1>5 DEF Kept
<1>9. BackupKept'
  <2>1. g[2] = "config" => users'[g] # Absent
    <3> SUFFICES ASSUME g[2] = "config" PROVE users'[g] # Absent
      OBVIOUS
    <3>1. Promised(g, text)
      BY DEF Promised
    <3>2. Given(g, text) \in TextsOf(g)
      BY <1>1, <1>3, NothingOwned DEF Given, Texts
    <3>3. Own(g, Given(g, text)) \in TextsOf(g)
      BY <1>1, <3>2, NothingOwned
    <3> QED
      BY <1>4, <3>1, <3>3, TextsPresent
  <2> QED
    BY <1>1, <1>2, <1>5, <2>1 DEF BackupKept
<1> QED
  BY <1>7, <1>8, <1>9 DEF IInv

(* The copy made before a write keeps every backup, and makes the one that *)
(* was missing.                                                            *)
LEMMA BackedUpKeeps ==
    ASSUME Typed, NEW g, NEW f \in Files
    PROVE  /\ BackedUp(g) = [h \in Files |-> BackedUp(g)[h]]
           /\ bak[f] # Absent => BackedUp(g)[f] # Absent
           /\ g = f /\ f[2] = "config" /\ TargetOf(f).backup /\ file[f] # Absent => BackedUp(g)[f] # Absent
<1>1. CASE g[2] = "config" /\ TargetOf(g).backup /\ bak[g] = Absent
  <2>1. BackedUp(g) = [bak EXCEPT ![g] = file[g]]
    BY <1>1 DEF BackedUp
  <2>2. BackedUp(g) = [h \in Files |-> IF h = g THEN file[g] ELSE bak[h]]
    BY <2>1 DEF Typed
  <2>3. \A h \in Files : BackedUp(g)[h] = IF h = g THEN file[g] ELSE bak[h]
    BY <2>2
  <2> QED
    BY <1>1, <2>2, <2>3
<1>2. CASE ~(g[2] = "config" /\ TargetOf(g).backup /\ bak[g] = Absent)
  <2>1. BackedUp(g) = bak
    BY <1>2 DEF BackedUp
  <2> QED
    BY <1>2, <2>1 DEF Typed
<1> QED
  BY <1>1, <1>2

(* A file written.                                                         *)
LEMMA WriteIInv == ASSUME IInv, Write PROVE IInv'
<1> DEFINE g == Head(steps)
           new == Merged(g, file[g], entry, body)
<1>1. Typed /\ Kept /\ BackupKept
  BY DEF IInv
<1>2. UNCHANGED <<entry, body, users>>
  BY DEF Write
<1>3. CASE new = Absent
  <2>1. UNCHANGED <<file, bak>>
    BY <1>3 DEF Write
  <2> QED
    BY <1>1, <1>2, <2>1 DEF IInv, Typed, Kept, BackupKept
<1>4. CASE new # Absent
  <2>1. file' = [file EXCEPT ![g] = new] /\ bak' = IF new = file[g] THEN bak ELSE BackedUp(g)
    BY <1>4 DEF Write
  <2>2. new = Merged(g, file[g], entry, body)
    OBVIOUS
  <2> HIDE DEF new, g
  <2>3. file' = [f \in Files |-> IF f = g THEN new ELSE file[f]]
    BY <1>1, <2>1 DEF Typed
  <2>4. \A f \in Files : file'[f] = IF f = g THEN new ELSE file[f]
    BY <2>3
  <2>5. g \in Files =>
          /\ new \in TextsOf(g)
          /\ Promised(g, file[g]) => Promised(g, new) /\ Own(g, new) = Own(g, Given(g, file[g]))
    BY <1>1, <1>4, <2>2, MergedKeeps DEF Typed
  <2>6. bak' = [f \in Files |-> bak'[f]] /\ \A f \in Files : bak[f] # Absent => bak'[f] # Absent
    <3>1. Typed
      BY <1>1
    <3>2. bak' = bak \/ bak' = BackedUp(g)
      BY <2>1
    <3>3. CASE bak' = bak
      BY <3>1, <3>3 DEF Typed
    <3>4. CASE bak' = BackedUp(g)
      <4>1. CASE Files = {}
        BY <1>1, <2>1, <4>1 DEF Typed, BackedUp
      <4>2. CASE Files # {}
        BY <3>1, <3>4, <4>2, BackedUpKeeps
      <4> QED
        BY <4>1, <4>2
    <3> QED
      BY <3>2, <3>3, <3>4
  <2>7. Typed'
    <3>1. \A f \in Files : file'[f] \in Texts(f)
      BY <1>1, <2>4, <2>5 DEF Typed, Texts
    <3>2. file' = [f \in Files |-> file'[f]] /\ users' = [f \in Files |-> users'[f]]
      BY <1>1, <1>2, <2>3, <2>4 DEF Typed
    <3>3. entry' \in Entries /\ body' \in Bodies
      BY <1>1, <1>2 DEF Typed
    <3> QED
      BY <2>6, <3>1, <3>2, <3>3, TypedLater
  <2>8. Kept'
    <3> SUFFICES ASSUME NEW f \in Files, users[f] # Absent
                 PROVE  Promised(f, file'[f]) /\ Own(f, Given(f, file'[f])) = users[f]
      BY <1>2 DEF Kept
    <3>1. Promised(f, file[f]) /\ Own(f, Given(f, file[f])) = users[f]
      BY <1>1 DEF Kept
    <3>2. CASE f # g
      BY <2>4, <3>1, <3>2
    <3>3. CASE f = g
      <4>1. file'[f] = new /\ Promised(f, new) /\ Own(f, new) = users[f]
        BY <2>4, <2>5, <3>1, <3>3
      <4>2. Given(f, new) = new
        BY <1>4 DEF Given
      <4> QED
        BY <4>1, <4>2
    <3> QED
      BY <3>2, <3>3
  <2>9. BackupKept'
    BY <1>1, <1>2, <2>6 DEF BackupKept
  <2> QED
    BY <2>7, <2>8, <2>9 DEF IInv
<1> QED
  BY <1>3, <1>4

(* A run killed.                                                           *)
LEMMA KilledIInv == ASSUME IInv, Killed PROVE IInv'
<1> DEFINE g == Head(steps)
           new == Merged(g, file[g], entry, body)
<1>1. Typed /\ Kept /\ BackupKept
  BY DEF IInv
<1>2. UNCHANGED <<entry, body>>
  BY DEF Killed
<1>3. CASE UNCHANGED <<file, bak, users>>
  BY <1>1, <1>2, <1>3 DEF IInv, Typed, Kept, BackupKept
<1>4. CASE /\ file' = [file EXCEPT ![g] = Truncated(g)]
           /\ bak' = BackedUp(g)
           /\ users' = [users EXCEPT ![g] = IF file[g] = Absent THEN Own(g, Truncated(g)) ELSE Absent]
  <2> HIDE DEF g
  <2>1. /\ file' = [f \in Files |-> IF f = g THEN Truncated(g) ELSE file[f]]
        /\ users' = [f \in Files |-> IF f # g THEN users[f]
                                     ELSE IF file[g] = Absent THEN Own(g, Truncated(g)) ELSE Absent]
    BY <1>1, <1>4 DEF Typed
  <2>2. \A f \in Files : f # g => file'[f] = file[f] /\ users'[f] = users[f]
    BY <2>1
  <2>3. g \in Files => /\ file'[g] = Truncated(g)
                       /\ users'[g] = IF file[g] = Absent THEN Own(g, Truncated(g)) ELSE Absent
    BY <2>1
  <2>4. g \in Files => Truncated(g) \in TextsOf(g) /\ Promised(g, Truncated(g))
    BY NothingOwned
  <2>5. bak' = [f \in Files |-> bak'[f]]
    <3>1. CASE Files = {}
      BY <1>1, <1>4, <3>1 DEF Typed, BackedUp
    <3>2. CASE Files # {}
      BY <1>1, <1>4, <3>2, BackedUpKeeps
    <3> QED
      BY <3>1, <3>2
  <2>6. Typed'
    <3>1. \A f \in Files : file'[f] \in Texts(f)
      BY <1>1, <2>2, <2>3, <2>4 DEF Typed, Texts
    <3>2. file' = [f \in Files |-> file'[f]] /\ users' = [f \in Files |-> users'[f]]
      BY <2>1
    <3>3. entry' \in Entries /\ body' \in Bodies
      BY <1>1, <1>2 DEF Typed
    <3> QED
      BY <2>5, <3>1, <3>2, <3>3, TypedLater
  <2>7. Kept'
    <3> SUFFICES ASSUME NEW f \in Files, users'[f] # Absent
                 PROVE  Promised(f, file'[f]) /\ Own(f, Given(f, file'[f])) = users'[f]
      BY DEF Kept
    <3>1. CASE f # g
      BY <1>1, <2>2, <3>1 DEF Kept
    <3>2. CASE f = g
      <4>1. Given(g, Truncated(g)) = Truncated(g)
        BY <2>4, <3>2, TextsPresent DEF Given
      <4> QED
        BY <2>3, <2>4, <3>2, <4>1
    <3> QED
      BY <3>1, <3>2
  <2>8. BackupKept'
    <3> SUFFICES ASSUME NEW f \in Files, users'[f] = Absent, f[2] = "config", TargetOf(f).backup
                 PROVE  bak'[f] # Absent
      BY DEF BackupKept
    <3>1. CASE f # g
      BY <1>1, <1>4, <2>2, <3>1, BackedUpKeeps DEF BackupKept
    <3>2. CASE f = g
      <4>1. Own(g, Truncated(g)) # Absent
        BY <2>4, <3>2, NothingOwned, TextsPresent
      <4>2. file[f] # Absent
        BY <2>3, <3>2, <4>1
      <4> QED
        BY <1>1, <1>4, <3>2, <4>2, BackedUpKeeps
    <3> QED
      BY <3>1, <3>2
  <2> QED
    BY <2>6, <2>7, <2>8 DEF IInv
<1> QED
  BY <1>3, <1>4, Zenon DEF Killed

(* Every step keeps the invariant.                                         *)
LEMMA NextIInv == ASSUME IInv, [Next]_vars PROVE IInv'
<1>1. ASSUME NEW g \in DOMAIN file, Edit(g) PROVE IInv'
  BY <1>1, EditIInv
<1>2. CASE Start
  BY <1>2 DEF IInv, Typed, Kept, BackupKept, Start
<1>3. CASE Decline
  BY <1>3 DEF IInv, Typed, Kept, BackupKept, Decline
<1>4. CASE Write
  BY <1>4, WriteIInv
<1>5. CASE Killed
  BY <1>5, KilledIInv
<1>6. CASE UNCHANGED vars
  BY <1>6 DEF IInv, Typed, Kept, BackupKept, vars
<1> QED
  BY <1>1, <1>2, <1>3, <1>4, <1>5, <1>6 DEF Next

(* However often setup runs, is declined, refused or killed, and whatever  *)
(* the user writes into the files meanwhile, it changes no word of the     *)
(* user's and repeats its own work without a change; a user-level file it  *)
(* was killed in has its backup (mcp/setup.py: instructions_preview,       *)
(* merged_config, merged_toml; cli/serve.py: setup).                       *)
THEOREM UsersTextSurvives == Spec => []UsersTextKept
<1>1. Init => IInv
  BY InitIInv
<1>2. IInv /\ [Next]_vars => IInv'
  BY NextIInv
<1>3. IInv => UsersTextKept
  <2> SUFFICES ASSUME IInv, NEW f \in DOMAIN file
               PROVE  /\ users[f] # Absent =>
                          /\ Own(f, Given(f, file[f])) = users[f]
                          /\ Merged(f, file[f], entry, body) # Absent =>
                               Merged(f, Merged(f, file[f], entry, body), entry, body)
                                 = Merged(f, file[f], entry, body)
                      /\ (users[f] = Absent /\ f[2] = "config" /\ TargetOf(f).backup) => bak[f] # Absent
    BY Zenon DEF UsersTextKept, Given
  <2>1. f \in Files /\ file[f] \in Texts(f) /\ entry \in Entries /\ body \in Bodies
    BY DEF IInv, Typed
  <2>2. users[f] # Absent => Promised(f, file[f]) /\ Own(f, Given(f, file[f])) = users[f]
    BY <2>1 DEF IInv, Kept
  <2>3. Merged(f, file[f], entry, body) # Absent /\ Promised(f, file[f]) =>
          Merged(f, Merged(f, file[f], entry, body), entry, body) = Merged(f, file[f], entry, body)
    BY <2>1, MergedKeeps
  <2> QED
    BY <2>1, <2>2, <2>3 DEF IInv, BackupKept
<1> QED
  BY <1>1, <1>2, <1>3, PTL DEF Spec
===============================================================================
