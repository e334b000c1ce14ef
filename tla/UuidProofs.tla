----------------------------- MODULE UuidProofs -----------------------------
(***************************************************************************)
(* What the operators of Uuid compute, for every id, every text and all    *)
(* random bytes.                                                           *)
(***************************************************************************)
EXTENDS Uuid, SequenceTheorems, TLAPS

\* The bytes of a block are those of a word, whatever the byte order.
LEMMA BlockIsWord ==
    ASSUME NEW ord \in Orders, NEW a \in Byte, NEW b \in Byte, NEW c \in Byte, NEW d \in Byte
    PROVE  Block(ord, <<a, b, c, d>>) \in Word
  BY DEF Block, Word

\* Version and variant keep a digit a digit.
LEMMA StampIsByte ==
    ASSUME NEW b \in Byte
    PROVE  <<4, b[2]>> \in Byte /\ <<8 + (b[1] % 4), b[2]>> \in Byte
  <1>1. b[1] \in Digit /\ b[2] \in Digit  BY DEF Byte
  <1>2. 8 + (b[1] % 4) \in Digit  BY <1>1 DEF Digit
  <1>3. 4 \in Digit  BY DEF Digit
  <1> QED  BY <1>1, <1>2, <1>3 DEF Byte

\* Uuid::make returns an id.
LEMMA MakeIsId ==
    ASSUME NEW ord \in Orders, NEW r, \A k \in 1..16 : r[k] \in Byte
    PROVE  Make(ord, r) \in Ids
  <1>1. /\ r[1] \in Byte /\ r[2] \in Byte /\ r[3] \in Byte /\ r[4] \in Byte
        /\ r[5] \in Byte /\ r[6] \in Byte /\ r[7] \in Byte /\ r[8] \in Byte
    OBVIOUS
  <1>2. /\ r[9] \in Byte /\ r[10] \in Byte /\ r[11] \in Byte /\ r[12] \in Byte
        /\ r[13] \in Byte /\ r[14] \in Byte /\ r[15] \in Byte /\ r[16] \in Byte
    OBVIOUS
  <1>3. <<4, r[6][2]>> \in Byte /\ <<8 + (r[12][1] % 4), r[12][2]>> \in Byte
    BY <1>1, <1>2, StampIsByte
  <1>4. Block(ord, <<r[1], r[2], r[3], r[4]>>) \in Word  BY <1>1, BlockIsWord
  <1>5. Block(ord, <<r[5], <<4, r[6][2]>>, r[7], r[8]>>) \in Word
    BY <1>1, <1>3, BlockIsWord
  <1>6. Block(ord, <<r[9], r[10], r[11], <<8 + (r[12][1] % 4), r[12][2]>> >>) \in Word
    BY <1>2, <1>3, BlockIsWord
  <1>7. Block(ord, <<r[13], r[14], r[15], r[16]>>) \in Word  BY <1>2, BlockIsWord
  <1> QED  BY <1>4, <1>5, <1>6, <1>7 DEF Make, Ids

-----------------------------------------------------------------------------
(***************************************************************************)
(* What is printed: where its dashes and its bytes are.                    *)
(***************************************************************************)

Char == Digit \cup {Dash}

\* r begins with the first n elements of s; r has t from behind place m.
Begins(r, s, n) == \A k \in 1..n : r[k] = s[k]
Has(r, m, t, n) == \A k \in 1..n : r[m + k] = t[k]

\* s is a text of n characters; r is t behind s.
Text(s, n) == s \in Seq(Char) /\ Len(s) = n
Joins(r, s, t) == r = s \o t

\* One text behind another.
LEMMA Joined ==
    ASSUME NEW r, NEW s, NEW t, NEW m \in Nat, NEW n \in Nat, NEW l, l = m + n,
           Text(s, m), Text(t, n), Joins(r, s, t)
    PROVE  Text(r, l) /\ Begins(r, s, m) /\ Has(r, m, t, n)
<1>1. s \in Seq(Char) /\ t \in Seq(Char) /\ Len(s) = m /\ Len(t) = n
  BY DEF Text
<1>2. /\ s \o t \in Seq(Char)
      /\ Len(s \o t) = Len(s) + Len(t)
      /\ \A i \in 1..Len(s) + Len(t) : (s \o t)[i] = IF i <= Len(s) THEN s[i] ELSE t[i - Len(s)]
  BY <1>1, ConcatProperties
<1>3. /\ r \in Seq(Char)
      /\ Len(r) = m + n
      /\ \A i \in 1..m + n : r[i] = IF i <= m THEN s[i] ELSE t[i - m]
  BY <1>1, <1>2, Zenon DEF Joins
<1>4. ASSUME NEW k \in 1..n PROVE r[m + k] = t[k]
  <2>1. m + k \in 1..m+n /\ ~(m + k <= m) /\ m + k - m = k
    OBVIOUS
  <2> QED BY <1>3, <2>1
<1>5. ASSUME NEW k \in 1..m PROVE r[k] = s[k]
  BY <1>3, <1>5
<1> QED BY <1>3, <1>4, <1>5 DEF Begins, Has, Text

\* What a part of a sequence begins with, and what it has, has the whole, too.
LEMMA BeginsKept ==
    ASSUME NEW r, NEW s, NEW t, NEW m \in Nat, NEW n \in Nat, n <= m,
           Begins(r, s, m), Begins(s, t, n)
    PROVE  Begins(r, t, n)
BY DEF Begins

\* What a part of a text has, the text has there too.
LEMMA HasKept ==
    ASSUME NEW r, NEW s, NEW t, NEW l \in Nat, NEW m \in Nat, NEW n \in Nat, m + n <= l,
           Begins(r, s, l), Has(s, m, t, n)
    PROVE  Has(r, m, t, n)
<1> SUFFICES ASSUME NEW k \in 1..n PROVE r[m + k] = t[k]
  BY DEF Has
<1>1. m + k \in 1..l
  OBVIOUS
<1> QED BY <1>1 DEF Begins, Has

\* A byte is its two digits.
LEMMA ByteDigits ==
    ASSUME NEW b \in Byte
    PROVE  Text(b, 2) /\ b[1] \in Digit /\ b[2] \in Digit /\ b = <<b[1], b[2]>>
<1>1. b[1] \in Digit /\ b[2] \in Digit /\ b = <<b[1], b[2]>>
  BY DEF Byte
<1>2. ASSUME NEW x \in Char, NEW y \in Char PROVE Text(<<x, y>>, 2)
  BY DEF Text
<1>3. b[1] \in Char /\ b[2] \in Char
  BY <1>1 DEF Char
<1>4. Text(<<b[1], b[2]>>, 2)
  BY <1>2, <1>3
<1>5. Text(b, 2)
  BY <1>1, <1>4, Zenon
<1> QED BY <1>1, <1>5

\* The byte b is printed at place p.
Shows(s, p, b) == s[p] = b[1] /\ s[p + 1] = b[2]

\* Two bytes, printed.
LEMMA HalfShows ==
    ASSUME NEW b \in Byte, NEW c \in Byte, NEW r, Joins(r, b, c)
    PROVE  Text(r, 4) /\ Shows(r, 1, b) /\ Shows(r, 3, c)
<1>1. /\ Text(b, 2)
      /\ Text(c, 2)
  BY ByteDigits
<1>2. Text(r, 4) /\ Begins(r, b, 2) /\ Has(r, 2, c, 2)
  <2>1. 4 = 2 + 2 /\ 2 \in Nat
    OBVIOUS
  <2> QED BY <1>1, <2>1, Joined, Zenon
<1>3. r[1] = b[1] /\ r[2] = b[2]
  BY <1>2 DEF Begins
<1>4. r[2 + 1] = c[1] /\ r[2 + 2] = c[2]
  BY <1>2 DEF Has
<1> QED BY <1>2, <1>3, <1>4 DEF Shows

\* What a part shows, shows the whole, further on.
LEMMA HasShows ==
    ASSUME NEW r, NEW t, NEW m \in Nat, NEW n \in Nat, Has(r, m, t, n), NEW b,
           NEW p \in 1..n, p + 1 <= n, Shows(t, p, b), NEW q, q = m + p
    PROVE  Shows(r, q, b)
<1>1. r[m + p] = t[p] /\ r[m + (p + 1)] = t[p + 1]
  BY DEF Has
<1>2. m + (p + 1) = q + 1
  OBVIOUS
<1> QED BY <1>1, <1>2 DEF Shows

\* A word, printed in parts or as a whole.
LEMMA WordShows ==
    ASSUME NEW w \in Word
    PROVE  /\ Text(High(w), 4)
           /\ Shows(High(w), 1, w[1]) /\ Shows(High(w), 3, w[2])
           /\ Text(Low(w), 4)
           /\ Shows(Low(w), 1, w[3]) /\ Shows(Low(w), 3, w[4])
           /\ Text(Both(w), 8)
           /\ Shows(Both(w), 1, w[1]) /\ Shows(Both(w), 3, w[2])
           /\ Shows(Both(w), 5, w[3]) /\ Shows(Both(w), 7, w[4])
<1>1. w[1] \in Byte /\ w[2] \in Byte /\ w[3] \in Byte /\ w[4] \in Byte
  BY DEF Word
<1>2. /\ Text(High(w), 4)
      /\ Shows(High(w), 1, w[1]) /\ Shows(High(w), 3, w[2])
  BY <1>1, HalfShows DEF High, Joins
<1>3. /\ Text(Low(w), 4)
      /\ Shows(Low(w), 1, w[3]) /\ Shows(Low(w), 3, w[4])
  BY <1>1, HalfShows DEF Low, Joins
<1>4. Joins(Both(w), High(w), Low(w))
  BY DEF Both, Joins
<1>5. /\ Text(Both(w), 8)
      /\ Begins(Both(w), High(w), 4) /\ Has(Both(w), 4, Low(w), 4)
  <2>1. 8 = 4 + 4 /\ 4 \in Nat
    OBVIOUS
  <2>2. Text(High(w), 4) /\ Text(Low(w), 4)
    BY <1>2, <1>3
  <2> DEFINE r == Both(w)
             s == High(w)
             t == Low(w)
  <2>3. Text(s, 4) /\ Text(t, 4) /\ Joins(r, s, t)
    BY <1>4, <2>2
  <2> HIDE DEF r, s, t
  <2>4. Text(r, 8) /\ Begins(r, s, 4) /\ Has(r, 4, t, 4)
    BY <2>1, <2>3, Joined, Zenon
  <2> QED BY <2>4 DEF r, s, t
<1>6. /\ Both(w)[1] = High(w)[1] /\ Both(w)[2] = High(w)[2]
      /\ Both(w)[3] = High(w)[3] /\ Both(w)[4] = High(w)[4]
  BY <1>5 DEF Begins
<1>7. /\ Both(w)[4 + 1] = Low(w)[1] /\ Both(w)[4 + 2] = Low(w)[2]
      /\ Both(w)[4 + 3] = Low(w)[3] /\ Both(w)[4 + 4] = Low(w)[4]
  BY <1>5 DEF Has
<1>8. /\ Shows(Both(w), 1, w[1]) /\ Shows(Both(w), 3, w[2])
      /\ Shows(Both(w), 5, w[3]) /\ Shows(Both(w), 7, w[4])
  BY <1>2, <1>3, <1>6, <1>7 DEF Shows
<1> QED BY <1>2, <1>3, <1>5, <1>8

\* A printed id, part by part.
LEMMA Parts ==
    ASSUME NEW u \in Ids
    PROVE  LET out == Output(u) IN
           /\ Text(out, 36)
           /\ out[9] = Dash /\ out[14] = Dash /\ out[19] = Dash /\ out[24] = Dash
           /\ Begins(out, Both(u[1]), 8)
           /\ Has(out, 9, High(u[2]), 4)
           /\ Has(out, 14, Low(u[2]), 4)
           /\ Has(out, 19, High(u[3]), 4)
           /\ Has(out, 24, Low(u[3]), 4)
           /\ Has(out, 28, Both(u[4]), 8)
<1> DEFINE a == Both(u[1])
           d == <<Dash>>
           s1 == a \o d
           s2 == s1 \o High(u[2])
           s3 == s2 \o d
           s4 == s3 \o Low(u[2])
           s5 == s4 \o d
           s6 == s5 \o High(u[3])
           s7 == s6 \o d
           s8 == s7 \o Low(u[3])
           s9 == s8 \o Both(u[4])
<1>1. u[1] \in Word /\ u[2] \in Word /\ u[3] \in Word /\ u[4] \in Word
  BY DEF Ids
<1>2. /\ Text(a, 8)
      /\ Text(High(u[2]), 4)
      /\ Text(Low(u[2]), 4)
      /\ Text(High(u[3]), 4)
      /\ Text(Low(u[3]), 4)
      /\ Text(Both(u[4]), 8)
  BY <1>1, WordShows
<1>3. Text(d, 1) /\ d[1] = Dash
  BY DEF Char, Text
<1>4. Output(u) = s9
  BY DEF Output
<1>6. /\ Joins(s1, a, d) /\ Joins(s2, s1, High(u[2])) /\ Joins(s3, s2, d)
      /\ Joins(s4, s3, Low(u[2])) /\ Joins(s5, s4, d) /\ Joins(s6, s5, High(u[3]))
      /\ Joins(s7, s6, d) /\ Joins(s8, s7, Low(u[3])) /\ Joins(s9, s8, Both(u[4]))
  BY DEF Joins
<1> HIDE DEF a, d, s1, s2, s3, s4, s5, s6, s7, s8, s9
<1>11. Text(s1, 9) /\ Begins(s1, a, 8) /\ Has(s1, 8, d, 1)
  <2>1. 9 = 8 + 1 /\ 8 \in Nat /\ 1 \in Nat
    OBVIOUS
  <2> QED BY <1>2, <1>3, <1>6, <2>1, Joined, Zenon
<1>12. Text(s2, 13) /\ Begins(s2, s1, 9) /\ Has(s2, 9, High(u[2]), 4)
  <2>1. 13 = 9 + 4 /\ 9 \in Nat /\ 4 \in Nat
    OBVIOUS
  <2> QED BY <1>2, <1>3, <1>6, <1>11, <2>1, Joined, Zenon
<1>13. Text(s3, 14) /\ Begins(s3, s2, 13) /\ Has(s3, 13, d, 1)
  <2>1. 14 = 13 + 1 /\ 13 \in Nat /\ 1 \in Nat
    OBVIOUS
  <2> QED BY <1>2, <1>3, <1>6, <1>12, <2>1, Joined, Zenon
<1>14. Text(s4, 18) /\ Begins(s4, s3, 14) /\ Has(s4, 14, Low(u[2]), 4)
  <2>1. 18 = 14 + 4 /\ 14 \in Nat /\ 4 \in Nat
    OBVIOUS
  <2> QED BY <1>2, <1>3, <1>6, <1>13, <2>1, Joined, Zenon
<1>15. Text(s5, 19) /\ Begins(s5, s4, 18) /\ Has(s5, 18, d, 1)
  <2>1. 19 = 18 + 1 /\ 18 \in Nat /\ 1 \in Nat
    OBVIOUS
  <2> QED BY <1>2, <1>3, <1>6, <1>14, <2>1, Joined, Zenon
<1>16. Text(s6, 23) /\ Begins(s6, s5, 19) /\ Has(s6, 19, High(u[3]), 4)
  <2>1. 23 = 19 + 4 /\ 19 \in Nat /\ 4 \in Nat
    OBVIOUS
  <2> QED BY <1>2, <1>3, <1>6, <1>15, <2>1, Joined, Zenon
<1>17. Text(s7, 24) /\ Begins(s7, s6, 23) /\ Has(s7, 23, d, 1)
  <2>1. 24 = 23 + 1 /\ 23 \in Nat /\ 1 \in Nat
    OBVIOUS
  <2> QED BY <1>2, <1>3, <1>6, <1>16, <2>1, Joined, Zenon
<1>18. Text(s8, 28) /\ Begins(s8, s7, 24) /\ Has(s8, 24, Low(u[3]), 4)
  <2>1. 28 = 24 + 4 /\ 24 \in Nat /\ 4 \in Nat
    OBVIOUS
  <2> QED BY <1>2, <1>3, <1>6, <1>17, <2>1, Joined, Zenon
<1>19. Text(s9, 36) /\ Begins(s9, s8, 28) /\ Has(s9, 28, Both(u[4]), 8)
  <2>1. 36 = 28 + 8 /\ 28 \in Nat /\ 8 \in Nat
    OBVIOUS
  <2> QED BY <1>2, <1>3, <1>6, <1>18, <2>1, Joined, Zenon
<1>28. Begins(s9, s8, 28)
  BY <1>19
<1>27. Begins(s9, s7, 24)
  BY <1>28, <1>18, BeginsKept
<1>26. Begins(s9, s6, 23)
  BY <1>27, <1>17, BeginsKept
<1>25. Begins(s9, s5, 19)
  BY <1>26, <1>16, BeginsKept
<1>24. Begins(s9, s4, 18)
  BY <1>25, <1>15, BeginsKept
<1>23. Begins(s9, s3, 14)
  BY <1>24, <1>14, BeginsKept
<1>22. Begins(s9, s2, 13)
  BY <1>23, <1>13, BeginsKept
<1>21. Begins(s9, s1, 9)
  BY <1>22, <1>12, BeginsKept
<1>20. Begins(s9, a, 8)
  BY <1>21, <1>11, BeginsKept
<1>32. Has(s9, 9, High(u[2]), 4)
  BY <1>12, <1>22, HasKept
<1>33. Has(s9, 14, Low(u[2]), 4)
  BY <1>14, <1>24, HasKept
<1>34. Has(s9, 19, High(u[3]), 4)
  BY <1>16, <1>26, HasKept
<1>35. Has(s9, 24, Low(u[3]), 4)
  BY <1>18, <1>28, HasKept
<1>36. Has(s9, 8, d, 1) /\ Has(s9, 13, d, 1) /\ Has(s9, 18, d, 1) /\ Has(s9, 23, d, 1)
  BY <1>11, <1>13, <1>15, <1>17, <1>21, <1>23, <1>25, <1>27, HasKept
<1>37. s9[8 + 1] = Dash /\ s9[13 + 1] = Dash /\ s9[18 + 1] = Dash /\ s9[23 + 1] = Dash
  BY <1>3, <1>36 DEF Has
<1>38. s9[9] = Dash /\ s9[14] = Dash /\ s9[19] = Dash /\ s9[24] = Dash
  BY <1>37
<1> QED BY <1>4, <1>19, <1>20, <1>32, <1>33, <1>34, <1>35, <1>38 DEF a

\* The k-th byte of an id, and its place in print.
ByteOf(u, k) == u[((k - 1) \div 4) + 1][((k - 1) % 4) + 1]
PrintedAt == <<1, 3, 5, 7, 10, 12, 15, 17, 20, 22, 25, 27, 29, 31, 33, 35>>

\* Each byte of an id is printed at its place.
LEMMA OutputShows ==
    ASSUME NEW u \in Ids, NEW k \in 1..16
    PROVE  Shows(Output(u), PrintedAt[k], ByteOf(u, k))
<1> DEFINE out == Output(u)
<1>1. u[1] \in Word /\ u[2] \in Word /\ u[3] \in Word /\ u[4] \in Word
  BY DEF Ids
<1>2. /\ Begins(out, Both(u[1]), 8)
      /\ Has(out, 9, High(u[2]), 4) /\ Has(out, 14, Low(u[2]), 4)
      /\ Has(out, 19, High(u[3]), 4) /\ Has(out, 24, Low(u[3]), 4)
      /\ Has(out, 28, Both(u[4]), 8)
  BY Parts
<1> HIDE DEF out
<1>3. /\ Shows(out, 1, u[1][1]) /\ Shows(out, 3, u[1][2])
      /\ Shows(out, 5, u[1][3]) /\ Shows(out, 7, u[1][4])
  <2>1. /\ Shows(Both(u[1]), 1, u[1][1]) /\ Shows(Both(u[1]), 3, u[1][2])
        /\ Shows(Both(u[1]), 5, u[1][3]) /\ Shows(Both(u[1]), 7, u[1][4])
    BY <1>1, WordShows
  <2> QED BY <1>2, <2>1 DEF Begins, Shows
<1>4. Shows(out, 10, u[2][1]) /\ Shows(out, 12, u[2][2])
  <2>1. Shows(High(u[2]), 1, u[2][1]) /\ Shows(High(u[2]), 3, u[2][2])
    BY <1>1, WordShows
  <2> QED BY <1>2, <2>1 DEF Has, Shows
<1>5. Shows(out, 15, u[2][3]) /\ Shows(out, 17, u[2][4])
  <2>1. Shows(Low(u[2]), 1, u[2][3]) /\ Shows(Low(u[2]), 3, u[2][4])
    BY <1>1, WordShows
  <2> QED BY <1>2, <2>1 DEF Has, Shows
<1>6. Shows(out, 20, u[3][1]) /\ Shows(out, 22, u[3][2])
  <2>1. Shows(High(u[3]), 1, u[3][1]) /\ Shows(High(u[3]), 3, u[3][2])
    BY <1>1, WordShows
  <2> QED BY <1>2, <2>1 DEF Has, Shows
<1>7. Shows(out, 25, u[3][3]) /\ Shows(out, 27, u[3][4])
  <2>1. Shows(Low(u[3]), 1, u[3][3]) /\ Shows(Low(u[3]), 3, u[3][4])
    BY <1>1, WordShows
  <2> QED BY <1>2, <2>1 DEF Has, Shows
<1>8. /\ Shows(out, 29, u[4][1]) /\ Shows(out, 31, u[4][2])
      /\ Shows(out, 33, u[4][3]) /\ Shows(out, 35, u[4][4])
  <2>1. /\ Shows(Both(u[4]), 1, u[4][1]) /\ Shows(Both(u[4]), 3, u[4][2])
        /\ Shows(Both(u[4]), 5, u[4][3]) /\ Shows(Both(u[4]), 7, u[4][4])
    BY <1>1, WordShows
  <2> QED BY <1>2, <2>1 DEF Has, Shows
<1> QED BY <1>3, <1>4, <1>5, <1>6, <1>7, <1>8 DEF ByteOf, PrintedAt, out

-----------------------------------------------------------------------------
(***************************************************************************)
(* Parsing, and parsing what was printed.                                  *)
(***************************************************************************)

\* A character that is one is in the text.
LEMMA CharIsThere ==
    ASSUME NEW text, NEW p, CharAt(text, p) \in Char
    PROVE  p \in DOMAIN text /\ text[p] = CharAt(text, p)
  BY DEF CharAt, Nul, Char, Digit, Dash

\* What read_byte returns.
LEMMA BytesAreBytes ==
    ASSUME NEW text, Parses(text), NEW k \in 1..16
    PROVE  /\ BytesOf(text)[k] = <<text[Places(text)[k]], text[Places(text)[k] + 1]>>
           /\ BytesOf(text)[k] \in Byte
  <1> DEFINE at == Places(text)
  <1>1. CharAt(text, at[k]) \in Digit /\ CharAt(text, at[k] + 1) \in Digit
    BY DEF Parses
  <1>2. BytesOf(text)[k] = <<text[at[k]], text[at[k] + 1]>>
    BY DEF BytesOf
  <1> HIDE DEF at
  <1>3. text[at[k]] \in Digit /\ text[at[k] + 1] \in Digit
    BY <1>1, CharIsThere DEF Char
  <1>4. <<text[at[k]], text[at[k] + 1]>> \in Byte
    BY <1>3 DEF Byte
  <1>5. BytesOf(text)[k] \in Byte
    BY <1>2, <1>4
  <1> QED
    BY <1>2, <1>5 DEF at

\* The four words of a parsed id.
LEMMA ParsedWords ==
    ASSUME NEW ord \in Orders, NEW text
    PROVE  LET b == BytesOf(text)
           IN  Parse(ord, text) = << Block(ord, <<b[4], b[3], b[2], b[1]>>),
                                     Block(ord, <<b[8], b[7], b[6], b[5]>>),
                                     Block(ord, <<b[12], b[11], b[10], b[9]>>),
                                     Block(ord, <<b[16], b[15], b[14], b[13]>>) >>
  <1> DEFINE b == BytesOf(text)
             word(w) == Block(ord, <<b[4*w], b[4*w-1], b[4*w-2], b[4*w-3]>>)
  <1>1. Parse(ord, text) = [w \in 1..4 |-> word(w)]
    BY DEF Parse
  <1> HIDE DEF b
  <1>2. /\ word(1) = Block(ord, <<b[4], b[3], b[2], b[1]>>)
        /\ word(2) = Block(ord, <<b[8], b[7], b[6], b[5]>>)
        /\ word(3) = Block(ord, <<b[12], b[11], b[10], b[9]>>)
        /\ word(4) = Block(ord, <<b[16], b[15], b[14], b[13]>>)
    OBVIOUS
  <1> HIDE DEF word
  <1>3. [w \in 1..4 |-> word(w)] = <<word(1), word(2), word(3), word(4)>>
    OBVIOUS
  <1> QED
    BY <1>1, <1>2, <1>3 DEF b

\* Uuid::parse returns an id for a text it accepts.
LEMMA ParseIsId ==
    ASSUME NEW ord \in Orders, NEW text, Parses(text)
    PROVE  Parse(ord, text) \in Ids
  <1> DEFINE b == BytesOf(text)
  <1>1. \A k \in 1..16 : b[k] \in Byte
    BY BytesAreBytes
  <1> HIDE DEF b
  <1>2. /\ Block(ord, <<b[4], b[3], b[2], b[1]>>) \in Word
        /\ Block(ord, <<b[8], b[7], b[6], b[5]>>) \in Word
        /\ Block(ord, <<b[12], b[11], b[10], b[9]>>) \in Word
        /\ Block(ord, <<b[16], b[15], b[14], b[13]>>) \in Word
    <2>1. /\ b[1] \in Byte /\ b[2] \in Byte /\ b[3] \in Byte /\ b[4] \in Byte
          /\ b[5] \in Byte /\ b[6] \in Byte /\ b[7] \in Byte /\ b[8] \in Byte
          /\ b[9] \in Byte /\ b[10] \in Byte /\ b[11] \in Byte /\ b[12] \in Byte
          /\ b[13] \in Byte /\ b[14] \in Byte /\ b[15] \in Byte /\ b[16] \in Byte
      BY <1>1
    <2> QED
      BY <2>1, BlockIsWord
  <1> QED
    BY <1>2, ParsedWords DEF Ids, b

\* On a little-endian machine the bytes of a parsed id are in the text's order.
LEMMA ParsedBytes ==
    ASSUME NEW text, Parses(text), NEW k \in 1..16
    PROVE  ByteOf(Parse("little", text), k) = BytesOf(text)[k]
  <1> DEFINE b == BytesOf(text)
  <1>1. Parse("little", text) = << <<b[1], b[2], b[3], b[4]>>, <<b[5], b[6], b[7], b[8]>>,
                                   <<b[9], b[10], b[11], b[12]>>, <<b[13], b[14], b[15], b[16]>> >>
    BY ParsedWords DEF Orders, Block
  <1> HIDE DEF b
  <1>2. \/ k = 1 \/ k = 2 \/ k = 3 \/ k = 4 \/ k = 5 \/ k = 6 \/ k = 7 \/ k = 8
        \/ k = 9 \/ k = 10 \/ k = 11 \/ k = 12 \/ k = 13 \/ k = 14 \/ k = 15 \/ k = 16
    OBVIOUS
  <1> QED
    BY <1>1, <1>2 DEF ByteOf, b

\* With all its dashes, a text is read where ids are printed.
LEMMA DashedPlaces ==
    ASSUME NEW text, Dashed(text)
    PROVE  Places(text) = PrintedAt
  <1>1. /\ CharAt(text, 9) = Dash /\ CharAt(text, 14) = Dash
        /\ CharAt(text, 19) = Dash /\ CharAt(text, 24) = Dash
    BY DEF Dashed
  <1> QED
    BY <1>1 DEF Places, PrintedAt

\* Uuid::parse accepts what operator<< prints, and reads the same bytes.
THEOREM PrintIsAccepted ==
    ASSUME NEW u \in Ids
    PROVE  /\ Dashed(Output(u)) /\ Parses(Output(u))
           /\ \A k \in 1..16 : BytesOf(Output(u))[k] = ByteOf(u, k)
  <1> DEFINE out == Output(u)
  <1>1. /\ Text(out, 36)
        /\ out[9] = Dash /\ out[14] = Dash /\ out[19] = Dash /\ out[24] = Dash
    BY Parts
  <1>2. \A k \in 1..16 : Shows(out, PrintedAt[k], ByteOf(u, k))
    BY OutputShows
  <1> HIDE DEF out
  <1>3. \A p \in 1..36 : CharAt(out, p) = out[p]
    <2>1. DOMAIN out = 1..36
      BY <1>1 DEF Text
    <2> QED
      BY <2>1 DEF CharAt
  <1>4. Dashed(out)
    BY <1>1, <1>3 DEF Dashed
  <1>5. Places(out) = PrintedAt
    BY <1>4, DashedPlaces
  <1>6. \A k \in 1..16 : PrintedAt[k] \in 1..36 /\ PrintedAt[k] + 1 \in 1..36
    BY DEF PrintedAt
  <1>7. \A k \in 1..16 : ByteOf(u, k) \in Byte
    <2> SUFFICES ASSUME NEW k \in 1..16  PROVE ByteOf(u, k) \in Byte
      OBVIOUS
    <2>1. /\ ((k - 1) \div 4) + 1 \in 1..4
          /\ ((k - 1) % 4) + 1 \in 1..4
      OBVIOUS
    <2>2. \A w \in 1..4 : u[w] \in Word
      BY DEF Ids
    <2>3. \A w \in 1..4, i \in 1..4 : u[w][i] \in Byte
      BY <2>2 DEF Word
    <2> QED
      BY <2>1, <2>3 DEF ByteOf
  <1>8. \A k \in 1..16 : /\ out[PrintedAt[k]] = ByteOf(u, k)[1]
                         /\ out[PrintedAt[k] + 1] = ByteOf(u, k)[2]
    BY <1>2 DEF Shows
  <1>9. Parses(out)
    <2> SUFFICES ASSUME NEW k \in 1..16
                 PROVE  CharAt(out, PrintedAt[k]) \in Digit /\ CharAt(out, PrintedAt[k] + 1) \in Digit
      BY <1>5 DEF Parses
    <2>1. ByteOf(u, k)[1] \in Digit /\ ByteOf(u, k)[2] \in Digit
      BY <1>7, ByteDigits
    <2> QED
      BY <1>3, <1>6, <1>8, <2>1
  <1>10. ASSUME NEW k \in 1..16  PROVE BytesOf(out)[k] = ByteOf(u, k)
    <2>1. BytesOf(out)[k] = <<out[PrintedAt[k]], out[PrintedAt[k] + 1]>>
      BY <1>5, <1>9, BytesAreBytes
    <2>2. ByteOf(u, k) = <<ByteOf(u, k)[1], ByteOf(u, k)[2]>>
      BY <1>7, ByteDigits
    <2> QED
      BY <1>8, <2>1, <2>2
  <1> QED
    BY <1>4, <1>9, <1>10 DEF out

\* On a little-endian machine a printed id parses to that id.
THEOREM RoundTrip ==
    ASSUME NEW u \in Ids
    PROVE  Parses(Output(u)) /\ Parse("little", Output(u)) = u
  <1> DEFINE b == BytesOf(Output(u))
  <1>1. Parses(Output(u)) /\ \A k \in 1..16 : b[k] = ByteOf(u, k)
    BY PrintIsAccepted
  <1>2. Parse("little", Output(u)) =
            << <<b[1], b[2], b[3], b[4]>>, <<b[5], b[6], b[7], b[8]>>,
               <<b[9], b[10], b[11], b[12]>>, <<b[13], b[14], b[15], b[16]>> >>
    BY ParsedWords DEF Orders, Block
  <1> HIDE DEF b
  <1>3. /\ b[1] = u[1][1] /\ b[2] = u[1][2] /\ b[3] = u[1][3] /\ b[4] = u[1][4]
        /\ b[5] = u[2][1] /\ b[6] = u[2][2] /\ b[7] = u[2][3] /\ b[8] = u[2][4]
        /\ b[9] = u[3][1] /\ b[10] = u[3][2] /\ b[11] = u[3][3] /\ b[12] = u[3][4]
        /\ b[13] = u[4][1] /\ b[14] = u[4][2] /\ b[15] = u[4][3] /\ b[16] = u[4][4]
    BY <1>1 DEF ByteOf
  <1>4. \A w \in 1..4 : u[w] = <<u[w][1], u[w][2], u[w][3], u[w][4]>>
    <2>1. \A x \in Word : x = <<x[1], x[2], x[3], x[4]>>
      BY DEF Word
    <2>2. \A w \in 1..4 : u[w] \in Word
      BY DEF Ids
    <2> QED
      BY <2>1, <2>2
  <1>5. u = <<u[1], u[2], u[3], u[4]>>
    BY DEF Ids
  <1> QED
    BY <1>1, <1>2, <1>3, <1>4, <1>5

\* On a little-endian machine the id parsed from a text prints as the bytes of
\* the text, and as its first 36 characters if the text has its dashes.
THEOREM ParsePrintsBack ==
    ASSUME NEW text, Parses(text)
    PROVE  LET out == Output(Parse("little", text)) IN
           /\ BytesOf(out) = BytesOf(text)
           /\ Dashed(text) => \A p \in 1..36 : out[p] = text[p]
  <1> DEFINE u == Parse("little", text)
             out == Output(u)
  <1>1. u \in Ids
    BY ParseIsId DEF Orders
  <1>2. \A k \in 1..16 : ByteOf(u, k) = BytesOf(text)[k]
    BY ParsedBytes
  <1> HIDE DEF u
  <1>3. /\ Dashed(out) /\ Parses(out)
        /\ \A k \in 1..16 : BytesOf(out)[k] = ByteOf(u, k)
    BY <1>1, PrintIsAccepted
  <1> HIDE DEF out
  <1>4. \A k \in 1..16 : BytesOf(out)[k] = BytesOf(text)[k]
    BY <1>2, <1>3
  <1>5. BytesOf(out) = BytesOf(text)
    BY <1>4 DEF BytesOf
  <1>6. ASSUME Dashed(text), NEW p \in 1..36  PROVE out[p] = text[p]
    <2>1. Places(text) = PrintedAt /\ Places(out) = PrintedAt
      BY <1>3, <1>6, DashedPlaces
    <2>2. \A q \in {9, 14, 19, 24} : out[q] = Dash /\ text[q] = Dash
      BY <1>3, <1>6, CharIsThere DEF Dashed, Char
    <2>3. ASSUME NEW k \in 1..16
          PROVE  /\ out[PrintedAt[k]] = text[PrintedAt[k]]
                 /\ out[PrintedAt[k] + 1] = text[PrintedAt[k] + 1]
      <3>1. /\ BytesOf(out)[k] = <<out[PrintedAt[k]], out[PrintedAt[k] + 1]>>
            /\ BytesOf(text)[k] = <<text[PrintedAt[k]], text[PrintedAt[k] + 1]>>
        BY <1>3, <2>1, BytesAreBytes
      <3> QED
        BY <1>4, <3>1
    <2>4. p \in {9, 14, 19, 24} \/ \E k \in 1..16 : p = PrintedAt[k] \/ p = PrintedAt[k] + 1
      BY DEF PrintedAt
    <2> QED
      BY <2>2, <2>3, <2>4
  <1> QED
    BY <1>5, <1>6 DEF out, u

\* On a little-endian machine an id made at random prints as version 4.
THEOREM MadeIsVersion4 ==
    ASSUME NEW r, \A k \in 1..16 : r[k] \in Byte
    PROVE  LET out == Output(Make("little", r))
           IN  out[15] = 4 /\ out[20] \in 8..11
  <1> DEFINE u == Make("little", r)
             out == Output(u)
  <1>1. u \in Ids
    BY MakeIsId DEF Orders
  <1>2. u[2][3] = <<4, r[6][2]>> /\ u[3][1] = <<8 + (r[12][1] % 4), r[12][2]>>
    BY DEF Make, Block
  <1>3. r[12][1] % 4 \in 0..3
    <2>1. r[12] \in Byte
      OBVIOUS
    <2>2. r[12][1] \in Digit
      BY <2>1, ByteDigits
    <2> QED
      BY <2>2 DEF Digit
  <1> HIDE DEF u
  <1>4. Shows(out, PrintedAt[7], ByteOf(u, 7)) /\ Shows(out, PrintedAt[9], ByteOf(u, 9))
    BY <1>1, OutputShows
  <1>5. PrintedAt[7] = 15 /\ PrintedAt[9] = 20 /\ ByteOf(u, 7) = u[2][3] /\ ByteOf(u, 9) = u[3][1]
    BY DEF PrintedAt, ByteOf
  <1> HIDE DEF out
  <1>6. out[15] = u[2][3][1] /\ out[20] = u[3][1][1]
    BY <1>4, <1>5 DEF Shows
  <1> QED
    BY <1>2, <1>3, <1>6 DEF out, u
=============================================================================
