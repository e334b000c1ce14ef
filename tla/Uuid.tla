-------------------------------- MODULE Uuid --------------------------------
(***************************************************************************)
(* class Uuid (uuid.cc): four 32-bit words, made at random or parsed from  *)
(* text, and printed.  Nothing compares ids.                               *)
(*                                                                         *)
(* A byte is the pair of its hexadecimal digits, and a word the tuple of   *)
(* its bytes, most significant first.  A character is a digit 0..15, the   *)
(* dash or, for every other one, Other; the case of letters is left out.   *)
(***************************************************************************)
EXTENDS Integers, Sequences

Orders == {"little", "big"}  \* the byte orders of machines

Digit == 0..15
Dash == 16
Other == 17
Nul == 18  \* what ends a C string

Byte == Digit \X Digit
Word == Byte \X Byte \X Byte \X Byte
Ids == Word \X Word \X Word \X Word

\* The word that union block reads from the bytes b[0], ..., b[3].
Block(order, b) == IF order = "little" THEN <<b[4], b[3], b[2], b[1]>> ELSE b

\* A defect for the mutation check: the variant is added to what is there.
MakeCarries(order, r) ==
    << Block(order, <<r[1], r[2], r[3], r[4]>>),
       Block(order, <<r[5], <<4, r[6][2]>>, r[7], r[8]>>),
       Block(order, <<r[9], r[10], r[11], <<8 + r[12][1], r[12][2]>> >>),
       Block(order, <<r[13], r[14], r[15], r[16]>>) >>

\* A defect for the mutation check: the variant is forgotten.
MakeVariant8(order, r) ==
    << Block(order, <<r[1], r[2], r[3], r[4]>>),
       Block(order, <<r[5], <<4, r[6][2]>>, r[7], r[8]>>),
       Block(order, <<r[9], r[10], r[11], r[12]>>),
       Block(order, <<r[13], r[14], r[15], r[16]>>) >>

\* Uuid::make, from 16 random bytes: the version goes to the second block's
\* b[1] and the variant to the third block's b[3].
Make(order, r) ==
    << Block(order, <<r[1], r[2], r[3], r[4]>>),
       Block(order, <<r[5], <<4, r[6][2]>>, r[7], r[8]>>),
       Block(order, <<r[9], r[10], r[11], <<8 + (r[12][1] % 4), r[12][2]>> >>),
       Block(order, <<r[13], r[14], r[15], r[16]>>) >>

CharAt(text, p) == IF p \in DOMAIN text THEN text[p] ELSE Nul

\* Where Uuid::parse reads its bytes: a dash is skipped, where there is one,
\* behind the 4th, 6th, 8th and 10th.
Places(text) ==
    LET skip(p) == IF CharAt(text, p) = Dash THEN p + 1 ELSE p
        a == skip(9)
        b == skip(a + 4)
        c == skip(b + 4)
        d == skip(c + 4)
    IN  <<1, 3, 5, 7, a, a + 2, b, b + 2, c, c + 2,
          d, d + 2, d + 4, d + 6, d + 8, d + 10>>

\* Where the dashes are in the first example above Uuid::parse.
Dashed(text) == \A p \in {9, 14, 19, 24} : CharAt(text, p) = Dash

\* read_byte throws unless there are two digits.  What follows the 16th byte
\* is not looked at.
Parses(text) ==
    LET at == Places(text)
    IN  \A k \in 1..16 : CharAt(text, at[k]) \in Digit /\ CharAt(text, at[k] + 1) \in Digit

\* The bytes read_byte returns for a text that parses.
BytesOf(text) ==
    LET at == Places(text)
    IN  [k \in 1..16 |-> <<text[at[k]], text[at[k] + 1]>>]

\* A defect for the mutation check: the blocks are filled from b[0] up.
ParseUpwards(order, text) ==
    LET b == BytesOf(text)
    IN  [w \in 1..4 |-> Block(order, <<b[4*w-3], b[4*w-2], b[4*w-1], b[4*w]>>)]

\* Uuid::parse of a text it accepts: each block is filled from b[3] down.
Parse(order, text) ==
    LET b == BytesOf(text)
    IN  [w \in 1..4 |-> Block(order, <<b[4*w], b[4*w-1], b[4*w-2], b[4*w-3]>>)]

\* A word as operator<< prints it: the upper half, the lower, or both.
High(w) == w[1] \o w[2]
Low(w) == w[3] \o w[4]
Both(w) == High(w) \o Low(w)

\* operator<<: eight digits, three groups of four, and twelve more.
Output(u) ==
    Both(u[1]) \o <<Dash>> \o High(u[2]) \o <<Dash>> \o Low(u[2]) \o <<Dash>> \o
    High(u[3]) \o <<Dash>> \o Low(u[3]) \o Both(u[4])
=============================================================================
