------------------------------- MODULE MCMesh -------------------------------
\* Model checking of Mesh: two servers, of the same or of different byte order.
\* One id is that of server.cc, written with dashes, without, and with some of them
\* and something behind; another differs from it in the last word only; two are
\* made at random.
EXTENDS Mesh

Plain(tail) == <<14,12,11,13, 6,3,15,4, 2,1,2,5, 4,8,12,7, 11,14,11,13, 0,11,11,9, 5,13,12,9>> \o tail
InGroups(t) == SubSeq(t, 1, 8) \o <<Dash>> \o SubSeq(t, 9, 12) \o <<Dash>> \o SubSeq(t, 13, 16)
               \o <<Dash>> \o SubSeq(t, 17, 20) \o <<Dash>> \o SubSeq(t, 21, 32)
Uneven(t) == SubSeq(t, 1, 12) \o <<Dash>> \o SubSeq(t, 13, 32) \o <<Other, 0>>

MCTexts == { InGroups(Plain(<<8,2,13,13>>)), Plain(<<8,2,13,13>>), Uneven(Plain(<<8,2,13,13>>)),
             InGroups(Plain(<<8,2,13,14>>)) }
MCRandoms == {[k \in 1..16 |-> <<k - 1, 16 - k>>], [k \in 1..16 |-> <<16 - k, k - 1>>]}

Odd == LET w == << <<1,1>>, <<2,2>>, <<3,3>>, <<4,4>> >> IN <<w, w, w, << <<5,5>>, <<6,6>>, <<7,7>>, <<8,8>> >> >>

\* Too short, of another version, and a frame.
MCForeign == { [size |-> 27, version |-> 1, words |-> Odd],
               [size |-> 28, version |-> 2, words |-> Odd],
               [size |-> 28, version |-> 1, words |-> <<Odd[4], Odd[1], Odd[2], Odd[4]>>] }
=============================================================================
