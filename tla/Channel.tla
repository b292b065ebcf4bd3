------------------------------ MODULE Channel ------------------------------
(***************************************************************************)
(* What the tunnels promise to a receiver, each in one direction: the      *)
(* packets come in the order they were sent, numbered on by one from the    *)
(* first, none is left out and none comes twice.  Only a channel that is    *)
(* cut loses any, and then the last ones; nothing is sent through it any    *)
(* more.                                                                   *)
(*                                                                         *)
(* There are no checks here: whatever is first on the way is received.      *)
(***************************************************************************)
EXTENDS Integers, Sequences

CONSTANTS
    Chan,   \* the channels
    Start   \* first numbers

VARIABLES
    way,    \* numbers of the packets on their way
    cut,    \* the channel is cut
    end,    \* the receiver: "new", "open" or "over"
    got     \* the number it received last

vars == <<way, cut, end, got>>

\* The number of the last packet sent.
Sent(c) == IF way[c] # <<>> THEN way[c][Len(way[c])] ELSE got[c]

Still(c) == cut'[c] = cut[c] /\ end'[c] = end[c] /\ got'[c] = got[c] /\ way'[c] = way[c]

Send(c, k) ==
    /\ ~cut[c] /\ ~cut'[c]
    /\ way'[c] = Append(way[c], k)
    /\ end'[c] = end[c] /\ got'[c] = got[c]

SendFirst(c) ==
    /\ end[c] = "new" /\ way[c] = <<>>
    /\ \E k \in Start : Send(c, k)

SendNext(c) ==
    /\ end[c] = "open" \/ way[c] # <<>>
    /\ Send(c, Sent(c) + 1)

Receive(c) ==
    /\ way[c] # <<>>
    /\ got'[c] = Head(way[c])
    /\ way'[c] = Tail(way[c])
    /\ end[c] # "over" /\ end'[c] = "open"
    /\ cut'[c] = cut[c]

Break(c) ==
    /\ cut'[c]
    /\ way'[c] = way[c] /\ end'[c] = end[c] /\ got'[c] = got[c]

Lose(c) ==
    /\ cut[c] /\ cut'[c]
    /\ way[c] # <<>>
    /\ way'[c] = SubSeq(way[c], 1, Len(way[c]) - 1)
    /\ end'[c] = end[c] /\ got'[c] = got[c]

\* The receiver stops; the channel is cut with it if it was not before.
End(c) ==
    /\ end'[c] = "over"
    /\ way'[c] = <<>>
    /\ got'[c] = 0
    /\ cut'[c]

Init ==
    /\ way = [c \in Chan |-> <<>>]
    /\ cut = [c \in Chan |-> FALSE]
    /\ end = [c \in Chan |-> "new"]
    /\ got = [c \in Chan |-> 0]

Step(c) == SendFirst(c) \/ SendNext(c) \/ Receive(c) \/ Break(c) \/ Lose(c) \/ End(c)

\* Several may take a step at once, as when the server dies.
Next == \A c \in Chan : Still(c) \/ Step(c)

Spec == Init /\ [][Next]_vars
=============================================================================
