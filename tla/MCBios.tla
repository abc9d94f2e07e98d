------------------------------- MODULE MCBios -------------------------------
(* Events of the vertical blank with and without a handler, one that the   *)
(* program delivers, and the ends of what a card does                      *)
EXTENDS Bios
TwoSlots == 1 .. 2
Of(c, m) == [class |-> c, mode |-> m]
AllKinds == {Of("vbl", "call"), Of("vbl", "mark"), Of("own", "call"), Of("card4", "mark"), Of("hw4", "mark")}
Table(a, b) == <<Enabled(a), Enabled(b)>>
Tables == {Table(Of("vbl", "call"), Of("vbl", "call")),
           Table(Of("own", "call"), Of("vbl", "call")), Table(Of("card4", "mark"), Of("hw4", "mark"))}
=============================================================================
