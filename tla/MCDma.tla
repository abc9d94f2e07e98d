------------------------------- MODULE MCDma --------------------------------
(* Instances of Dma for TLC: a list of three blocks of three units,        *)
(* which are taken two or four units at a time, and a display list.        *)
EXTENDS Dma

SmallLens == [n \in Chan |-> CASE n = 0 -> {3} [] n = 1 -> {2, 4} [] n = 2 -> {2} [] n \in {4, 6} -> {1}]
AllOrNone == {{}, Chan}
ButOut == {Chan, Chan \ {1}}
=============================================================================
