----------------------------- MODULE MCGpuAsync -----------------------------
(* Instances of GpuAsync for TLC: a ring of a few words, vram of two or    *)
(* three tiles, and lists that mix the kinds of command.                   *)
EXTENDS GpuAsync

CONSTANTS t1, t2, t3

Draw(shape) == Cmd("draw", {}, shape, 0)
Fill(r) == Cmd("fill", r, 0, 0)
Copy(r) == Cmd("copy", r, 0, 0)
Dma(r, s, h) == Cmd("dma", r, s, h)

NoCmds == {}
T1T2 == {{t1}, {t2}}
OnlyT1 == {{t1}}
OnlyT2 == {{t2}}

(* areas that change and that repeat, drawings, and a copy of a region     *)
(* onto itself, which is dropped while there is room                       *)
MixedLists == {<<Env({t2}), Fill({t1}), Draw(1)>>, <<Copy({}), Env({t1}), Tex>>}
SmallLists == {<<Env({t2}), Draw(1)>>}
FrameLists == {<<Fill({t1}), Draw(1)>>}
FillLists == {<<Env({t1}), Draw(1)>>, <<Env({t3}), Fill({t2})>>}
OneFill == {<<Fill({t2})>>, <<Env({t1}), Draw(1)>>}
OnlyT3 == {{t3}}
OneLine == {Dma({t2}, 2, 1)}
ThinDmas == {Dma({t2}, 1, 2)}
WideDmas == {Dma({t2}, 2, 2)}
=============================================================================
