------------------------------- MODULE Frame -------------------------------
(***************************************************************************)
(* The stack frame of a function under translation (the jmir_frame functions*)
(* of jmir.c): objects are laid out upwards from the stack pointer, the      *)
(* room the calls of the function need for their arguments lies below all   *)
(* of them and is made as calls are met, by moving every object up.         *)
(***************************************************************************)
EXTENDS Integers, Sequences

RoundUp(n, a) == ((n + a - 1) \div a) * a

EmptyFrame == [objs |-> <<>>, size |-> 0, args |-> 0]

\* jmir_frameAllocObj: the next object starts at the next multiple of its alignment.
FrameAlloc(fr, sz, al) ==
    LET d == RoundUp(fr.size, al)
    IN  [fr EXCEPT !.objs = Append(@, [d |-> d, sz |-> sz, al |-> al]),
                   !.size = d + sz]

MakeRoom_KeepsObjects(fr, n) ==
    LET need == IF n > 4 THEN n ELSE 4
    IN  [fr EXCEPT !.size = @ + (need - fr.args) * 8, !.args = need]
\* jmir_frameMakeRoomForCall: at least the four slots of the register arguments.
MakeRoom(fr, n) ==
    LET need  == IF n > 4 THEN n ELSE 4
        delta == (need - fr.args) * 8
    IN  IF need <= fr.args THEN fr
        ELSE [objs |-> [i \in DOMAIN fr.objs |-> [fr.objs[i] EXCEPT !.d = @ + delta]],
              size |-> fr.size + delta, args |-> need]

\* jmir_frameFinalize
FrameFinalize(fr) == [fr EXCEPT !.size = RoundUp(@, 16)]

FrameDisjoint(fr) ==
    \A i, j \in DOMAIN fr.objs :
        i < j => fr.objs[i].d + fr.objs[i].sz <= fr.objs[j].d

FrameBounded(fr) ==
    \A i \in DOMAIN fr.objs :
        fr.args * 8 <= fr.objs[i].d /\ fr.objs[i].d + fr.objs[i].sz <= fr.size
=============================================================================
