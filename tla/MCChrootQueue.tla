--------------------------- MODULE MCChrootQueue ---------------------------
(* Three commands for two troves on a node with a limit of two chroots, in    *)
(* scenarios of a few participants each.                                      *)
EXTENDS ChrootQueue, TLC

CONSTANTS c1, c2, c3, a, b, s1, d1, a1, l1

MCNameOf == (c1 :> a) @@ (c2 :> a) @@ (c3 :> b)

MCCasts == {{c1, c2, c3}, {c1, c2, s1}, {c1, c2, d1}, {c1, a1, l1}, {c2, s1, d1}}

\* None, less than the limit or as many; and in one scenario more.
MCLeft ==
    [k \in MCCasts |-> IF k = {c2, s1, d1} THEN {{}, {<<a, 1>>, <<b, 0>>, <<b, 1>>}}
                        ELSE {{}, {<<a, 0>>}, {<<a, 1>>, <<b, 0>>}}]
=============================================================================
