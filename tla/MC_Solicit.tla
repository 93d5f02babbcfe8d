----------------------------- MODULE MC_Solicit -----------------------------
(* One config name through two interface objects.                          *)
EXTENDS Solicit

CONSTANTS o1, o2, t1, t2

Objs == {o1, o2}
Pair == {t1, t2}
=============================================================================
