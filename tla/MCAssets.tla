------------------------------- MODULE MCAssets -------------------------------
(* A small instance of Assets for TLC.                                     *)
EXTENDS AssetInvariant

\* The body relinks, relabels, or does neither (a new name).
MCPatches == {[account |-> x, currency |-> c] :
                x \in Accounts \union {None}, c \in {None, CHOOSE c \in Currencies : TRUE}}
===============================================================================
