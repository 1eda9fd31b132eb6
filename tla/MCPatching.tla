----------------------------- MODULE MCPatching -----------------------------
(* Patching on a small instance: requests and httpx built in, one more       *)
(* client a program registers, and one whose import fails.                   *)
EXTENDS Patching

CONSTANTS requests, httpx, extra, failing

Says(unset, named, auto) == [off |-> FALSE, unset |-> unset, named |-> named, auto |-> auto]
Off == [off |-> TRUE, unset |-> FALSE, named |-> {}, auto |-> {}]

NoSetting == {Says(TRUE, {}, {})}
OffOrAuto == {Off, Says(FALSE, {extra}, {httpx})}
OffOnly == {Off}

Symmetry == Permutations(Thread)
=============================================================================
