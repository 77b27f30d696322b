----------------------------- MODULE MCSingleUse -----------------------------
(***************************************************************************)
(* Three requests, two codes and two wallets: two requests can meet on the *)
(* code, on the wallet, on both, or on one each with a third in between.   *)
(***************************************************************************)
EXTENDS SingleUse

CONSTANTS r1, r2, r3, c1, c2, w1, w2

MCRequests == {r1, r2, r3}
MCCodes == {c1, c2}
MCWallets == {w1, w2}
MCTargets == {<<c1, w1>>, <<c1, w2>>, <<c2, w2>>, <<NoCode, w1>>}

=============================================================================
