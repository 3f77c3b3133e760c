-------------------------------- MODULE MCOtp --------------------------------
(* One target is enough: no operation reads or writes the row of another. *)
EXTENDS Otp, TLC

CONSTANTS p1, p2, t1, c1, c2

MCProcs == {p1, p2}
MCTargets == {t1}
MCCodes == {c1, c2}
MCFaults == {"crash"}
=============================================================================
