----------------------------- MODULE MCLdtIoctl -----------------------------
(* ldt_ioctl for TLC: processes and bytes are model values. *)
EXTENDS LdtIoctl

CONSTANTS w1, w2, r1, r2, b0, b1
=============================================================================
