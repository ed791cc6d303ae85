----------------------------- MODULE MCSession -----------------------------
(***************************************************************************)
(* Instances of Session for TLC: two interfaces (and junk, what a name     *)
(* that is not UTF-8 is turned into), a description and one that is too    *)
(* long, a header of two cells and payloads of up to two.                  *)
(***************************************************************************)
EXTENDS Session

CONSTANTS eth0, eth1, junk, d, long

MCInitialIfs == <<eth0, eth1>>
MCOneIf == <<eth0>>

=============================================================================
