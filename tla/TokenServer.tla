----------------------------- MODULE TokenServer -----------------------------
(***************************************************************************)
(* What BureauOS relies on of OpenAI's authorization server: it issues     *)
(* pairs of an access and a refresh token, numbered here in their order,   *)
(* takes a refresh token once, in exchange for a new pair, and lets access *)
(* tokens expire.                                                          *)
(***************************************************************************)
EXTENDS Naturals

CONSTANT MaxIssued  \* bound on the pairs issued

VARIABLES
  issued,  \* how many pairs there are
  live,    \* the refresh tokens that have not been exchanged
  expired  \* the access tokens whose time is over

tokenVars == <<issued, live, expired>>

TokenTypeOK ==
  /\ issued \in 0 .. MaxIssued
  /\ live \subseteq 1 .. issued /\ expired \subseteq 1 .. issued

TokenInit == issued = 1 /\ live = {1} /\ expired = {}

NewPair == issued + 1

Issue ==
  /\ issued < MaxIssued
  /\ issued' = NewPair /\ live' = live \cup {NewPair}
  /\ UNCHANGED expired

Rotate(t) ==
  /\ t \in live /\ issued < MaxIssued
  /\ issued' = NewPair /\ live' = (live \ {t}) \cup {NewPair}
  /\ UNCHANGED expired
=============================================================================
