--------------------------- MODULE MCModelAccess ---------------------------
(***************************************************************************)
(* Two sessions of the ChatGPT account side by side; one with two calls,   *)
(* and one with a choice of providers, beside a request of the owner; two  *)
(* overlapping logins; a login beside a session.  The configuration gives  *)
(* a role one provider (provider-routing.ts); the longer chain is what     *)
(* assign() admits.                                                        *)
(***************************************************************************)
EXTENDS ModelAccess

CONSTANTS s1, s2, s3, c1, c2, c3, c4, o1, k1, k2

sessionOf == [c \in {c1, c2, c3, c4} |-> CASE c = c3 -> s2 [] c = c4 -> s3 [] OTHER -> s1]
chains == [s \in {s1, s2, s3} |->
            IF s = s3 THEN {<<"codex">>, <<"openai">>, <<"codex", "openai", "local">>}
            ELSE {<<"codex">>}]
casts == {{s1, s2, c1, c3}, {s1, c1, c2, o1}, {s3, c4, o1}, {k1, k2, 1, 2}, {s1, c1, k1, 1}}
writers == {s1, s2, s3, o1, k1, k2}
=============================================================================
