-------------------------- MODULE CredentialStore --------------------------
(***************************************************************************)
(* The file of the model providers' credentials.  Every change reads the   *)
(* whole file and later replaces it by a rename: nobody sees half a file,  *)
(* and whoever writes last wins.                                           *)
(*                                                                         *)
(* Of the record of the ChatGPT account only the tokens matter here: pairs *)
(* of an access and a refresh token are numbered as they are issued, and a *)
(* record names the pair each of its two tokens is from.                   *)
(***************************************************************************)
EXTENDS Naturals

CONSTANTS
  Writer,   \* whoever changes the file
  MaxPairs  \* bound on the token pairs issued

ASSUME StoreAssumption == MaxPairs \in Nat \ {0}

Pair == 0 .. MaxPairs
Record == [acc : Pair, ref : Pair]
Absent == [acc |-> 0, ref |-> 0]

VARIABLES
  file,    \* the record of the account
  base,    \* writer -> the record it loaded
  crossed  \* history: refresh tokens written back over a later change

storeVars == <<file, base, crossed>>

StoreTypeOK ==
  /\ file \in Record
  /\ base \in [Writer -> Record]
  /\ crossed \subseteq Pair

StoreInit == file \in {Absent, [acc |-> 1, ref |-> 1]} /\ base = [w \in Writer |-> Absent]
             /\ crossed = {}

(* Change is what upsert(), setDefaultModel() and remove() make of the     *)
(* record: new tokens, a new access token beside the refresh token there   *)
(* was, nothing - a change of the model or of another provider's           *)
(* credential - or no record.                                              *)
Change == {"pair", "access", "keep", "remove"}

Changed(r, change, n) ==
  CASE change = "pair" -> [acc |-> n, ref |-> n]
    [] change = "access" -> [r EXCEPT !.acc = n]
    [] change = "keep" -> r
    [] change = "remove" -> Absent

Load(w) == base' = [base EXCEPT ![w] = file] /\ UNCHANGED <<file, crossed>>

Save(w, change, n) ==
  /\ file' = Changed(base[w], change, n)
  /\ crossed' = IF change # "pair" /\ base[w] # file
                THEN crossed \cup {base[w].ref} ELSE crossed
  /\ base' = [base EXCEPT ![w] = Absent]
=============================================================================
