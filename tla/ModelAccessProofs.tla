------------------------- MODULE ModelAccessProofs -------------------------
(***************************************************************************)
(* TypeOK, CredentialSurvives and RedirectIsServed for any number of       *)
(* sessions, calls, requests, logins and faults, and any chains of         *)
(* providers.                                                              *)
(*                                                                         *)
(* The redirect: as long as no two authorizations were opened at a time,   *)
(* one that is being opened has the port to itself and none is pending,    *)
(* and one that is pending has the port (PortHeld).                        *)
(*                                                                         *)
(* The credential: a refresh token nobody but its receiver has seen yet -  *)
(* a session before it stores it, a request of the owner, a login - is     *)
(* live, in no other place and different from every other such token       *)
(* (Secrets).  So nobody can exchange it before it is on file, and what    *)
(* else gets written to the file is what was there.                        *)
(***************************************************************************)
EXTENDS ModelAccess, TLAPS, WellFoundedInduction

-----------------------------------------------------------------------------
(* Who has a refresh token nobody else has seen: it was received, and is   *)
(* not on file yet.                                                        *)
Received(s) == ad[s].pc \in {"replied", "store"}
Bears(o) == own[o].pc = "store" /\ own[o].change = "pair"
Redeemed(k) == comp[k].pc = "store"

(* t is live and neither on file nor in anybody's reading of it.           *)
Unseen(t) ==
  /\ t \in live /\ t > 1 /\ file.ref # t
  /\ \A w \in Writer : base[w].ref # t
  /\ \A s \in Session : ad[s].shown # t

Secrets ==
  /\ \A s \in Session : Received(s) =>
       /\ Unseen(ad[s].got)
       /\ \A r \in Session \ {s} :
            ad[r].ref # ad[s].got /\ (Received(r) => ad[r].got # ad[s].got)
       /\ \A o \in Owner : Bears(o) => own[o].n # ad[s].got
       /\ \A k \in Completer : Redeemed(k) => comp[k].got # ad[s].got
  /\ \A o \in Owner : Bears(o) =>
       /\ Unseen(own[o].n)
       /\ \A s \in Session : ad[s].ref # own[o].n
       /\ \A r \in Owner \ {o} : Bears(r) => own[r].n # own[o].n
       /\ \A k \in Completer : Redeemed(k) => comp[k].got # own[o].n
  /\ \A k \in Completer : Redeemed(k) =>
       /\ Unseen(comp[k].got)
       /\ \A s \in Session : ad[s].ref # comp[k].got
       /\ \A r \in Completer \ {k} : Redeemed(r) => comp[r].got # comp[k].got

(* Every token there is was issued.                                        *)
Issued ==
  /\ issued > 0
  /\ file.ref <= issued
  /\ \A w \in Writer : base[w].ref <= issued
  /\ \A s \in Session : ad[s].ref <= issued /\ ad[s].shown <= issued /\ ad[s].got <= issued
  /\ \A o \in Owner : own[o].n <= issued
  /\ \A k \in Completer : comp[k].got <= issued

PortHeld ==
  ~clashed =>
    /\ \A i \in Login : login[i].pc = "binding" => pending = NoLogin /\ port = i
    /\ port # NoLogin => port = pending \/ login[port].pc = "binding"
    /\ pending # NoLogin => port = pending

-----------------------------------------------------------------------------
(* Which provider is chosen: one of the chain, or none.                    *)
LEMMA LeastOf ==
  ASSUME NEW S \in SUBSET Nat, S # {}
  PROVE  \E n \in S : \A k \in S : n <= k
<1> DEFINE Less == {p \in Nat \X Nat : p[1] < p[2]}
<1>1. IsWellFoundedOn(Less, Nat)
  BY NatLessThanWellFounded DEF OpToRel
<1>2. PICK n \in S : \A k \in S : <<k, n>> \notin Less
  <2> HIDE DEF Less
  <2> QED
    BY <1>1, WFMin
<1>3. ASSUME NEW k \in S, k < n PROVE FALSE
  <2>1. <<k, n>> \in Less
    BY <1>3
  <2> QED
    BY <2>1, <1>2
<1> QED
  BY <1>3

LEMMA SelectedIsProvider ==
  ASSUME NEW chain \in Seq(Provider), NEW fit, NEW valid, NEW cheap \in BOOLEAN
  PROVE  Selected(chain, fit, valid, cheap) \in Provider \cup {"none"}
<1> DEFINE found == Candidates(chain, fit, valid)
           rank == [k \in DOMAIN chain |-> IF cheap THEN BudgetRank[chain[k]] ELSE 0]
<1>1. found \subseteq DOMAIN chain /\ DOMAIN chain \subseteq Nat
  BY DEF Candidates
<1>2. \A k \in DOMAIN chain : rank[k] \in Nat /\ chain[k] \in Provider
  BY DEF Provider, BudgetRank
<1>3. \A i, j \in DOMAIN chain :
        Before(chain, cheap, i, j) <=> rank[i] < rank[j] \/ (rank[i] = rank[j] /\ i <= j)
  BY DEF Before
<1>4. ASSUME found # {} PROVE \E i \in found : \A j \in found : Before(chain, cheap, i, j)
  <2> HIDE DEF found, rank
  <2>1. {rank[k] : k \in found} \in SUBSET Nat /\ {rank[k] : k \in found} # {}
    BY <1>1, <1>2, <1>4
  <2>2. PICK least \in {rank[k] : k \in found} : \A r \in {rank[k] : k \in found} : least <= r
    BY <2>1, LeastOf
  <2>3. {k \in found : rank[k] = least} \in SUBSET Nat /\ {k \in found : rank[k] = least} # {}
    BY <1>1, <2>2
  <2>4. PICK i \in {k \in found : rank[k] = least} :
          \A j \in {k \in found : rank[k] = least} : i <= j
    BY <2>3, LeastOf
  <2>5. ASSUME NEW j \in found PROVE Before(chain, cheap, i, j)
    <3>1. rank[i] = least /\ least <= rank[j] /\ i \in DOMAIN chain /\ j \in DOMAIN chain
      BY <1>1, <2>2, <2>4
    <3>2. rank[j] = least => i <= j
      BY <2>4
    <3> QED
      BY <3>1, <3>2, <1>2, <1>3
  <2> QED
    BY <2>4, <2>5
<1> QED
  BY <1>1, <1>2, <1>4 DEF Selected

-----------------------------------------------------------------------------
(* What the steps of a session make of its adapter and of its calls.        *)
Adapter == [pc : {"none", "ready", "asked", "replied", "store", "dead"},
            route : Provider \cup {"none"}, acc : Pair, ref : Pair, env : BOOLEAN,
            shown : Pair, got : Pair]
CallState == [pc : {"idle"} \cup Waiting \cup Settled, token : Pair]
Errand == [pc : {"idle", "store"}, change : Change, n : Pair]
Opening == [pc : {"unused", "binding", "begun"}, ready : BOOLEAN,
            code : {"none", "own", "foreign", "spent"}]
Completing == [pc : {"idle", "wait", "exchange", "store", "connected", "unfinished", "thrown"},
               of : Login \cup {NoLogin}, got : Pair]

(* Only s has another adapter. *)
Only(s) == ad' = [r \in Session |-> ad'[r]] /\ \A r \in Session \ {s} : ad'[r] = ad[r]

LEMMA Zero == 0 \in Pair
BY StoreAssumption DEF Pair

LEMMA Nothing == Absent \in Record /\ Absent.ref = 0 /\ NoLogin \notin Login
BY StoreAssumption DEF Pair, Absent, Record, NoLogin, Login

LEMMA AccessParts ==
  AccessTypeOK <=>
    /\ cast \in Casts /\ ad \in [Session -> Adapter] /\ call \in [Call -> CallState]
    /\ own \in [Owner -> Errand] /\ orphaned \subseteq Pair /\ faults \in 0 .. MaxFaults
    /\ \A c \in Call : call[c].pc = "refresh" => ad[SessionOf[c]].pc \in InRefresh
BY DEF AccessTypeOK, Adapter, CallState, Errand

LEMMA SettleSets ==
  ASSUME ad \in [Session -> Adapter], NEW s \in Session, NEW acc \in Pair, NEW ref \in Pair, Settle(s, acc, ref)
  PROVE  Only(s) /\ ad'[s] \in Adapter
         /\ ad'[s].pc = "ready" /\ ad'[s].ref = ref /\ ad'[s].shown = 0 /\ ad'[s].got = 0
<1>1. ad'[s] = [ad[s] EXCEPT !.pc = "ready", !.acc = acc, !.ref = ref, !.shown = 0, !.got = 0]
  BY DEF Settle
<1>2. ad'[s] \in Adapter
      /\ ad'[s].pc = "ready" /\ ad'[s].ref = ref /\ ad'[s].shown = 0 /\ ad'[s].got = 0
  BY ZenonT(60), <1>1, Zero DEF Adapter
<1>3. Only(s)
  BY DEF Settle, Only
<1> QED
  BY <1>2, <1>3

LEMMA ExchangeSets ==
  ASSUME ad \in [Session -> Adapter], NEW s \in Session, NewPair \in Pair, Exchange(s)
  PROVE  Only(s) /\ ad'[s] \in Adapter
         /\ ad'[s].pc = "replied" /\ ad'[s].got = NewPair
         /\ ad'[s].ref = ad[s].ref /\ ad'[s].shown = ad[s].shown
<1>1. ASSUME NEW x \in Adapter, NEW y, y = [x EXCEPT !.pc = "replied", !.got = NewPair]
      PROVE  /\ y \in Adapter /\ y.pc = "replied" /\ y.got = NewPair
             /\ y.ref = x.ref /\ y.shown = x.shown
  BY <1>1 DEF Adapter
<1>2. /\ ad'[s] \in Adapter /\ ad'[s].pc = "replied" /\ ad'[s].got = NewPair
      /\ ad'[s].ref = ad[s].ref /\ ad'[s].shown = ad[s].shown
  <2>1. ad'[s] = [ad[s] EXCEPT !.pc = "replied", !.got = NewPair]
    BY DEF Exchange
  <2> QED
    BY <1>1, <2>1
<1>3. Only(s)
  BY DEF Exchange, Only
<1> QED
  BY <1>2, <1>3

LEMMA AdoptSets ==
  ASSUME ad \in [Session -> Adapter], NEW s \in Session, Adopt(s)
  PROVE  Only(s) /\ ad'[s] \in Adapter
         /\ ad'[s].pc = "store" /\ ad'[s].got = ad[s].got
         /\ ad'[s].ref = ad[s].got /\ ad'[s].shown = ad[s].shown
<1>1. ASSUME NEW x \in Adapter, NEW y, y = [x EXCEPT !.pc = "store", !.acc = x.got, !.ref = x.got]
      PROVE  y \in Adapter /\ y.pc = "store" /\ y.got = x.got /\ y.ref = x.got /\ y.shown = x.shown
  BY <1>1 DEF Adapter
<1>2. ad'[s] = [ad[s] EXCEPT !.pc = "store", !.acc = ad[s].got, !.ref = ad[s].got]
  BY DEF Adopt
<1>3. Only(s)
  BY DEF Adopt, Only
<1> QED
  BY <1>1, <1>2, <1>3

LEMMA DieSets ==
  ASSUME ad \in [Session -> Adapter], NEW s \in Session, Die(s)
  PROVE  Only(s) /\ ad'[s] \in Adapter
         /\ ad'[s].pc = "dead" /\ ad'[s].got = 0 /\ ad'[s].ref = 0 /\ ad'[s].shown = 0
<1>1. ad'[s] = [ad[s] EXCEPT !.pc = "dead", !.acc = 0, !.ref = 0, !.shown = 0, !.got = 0]
  BY DEF Die
<1>2. ad'[s] \in Adapter
      /\ ad'[s].pc = "dead" /\ ad'[s].got = 0 /\ ad'[s].ref = 0 /\ ad'[s].shown = 0
  BY ZenonT(60), <1>1, Zero DEF Adapter
<1>3. Only(s)
  BY DEF Die, Only
<1> QED
  BY <1>2, <1>3

LEMMA BuildSets ==
  ASSUME ad \in [Session -> Adapter], file \in Record, NEW s \in Session, Build(s)
  PROVE  Only(s) /\ ad'[s] \in Adapter
         /\ ad'[s].pc = "ready" /\ ad'[s].ref \in {file.ref, EnvPair}
         /\ ad'[s].got = 0 /\ ad'[s].shown = 0
<1> DEFINE r == IF file # Absent THEN file ELSE [acc |-> EnvPair, ref |-> EnvPair]
           valid == {"openai", "local"} \cup (IF Valid(r) THEN {"codex"} ELSE {})
<1>1. r \in Record /\ r.ref \in {file.ref, EnvPair}
  BY AccessAssumption, StoreAssumption DEF Record, Pair
<1>2. PICK chain \in Chains[s], fit \in SUBSET Provider, cheap \in BOOLEAN :
        ad' = [ad EXCEPT ![s] = [pc |-> "ready", route |-> Selected(chain, fit, valid, cheap),
                 acc |-> r.acc, ref |-> r.ref, env |-> ~(file # Absent), shown |-> 0, got |-> 0]]
  BY DEF Build
<1>3. chain \in Seq(Provider)
  BY AccessAssumption
<1> HIDE DEF r, valid
<1>6. Selected(chain, fit, valid, cheap) \in Provider \cup {"none"}
  BY <1>3, SelectedIsProvider
<1>4. ad'[s] = [pc |-> "ready", route |-> Selected(chain, fit, valid, cheap), acc |-> r.acc,
                ref |-> r.ref, env |-> ~(file # Absent), shown |-> 0, got |-> 0]
  BY <1>2
<1>5. Only(s)
  BY <1>2 DEF Only
<1> QED
  BY <1>1, <1>4, <1>5, <1>6, Zero DEF Adapter, Record

LEMMA AskSets ==
  ASSUME ad \in [Session -> Adapter], SessionOf \in [Call -> Session], NEW c \in Call, Ask(c)
  PROVE  LET s == SessionOf[c] IN
         \/ ad' = ad
         \/ /\ Only(s) /\ ad'[s] \in Adapter
            /\ ad[s].pc = "ready" /\ ad'[s].pc = "asked" /\ ad'[s].shown = ad[s].ref
            /\ ad'[s].ref = ad[s].ref /\ ad'[s].got = ad[s].got
<1> DEFINE s == SessionOf[c]
<1>1. CASE ad' = ad
  BY <1>1
<1>2. CASE ad' = [ad EXCEPT ![s].pc = "asked", ![s].shown = ad[s].ref] /\ ad[s].pc = "ready"
  <2>1. ad'[s] = [ad[s] EXCEPT !.pc = "asked", !.shown = ad[s].ref]
    BY <1>2
  <2>2. ad'[s] \in Adapter
        /\ ad'[s].pc = "asked" /\ ad'[s].shown = ad[s].ref
        /\ ad'[s].ref = ad[s].ref /\ ad'[s].got = ad[s].got
    <3>1. ASSUME NEW x \in Adapter, NEW y, y = [x EXCEPT !.pc = "asked", !.shown = x.ref]
          PROVE  y \in Adapter /\ y.pc = "asked" /\ y.shown = x.ref /\ y.ref = x.ref /\ y.got = x.got
      BY <3>1 DEF Adapter
    <3> QED
      BY <2>1, <3>1
  <2>3. Only(s)
    BY <1>2 DEF Only
  <2> QED
    BY <1>2, <2>2, <2>3
<1> QED
  BY <1>1, <1>2 DEF Ask

(* ... and of the call itself, which goes on, fails or waits. *)
LEMMA AskMoves ==
  ASSUME call \in [Call -> CallState], ad \in [Session -> Adapter],
         SessionOf \in [Call -> Session], NEW c \in Call, Ask(c)
  PROVE  /\ call' \in [Call -> CallState] /\ \A d \in Call \ {c} : call'[d] = call[d]
         /\ call'[c].pc = "refresh" => ad'[SessionOf[c]].pc \in InRefresh
<1> DEFINE s == SessionOf[c]
<1>1. ad[s] \in Adapter
  OBVIOUS
<1>2. CASE call' = [call EXCEPT ![c] = [pc |-> "send", token |-> ad[s].acc]]
  BY <1>1, <1>2 DEF CallState, Adapter, Waiting
<1>3. CASE call' = [call EXCEPT ![c] = End("failed")]
  BY <1>3, Zero DEF CallState, End, Settled
<1>4. CASE /\ call' = [call EXCEPT ![c].pc = "refresh"]
           /\ ad[s].pc \in {"ready"} \cup InRefresh
           /\ ad' = IF ad[s].pc = "ready"
                    THEN [ad EXCEPT ![s].pc = "asked", ![s].shown = ad[s].ref] ELSE ad
  <2>1. call' \in [Call -> CallState] /\ \A d \in Call \ {c} : call'[d] = call[d]
    BY <1>4 DEF CallState, Waiting
  <2>2. ad'[s].pc \in InRefresh
    BY <1>4, <1>1 DEF InRefresh, Adapter
  <2> QED
    BY <2>1, <2>2
<1> QED
  BY <1>2, <1>3, <1>4 DEF Ask

LEMMA ResumeSets ==
  ASSUME call \in [Call -> CallState], NEW s \in Session, NEW t \in Pair, Resume(s, t)
  PROVE  /\ call' \in [Call -> CallState]
         /\ \A c \in Call : call'[c].pc = "refresh" => call[c].pc = "refresh" /\ SessionOf[c] # s
BY StoreAssumption DEF Resume, End, CallState, Settled, Waiting, Pair

-----------------------------------------------------------------------------
(* Types.                                                                  *)
LEMMA StoreKept == StoreTypeOK /\ UNCHANGED storeVars => StoreTypeOK'
BY DEF StoreTypeOK, storeVars

LEMMA TokenKept == TokenTypeOK /\ UNCHANGED tokenVars => TokenTypeOK'
BY DEF TokenTypeOK, tokenVars

LEMMA LoginKept == LoginTypeOK /\ UNCHANGED loginVars => LoginTypeOK'
BY DEF LoginTypeOK, loginVars

LEMMA AccessKept == AccessTypeOK /\ UNCHANGED accessVars => AccessTypeOK'
BY DEF AccessTypeOK, accessVars

LEMMA LoadSets ==
  ASSUME StoreTypeOK, NEW w \in Writer, Load(w)
  PROVE  StoreTypeOK' /\ file' = file /\ crossed' = crossed
         /\ \A v \in Writer : base'[v].ref \in {base[v].ref, file.ref}
BY DEF Load, StoreTypeOK, Record

LEMMA SaveSets ==
  ASSUME StoreTypeOK, NEW w \in Writer, NEW change \in Change, NEW n \in Pair,
         Save(w, change, n)
  PROVE  /\ StoreTypeOK' /\ crossed \subseteq crossed'
         /\ \A v \in Writer : base'[v].ref \in {base[v].ref, 0}
         /\ \/ change = "pair" /\ file'.ref = n
            \/ change = "remove" /\ file'.ref = 0
            \/ /\ change \in {"access", "keep"} /\ file'.ref = base[w].ref
               /\ base[w] = file \/ base[w].ref \in crossed'
<1>1. file' = Changed(base[w], change, n)
  BY DEF Save
<1>2. base[w] \in Record
  BY DEF StoreTypeOK
<1>3. file' \in Record
      /\ \/ change = "pair" /\ file'.ref = n
         \/ change = "remove" /\ file'.ref = 0
         \/ change \in {"access", "keep"} /\ file'.ref = base[w].ref
  <2>1. CASE change = "pair"
    BY <1>1, <2>1 DEF Changed, Record
  <2>2. CASE change = "access"
    BY <1>1, <1>2, <2>2 DEF Changed, Record
  <2>3. CASE change = "keep"
    BY <1>1, <1>2, <2>3 DEF Changed
  <2>4. CASE change = "remove"
    BY <1>1, <2>4, Nothing DEF Changed
  <2> QED
    BY <2>1, <2>2, <2>3, <2>4 DEF Change
<1>4. crossed \subseteq crossed' /\ crossed' \subseteq Pair
      /\ (change # "pair" /\ base[w] # file => base[w].ref \in crossed')
  BY <1>2 DEF Save, StoreTypeOK, Record
<1>5. base' \in [Writer -> Record] /\ \A v \in Writer : base'[v].ref \in {base[v].ref, 0}
  BY Nothing DEF Save, StoreTypeOK
<1> QED
  BY <1>3, <1>4, <1>5 DEF StoreTypeOK

LEMMA LoginParts ==
  LoginTypeOK <=>
    /\ login \in [Login -> Opening] /\ pending \in Login \cup {NoLogin}
    /\ port \in Login \cup {NoLogin} /\ comp \in [Completer -> Completing]
    /\ clashed \in BOOLEAN
BY DEF LoginTypeOK, Opening, Completing

LEMMA IssueSets ==
  ASSUME TokenTypeOK, Issue
  PROVE  TokenTypeOK' /\ NewPair \in Pair /\ issued' = NewPair /\ live' = live \cup {NewPair}
BY StoreAssumption, LoginAssumption DEF TokenTypeOK, Issue, NewPair, Pair

LEMMA TokenBound == TokenTypeOK /\ issued < MaxIssued => NewPair \in Pair
BY StoreAssumption, LoginAssumption DEF TokenTypeOK, NewPair, Pair

LEMMA TypeInit == Init => TypeOK
<1> SUFFICES ASSUME Init PROVE TypeOK
  OBVIOUS
<1> USE StoreAssumption, LoginAssumption, AccessAssumption
<1>1. StoreTypeOK
  BY DEF Init, StoreInit, StoreTypeOK, Absent, Record, Pair
<1>2. TokenTypeOK
  BY DEF Init, TokenInit, TokenTypeOK
<1>3. LoginTypeOK
  <2>1. login \in [Login -> Opening]
    BY DEF Init, LoginInit, Opening
  <2>2. comp \in [Completer -> Completing]
    BY Zero DEF Init, LoginInit, Completing, NoLogin
  <2> QED
    BY <2>1, <2>2 DEF Init, LoginInit, LoginTypeOK, Opening, Completing
<1>4. AccessTypeOK
  BY DEF Init, AccessTypeOK, NoRequest, Change, Pair, Waiting, Settled
<1> QED
  BY <1>1, <1>2, <1>3, <1>4 DEF TypeOK

LEMMA TypeStep == TypeOK /\ [Next]_vars => TypeOK'
<1> SUFFICES ASSUME TypeOK, [Next]_vars PROVE TypeOK'
  OBVIOUS
<1> USE StoreAssumption, LoginAssumption, AccessAssumption, StoreKept, TokenKept, LoginKept,
        AccessKept
    DEF TypeOK
<1>1. CASE UNCHANGED vars
  BY <1>1 DEF vars
<1>2. ASSUME NEW s \in Session, Build(s) \/ RefreshStep(s) \/ Break(s) \/ Die(s) PROVE TypeOK'
  <2>1. CASE Build(s)
    <3>1. StoreTypeOK' /\ TokenTypeOK' /\ LoginTypeOK'
      BY <1>2, <2>1 DEF Build, others
    <3>2. AccessTypeOK'
      <4>1. ad \in [Session -> Adapter] /\ call \in [Call -> CallState] /\ own \in [Owner -> Errand]
        BY AccessParts
      <4>2. file \in Record
        BY DEF StoreTypeOK
      <4>3. Only(s) /\ ad'[s] \in Adapter
        BY <1>2, <2>1, <4>1, <4>2, BuildSets
      <4>4. ad' \in [Session -> Adapter]
        BY <4>1, <4>3 DEF Only
      <4>5. \A c \in Call : call'[c].pc = "refresh" => ad'[SessionOf[c]].pc \in InRefresh
        BY <1>2, <2>1, <4>3, BuildSets, <4>1, <4>2 DEF AccessTypeOK, Only, Build, InRefresh
      <4> QED
        BY <1>2, <2>1, <4>1, <4>4, <4>5, <4>2 DEF Build, AccessTypeOK, Adapter, CallState, Errand
    <3> QED
      BY <3>1, <3>2
  <2>2. CASE Exchange(s)
    <3>1. StoreTypeOK' /\ LoginTypeOK'
      BY <1>2, <2>2 DEF Exchange, others
    <3>2. TokenTypeOK'
      BY <1>2, <2>2 DEF Exchange, Rotate, NewPair, TokenTypeOK, Pair, StoreTypeOK
    <3>3. AccessTypeOK'
      <4>1. ad \in [Session -> Adapter] /\ call \in [Call -> CallState] /\ own \in [Owner -> Errand]
        BY AccessParts
      <4>2. NewPair \in Pair
        BY <1>2, <2>2, TokenBound DEF Exchange, Rotate
      <4>3. Only(s) /\ ad'[s] \in Adapter
        BY <1>2, <2>2, <4>1, <4>2, ExchangeSets
      <4>4. ad' \in [Session -> Adapter]
        BY <4>1, <4>3 DEF Only
      <4>5. \A c \in Call : call'[c].pc = "refresh" => ad'[SessionOf[c]].pc \in InRefresh
        BY <1>2, <2>2, <4>3, ExchangeSets, <4>1, <4>2 DEF AccessTypeOK, Only, Exchange, InRefresh
      <4> QED
        BY <1>2, <2>2, <4>1, <4>4, <4>5, <4>2 DEF Exchange, AccessTypeOK, Adapter, CallState, Errand
    <3> QED
      BY <3>1, <3>2, <3>3
  <2>3. CASE ExchangeFails(s)
    <3>1. StoreTypeOK' /\ TokenTypeOK' /\ LoginTypeOK'
      BY <1>2, <2>3 DEF ExchangeFails, others
    <3>2. AccessTypeOK'
      <4>1. ad \in [Session -> Adapter] /\ call \in [Call -> CallState] /\ own \in [Owner -> Errand]
        BY AccessParts
      <4>2. Settle(s, ad[s].acc, ad[s].ref) /\ ad[s].acc \in Pair /\ ad[s].ref \in Pair /\ ad[s].got \in Pair /\ ad[s].shown \in Pair
        BY <1>2, <2>3, <4>1 DEF ExchangeFails, Adapter
      <4>3. Only(s) /\ ad'[s] \in Adapter
        BY <1>2, <2>3, <4>1, <4>2, SettleSets
      <4>4. ad' \in [Session -> Adapter]
        BY <4>1, <4>3 DEF Only
      <4>5. Resume(s, 0) /\ 0 \in Pair
        BY <1>2, <2>3, <4>2, Zero DEF ExchangeFails
      <4>6. call' \in [Call -> CallState]
               /\ \A c \in Call : call'[c].pc = "refresh" =>
                    call[c].pc = "refresh" /\ SessionOf[c] # s
        BY <1>2, <2>3, <4>1, <4>5, ResumeSets
      <4>7. \A c \in Call : call'[c].pc = "refresh" => ad'[SessionOf[c]].pc \in InRefresh
        BY <4>3, <4>6 DEF AccessTypeOK, Only
      <4> QED
        BY <1>2, <2>3, <4>1, <4>3, <4>4, <4>6, <4>7, <4>2 DEF ExchangeFails, AccessTypeOK, Adapter, CallState, Errand
    <3> QED
      BY <3>1, <3>2
  <2>4. CASE Adopt(s)
    <3>1. TokenTypeOK' /\ LoginTypeOK'
      BY <1>2, <2>4 DEF Adopt, others
    <3>2. StoreTypeOK'
      BY <1>2, <2>4 DEF Adopt, Load, StoreTypeOK, Record, Pair, TokenTypeOK, LoginTypeOK, AccessTypeOK
    <3>3. AccessTypeOK'
      <4>1. ad \in [Session -> Adapter] /\ call \in [Call -> CallState] /\ own \in [Owner -> Errand]
        BY AccessParts
      <4>2. Only(s) /\ ad'[s] \in Adapter
        BY <1>2, <2>4, <4>1, AdoptSets
      <4>3. ad' \in [Session -> Adapter]
        BY <4>1, <4>2 DEF Only
      <4>4. \A c \in Call : call'[c].pc = "refresh" => ad'[SessionOf[c]].pc \in InRefresh
        BY <1>2, <2>4, <4>2, AdoptSets, <4>1 DEF AccessTypeOK, Only, Adopt, InRefresh, Adapter
      <4> QED
        BY <1>2, <2>4, <4>1, <4>3, <4>4 DEF Adopt, AccessTypeOK, Adapter, CallState, Errand
    <3> QED
      BY <3>1, <3>2, <3>3
  <2>5. CASE AdoptEnv(s)
    <3>1. StoreTypeOK' /\ TokenTypeOK' /\ LoginTypeOK'
      BY <1>2, <2>5 DEF AdoptEnv, others
    <3>2. AccessTypeOK'
      <4>1. ad \in [Session -> Adapter] /\ call \in [Call -> CallState] /\ own \in [Owner -> Errand]
        BY AccessParts
      <4>2. Settle(s, ad[s].got, ad[s].got) /\ ad[s].acc \in Pair /\ ad[s].ref \in Pair /\ ad[s].got \in Pair /\ ad[s].shown \in Pair
        BY <1>2, <2>5, <4>1 DEF AdoptEnv, Adapter
      <4>3. Only(s) /\ ad'[s] \in Adapter
        BY <1>2, <2>5, <4>1, <4>2, SettleSets
      <4>4. ad' \in [Session -> Adapter]
        BY <4>1, <4>3 DEF Only
      <4>5. Resume(s, ad[s].got) /\ ad[s].got \in Pair
        BY <1>2, <2>5, <4>2, Zero DEF AdoptEnv
      <4>6. call' \in [Call -> CallState]
               /\ \A c \in Call : call'[c].pc = "refresh" =>
                    call[c].pc = "refresh" /\ SessionOf[c] # s
        BY <1>2, <2>5, <4>1, <4>5, ResumeSets
      <4>7. \A c \in Call : call'[c].pc = "refresh" => ad'[SessionOf[c]].pc \in InRefresh
        BY <4>3, <4>6 DEF AccessTypeOK, Only
      <4> QED
        BY <1>2, <2>5, <4>1, <4>3, <4>4, <4>6, <4>7, <4>2 DEF AdoptEnv, AccessTypeOK, Adapter, CallState, Errand
    <3> QED
      BY <3>1, <3>2
  <2>6. CASE Persist(s)
    <3>1. TokenTypeOK' /\ LoginTypeOK'
      BY <1>2, <2>6 DEF Persist, others
    <3>2. StoreTypeOK'
      BY <1>2, <2>6, SaveSets DEF Persist, AccessTypeOK, Change
    <3>3. AccessTypeOK'
      <4>1. ad \in [Session -> Adapter] /\ call \in [Call -> CallState] /\ own \in [Owner -> Errand]
        BY AccessParts
      <4>2. Settle(s, ad[s].acc, ad[s].ref) /\ ad[s].acc \in Pair /\ ad[s].ref \in Pair /\ ad[s].got \in Pair /\ ad[s].shown \in Pair
        BY <1>2, <2>6, <4>1 DEF Persist, Adapter
      <4>3. Only(s) /\ ad'[s] \in Adapter
        BY <1>2, <2>6, <4>1, <4>2, SettleSets
      <4>4. ad' \in [Session -> Adapter]
        BY <4>1, <4>3 DEF Only
      <4>5. Resume(s, ad[s].got) /\ ad[s].got \in Pair
        BY <1>2, <2>6, <4>2, Zero DEF Persist
      <4>6. call' \in [Call -> CallState]
               /\ \A c \in Call : call'[c].pc = "refresh" =>
                    call[c].pc = "refresh" /\ SessionOf[c] # s
        BY <1>2, <2>6, <4>1, <4>5, ResumeSets
      <4>7. \A c \in Call : call'[c].pc = "refresh" => ad'[SessionOf[c]].pc \in InRefresh
        BY <4>3, <4>6 DEF AccessTypeOK, Only
      <4> QED
        BY <1>2, <2>6, <4>1, <4>3, <4>4, <4>6, <4>7, <4>2 DEF Persist, AccessTypeOK, Adapter, CallState, Errand
    <3> QED
      BY <3>1, <3>2, <3>3
  <2>7. CASE Break(s)
    <3>1. StoreTypeOK' /\ TokenTypeOK' /\ LoginTypeOK'
      BY <1>2, <2>7 DEF Break, others
    <3>2. AccessTypeOK'
      <4>1. ad \in [Session -> Adapter] /\ call \in [Call -> CallState] /\ own \in [Owner -> Errand]
        BY AccessParts
      <4>2. Settle(s, ad[s].acc, ad[s].ref) /\ ad[s].acc \in Pair /\ ad[s].ref \in Pair /\ ad[s].got \in Pair /\ ad[s].shown \in Pair
        BY <1>2, <2>7, <4>1 DEF Break, Adapter
      <4>3. Only(s) /\ ad'[s] \in Adapter
        BY <1>2, <2>7, <4>1, <4>2, SettleSets
      <4>4. ad' \in [Session -> Adapter]
        BY <4>1, <4>3 DEF Only
      <4>5. Resume(s, 0) /\ 0 \in Pair
        BY <1>2, <2>7, <4>2, Zero DEF Break
      <4>6. call' \in [Call -> CallState]
               /\ \A c \in Call : call'[c].pc = "refresh" =>
                    call[c].pc = "refresh" /\ SessionOf[c] # s
        BY <1>2, <2>7, <4>1, <4>5, ResumeSets
      <4>7. \A c \in Call : call'[c].pc = "refresh" => ad'[SessionOf[c]].pc \in InRefresh
        BY <4>3, <4>6 DEF AccessTypeOK, Only
      <4> QED
        BY <1>2, <2>7, <4>1, <4>3, <4>4, <4>6, <4>7, <4>2 DEF Break, AccessTypeOK, Adapter, CallState, Errand
    <3> QED
      BY <3>1, <3>2
  <2>8. CASE Die(s)
    <3>1. StoreTypeOK' /\ TokenTypeOK' /\ LoginTypeOK'
      BY <1>2, <2>8 DEF Die, others
    <3>2. AccessTypeOK'
      <4>1. ad \in [Session -> Adapter] /\ call \in [Call -> CallState] /\ own \in [Owner -> Errand]
        BY AccessParts
      <4>2. Only(s) /\ ad'[s] \in Adapter
        BY <1>2, <2>8, <4>1, DieSets
      <4>3. ad' \in [Session -> Adapter]
        BY <4>1, <4>2 DEF Only
      <4>4. call' \in [Call -> CallState]
        BY <1>2, <2>8, <4>1, Zero DEF Die, End, CallState, Waiting, Settled
      <4>5. \A c \in Call : call'[c].pc = "refresh" => ad'[SessionOf[c]].pc \in InRefresh
        BY <1>2, <2>8, <4>2 DEF AccessTypeOK, Only, Die, End, Waiting
      <4>6. orphaned' \subseteq Pair
        BY <1>2, <2>8, <4>1 DEF Die, AccessTypeOK, Adapter
      <4> QED
        BY <1>2, <2>8, <4>1, <4>3, <4>4, <4>5, <4>6 DEF Die, AccessTypeOK, Adapter, CallState, Errand
    <3> QED
      BY <3>1, <3>2
  <2> QED
    BY <1>2, <2>1, <2>2, <2>3, <2>4, <2>5, <2>6, <2>7, <2>8 DEF RefreshStep
<1>3. ASSUME NEW c \in Call, Ask(c) \/ AskOther(c) \/ Respond(c) \/ GiveUp(c) PROVE TypeOK'
  <2>1. CASE Ask(c)
    <3>1. StoreTypeOK' /\ TokenTypeOK' /\ LoginTypeOK'
      BY <1>3, <2>1 DEF Ask, others
    <3>2. AccessTypeOK'
      <4>1. ad \in [Session -> Adapter] /\ call \in [Call -> CallState] /\ own \in [Owner -> Errand]
        BY AccessParts
      <4>2. ad' \in [Session -> Adapter]
        BY <1>3, <2>1, <4>1, AskSets DEF Only
      <4>3. call' \in [Call -> CallState]
        BY <1>3, <2>1, <4>1, Zero, AskMoves DEF CallState, Waiting, Settled, Adapter
      <4>4. \A d \in Call : call'[d].pc = "refresh" => ad'[SessionOf[d]].pc \in InRefresh
        BY <1>3, <2>1, <4>1, AskSets, AskMoves DEF AccessTypeOK, Only, InRefresh
      <4> QED
        BY <1>3, <2>1, <4>2, <4>3, <4>4 DEF Ask, AccessTypeOK, Adapter, CallState, Errand
    <3> QED
      BY <3>1, <3>2
  <2>2. CASE AskOther(c)
    <3>1. StoreTypeOK' /\ TokenTypeOK' /\ LoginTypeOK'
      BY <1>3, <2>2 DEF AskOther, others
    <3>2. AccessTypeOK'
      <4>1. ad \in [Session -> Adapter] /\ call \in [Call -> CallState] /\ own \in [Owner -> Errand]
        BY AccessParts
      <4>2. call' \in [Call -> CallState]
        BY <1>3, <2>2, <4>1, Zero DEF AskOther, End, CallState, Waiting, Settled, Adapter
      <4>3. \A d \in Call : call'[d].pc = "refresh" => call[d].pc = "refresh"
        BY <1>3, <2>2, <4>1 DEF AskOther, End, CallState
      <4> QED
        BY <1>3, <2>2, <4>2, <4>3 DEF AskOther, AccessTypeOK, Adapter, CallState, Errand
    <3> QED
      BY <3>1, <3>2
  <2>3. CASE Respond(c)
    <3>1. StoreTypeOK' /\ TokenTypeOK' /\ LoginTypeOK'
      BY <1>3, <2>3 DEF Respond, others
    <3>2. AccessTypeOK'
      <4>1. ad \in [Session -> Adapter] /\ call \in [Call -> CallState] /\ own \in [Owner -> Errand]
        BY AccessParts
      <4>2. call' \in [Call -> CallState]
        BY <1>3, <2>3, <4>1, Zero DEF Respond, End, CallState, Waiting, Settled, Adapter
      <4>3. \A d \in Call : call'[d].pc = "refresh" => call[d].pc = "refresh"
        BY <1>3, <2>3, <4>1 DEF Respond, End, CallState
      <4> QED
        BY <1>3, <2>3, <4>2, <4>3 DEF Respond, AccessTypeOK, Adapter, CallState, Errand
    <3> QED
      BY <3>1, <3>2
  <2>4. CASE GiveUp(c)
    <3>1. StoreTypeOK' /\ TokenTypeOK' /\ LoginTypeOK'
      BY <1>3, <2>4 DEF GiveUp, others
    <3>2. AccessTypeOK'
      <4>1. ad \in [Session -> Adapter] /\ call \in [Call -> CallState] /\ own \in [Owner -> Errand]
        BY AccessParts
      <4>2. call' \in [Call -> CallState]
        BY <1>3, <2>4, <4>1, Zero DEF GiveUp, End, CallState, Waiting, Settled, Adapter
      <4>3. \A d \in Call : call'[d].pc = "refresh" => call[d].pc = "refresh"
        BY <1>3, <2>4, <4>1 DEF GiveUp, End, CallState
      <4> QED
        BY <1>3, <2>4, <4>2, <4>3 DEF GiveUp, AccessTypeOK, Adapter, CallState, Errand
    <3> QED
      BY <3>1, <3>2
  <2> QED
    BY <1>3, <2>1, <2>2, <2>3, <2>4
<1>4. ASSUME NEW o \in Owner, Request(o) \/ Fulfil(o) PROVE TypeOK'
  <2>1. CASE Request(o)
    <3>1. LoginTypeOK'
      BY <1>4, <2>1 DEF Request, others
    <3>2. StoreTypeOK'
      BY <1>4, <2>1 DEF Request, Load, Issue, NewPair, StoreTypeOK, Record, Pair, TokenTypeOK, LoginTypeOK, AccessTypeOK
    <3>3. TokenTypeOK'
      BY <1>4, <2>1, IssueSets DEF Request
    <3>4. AccessTypeOK'
      <4>1. ad \in [Session -> Adapter] /\ call \in [Call -> CallState] /\ own \in [Owner -> Errand]
        BY AccessParts
      <4>2. NewPair \in Pair \/ UNCHANGED tokenVars
        BY <1>4, <2>1, TokenBound DEF Request, Issue
      <4>3. own' \in [Owner -> Errand]
        BY <1>4, <2>1, <4>1, <4>2, TokenBound, Zero DEF Request, Issue, Errand, Change
      <4> QED
        BY <1>4, <2>1, <4>3 DEF Request, AccessTypeOK, Adapter, CallState, Errand
    <3> QED
      BY <3>1, <3>2, <3>3, <3>4
  <2>2. CASE Fulfil(o)
    <3>1. TokenTypeOK' /\ LoginTypeOK'
      BY <1>4, <2>2 DEF Fulfil, others
    <3>2. StoreTypeOK'
      BY <1>4, <2>2, SaveSets DEF Fulfil, AccessTypeOK
    <3>3. AccessTypeOK'
      <4>1. ad \in [Session -> Adapter] /\ call \in [Call -> CallState] /\ own \in [Owner -> Errand]
        BY AccessParts
      <4>2. own' \in [Owner -> Errand]
        BY <1>4, <2>2, <4>1, Zero DEF Fulfil, NoRequest, Errand, Change
      <4> QED
        BY <1>4, <2>2, <4>2 DEF Fulfil, AccessTypeOK, Adapter, CallState, Errand
    <3> QED
      BY <3>1, <3>2, <3>3
  <2> QED
    BY <1>4, <2>1, <2>2
<1>5. ASSUME NEW i \in Login, (Authorize(i) \/ Authorized(i) \/ Redirect(i)) /\ UNCHANGED accessVars PROVE TypeOK'
  <2>1. CASE Authorize(i)
    <3>1. StoreTypeOK' /\ TokenTypeOK' /\ AccessTypeOK'
      BY <1>5, <2>1 DEF Authorize, others
    <3>2. LoginTypeOK'
      <4>1. login \in [Login -> Opening]
        BY LoginParts
      <4>2. login' \in [Login -> Opening]
        <5>1. ASSUME NEW x \in Opening, NEW b \in BOOLEAN
              PROVE  [x EXCEPT !.pc = "binding", !.ready = b] \in Opening
          BY DEF Opening
        <5>2. login' = [login EXCEPT ![i] = [login[i] EXCEPT !.pc = "binding",
                                                             !.ready = PortClosed = NoLogin]]
          BY <2>1 DEF Authorize
        <5> QED
          BY <4>1, <5>1, <5>2
      <4>3. port' \in Login \cup {NoLogin}
        BY <1>5, <2>1 DEF Authorize, PortClosed, LoginTypeOK
      <4> QED
        BY <1>5, <2>1, <4>2, <4>3 DEF Authorize, LoginTypeOK, Opening
    <3> QED
      BY <3>1, <3>2
  <2>2. CASE Authorized(i)
    <3>1. StoreTypeOK' /\ TokenTypeOK' /\ AccessTypeOK'
      BY <1>5, <2>2 DEF Authorized, others
    <3>2. LoginTypeOK'
      BY ZenonT(60), <1>5, <2>2 DEF Authorized, LoginTypeOK, Pair, TokenTypeOK
    <3> QED
      BY <3>1, <3>2
  <2>3. CASE Redirect(i)
    <3>1. StoreTypeOK' /\ TokenTypeOK' /\ AccessTypeOK'
      BY <1>5, <2>3 DEF Redirect, others
    <3>2. LoginTypeOK'
      BY ZenonT(60), <1>5, <2>3 DEF Redirect, LoginTypeOK, Pair, TokenTypeOK
    <3> QED
      BY <3>1, <3>2
  <2> QED
    BY <1>5, <2>1, <2>2, <2>3
<1>6. ASSUME NEW k \in Completer, LoginStep(k) /\ UNCHANGED accessVars PROVE TypeOK'
  <2>1. CASE Complete(k)
    <3>1. StoreTypeOK' /\ TokenTypeOK' /\ AccessTypeOK'
      BY <1>6, <2>1 DEF Complete, others
    <3>2. LoginTypeOK'
      <4>1. login \in [Login -> Opening] /\ comp \in [Completer -> Completing]
        BY LoginParts
      <4>2. login' \in [Login -> Opening] /\ comp' \in [Completer -> Completing]
        <5>1. CASE Answer(k, "thrown") /\ UNCHANGED login
          BY <4>1, <5>1, Zero DEF Answer, Completing
        <5>2. ASSUME pending # NoLogin, NEW code \in {login[pending].code, "own", "foreign"},
                     login' = [login EXCEPT ![pending].code =
                                 IF code = "own" /\ @ = "spent" THEN @ ELSE code],
                     NEW pc \in {"wait", "unfinished", "exchange"},
                     comp' = [comp EXCEPT ![k].of = pending, ![k].pc = pc]
              PROVE  login' \in [Login -> Opening] /\ comp' \in [Completer -> Completing]
          <6>1. pending \in Login /\ login[pending] \in Opening /\ comp[k] \in Completing
            BY <4>1, <5>2 DEF LoginTypeOK
          <6>2. ASSUME NEW x \in Opening, NEW c \in {x.code, "own", "foreign"}
                PROVE  [x EXCEPT !.code = c] \in Opening
            BY DEF Opening
          <6>3. ASSUME NEW x \in Completing
                PROVE  [x EXCEPT !.of = pending, !.pc = pc] \in Completing
            BY <6>1 DEF Completing
          <6>4. login' = [login EXCEPT ![pending] = [login[pending] EXCEPT !.code =
                            IF code = "own" /\ login[pending].code = "spent"
                            THEN login[pending].code ELSE code]]
            BY <5>2
          <6>5. comp' = [comp EXCEPT ![k] = [comp[k] EXCEPT !.of = pending, !.pc = pc]]
            BY <5>2
          <6>6. login' \in [Login -> Opening]
            <7>1. (IF code = "own" /\ login[pending].code = "spent"
                   THEN login[pending].code ELSE code) \in {login[pending].code, "own", "foreign"}
              BY <5>2
            <7> QED
              BY <4>1, <6>1, <6>2, <6>4, <7>1
          <6> QED
            BY <4>1, <6>1, <6>3, <6>5, <6>6
        <5> QED
          BY <2>1, <5>1, <5>2 DEF Complete
      <4> QED
        BY <2>1, <4>2 DEF Complete, LoginTypeOK, Opening, Completing
    <3> QED
      BY <3>1, <3>2
  <2>2. CASE GetCode(k)
    <3>1. StoreTypeOK' /\ TokenTypeOK' /\ AccessTypeOK'
      BY <1>6, <2>2 DEF GetCode, others
    <3>2. LoginTypeOK'
      BY ZenonT(60), <1>6, <2>2 DEF GetCode, CompGoto, LoginTypeOK, Pair, TokenTypeOK
    <3> QED
      BY <3>1, <3>2
  <2>3. CASE WaitNoLonger(k)
    <3>1. StoreTypeOK' /\ TokenTypeOK' /\ AccessTypeOK'
      BY <1>6, <2>3 DEF WaitNoLonger, others
    <3>2. LoginTypeOK'
      BY <1>6, <2>3 DEF WaitNoLonger, Answer, LoginTypeOK, Pair, TokenTypeOK
    <3> QED
      BY <3>1, <3>2
  <2>4. CASE ExchangeCode(k)
    <3>1. AccessTypeOK'
      BY <1>6, <2>4 DEF ExchangeCode, others
    <3>2. StoreTypeOK'
      BY <1>6, <2>4 DEF ExchangeCode, Issue, Load, NewPair, StoreTypeOK, Record, Pair, TokenTypeOK, LoginTypeOK, AccessTypeOK
    <3>3. TokenTypeOK'
      BY <1>6, <2>4 DEF ExchangeCode, Issue, Load, NewPair, TokenTypeOK, Pair, StoreTypeOK
    <3>4. LoginTypeOK'
      <4>1. login \in [Login -> Opening] /\ comp \in [Completer -> Completing]
        BY LoginParts
      <4>2. NewPair \in Pair
        BY <2>4, IssueSets DEF ExchangeCode
      <4>3. login' \in [Login -> Opening]
        <5>1. ASSUME NEW x \in Opening PROVE [x EXCEPT !.code = "spent"] \in Opening
          BY DEF Opening
        <5>2. login' = [login EXCEPT ![comp[k].of] = [login[comp[k].of] EXCEPT !.code = "spent"]]
          BY <2>4 DEF ExchangeCode
        <5> QED
          BY <4>1, <5>1, <5>2
      <4>4. comp' \in [Completer -> Completing]
        <5>1. ASSUME NEW x \in Completing
              PROVE  [x EXCEPT !.pc = "store", !.got = NewPair] \in Completing
          BY <4>2 DEF Completing
        <5>2. comp' = [comp EXCEPT ![k] = [comp[k] EXCEPT !.pc = "store", !.got = NewPair]]
          BY <2>4 DEF ExchangeCode
        <5> QED
          BY <4>1, <5>1, <5>2
      <4> QED
        BY <2>4, <4>3, <4>4 DEF ExchangeCode, LoginTypeOK, Opening, Completing
    <3> QED
      BY <3>1, <3>2, <3>3, <3>4
  <2>5. CASE CodeRefused(k)
    <3>1. StoreTypeOK' /\ TokenTypeOK' /\ AccessTypeOK'
      BY <1>6, <2>5 DEF CodeRefused, others
    <3>2. LoginTypeOK'
      BY <1>6, <2>5 DEF CodeRefused, Answer, LoginTypeOK, Pair, TokenTypeOK
    <3> QED
      BY <3>1, <3>2
  <2>6. CASE Connect(k)
    <3>1. TokenTypeOK' /\ AccessTypeOK'
      BY <1>6, <2>6 DEF Connect, others
    <3>2. StoreTypeOK'
      BY <1>6, <2>6, SaveSets DEF Connect, LoginTypeOK, Change
    <3>3. LoginTypeOK'
      BY <1>6, <2>6 DEF Connect, Save, Changed, Answer, PortClosed, NoLogin, LoginTypeOK, Pair, TokenTypeOK
    <3> QED
      BY <3>1, <3>2, <3>3
  <2> QED
    BY <1>6, <2>1, <2>2, <2>3, <2>4, <2>5, <2>6 DEF LoginStep
<1>7. ASSUME NEW t \in Pair, Expire(t) PROVE TypeOK'
  BY <1>7 DEF Expire, TokenTypeOK, storeVars
<1> QED
  BY <1>1, <1>2, <1>3, <1>4, <1>5, <1>6, <1>7 DEF Next

-----------------------------------------------------------------------------
(* The port.                                                               *)
LEMMA PortInit == Init => PortHeld
BY DEF Init, LoginInit, PortHeld, NoLogin

LEMMA PortStep == TypeOK /\ PortHeld /\ [Next]_vars => PortHeld'
<1> SUFFICES ASSUME TypeOK, PortHeld, [Next]_vars PROVE PortHeld'
  OBVIOUS
<1>1. CASE UNCHANGED loginVars
  BY <1>1 DEF loginVars, PortHeld
<1>2. ASSUME NEW i \in Login, Authorize(i) PROVE PortHeld'
  <2>1. CASE \E j \in Login : login[j].pc = "binding"
    BY <1>2, <2>1 DEF Authorize, PortHeld
  <2>2. CASE \A j \in Login : login[j].pc # "binding"
    <3>1. ASSUME ~clashed PROVE PortClosed = NoLogin
      BY <2>2, <3>1 DEF PortHeld, PortClosed, TypeOK, LoginTypeOK
    <3>2. /\ \A j \in Login \ {i} : login'[j] = login[j]
          /\ login'[i].pc = "binding" /\ pending' = NoLogin /\ (~clashed => port' = i)
      BY <1>2, <3>1, LoginParts DEF Authorize, TypeOK, Opening
    <3>3. ~clashed' => ~clashed
      BY <1>2 DEF Authorize
    <3> QED
      BY <2>2, <3>2, <3>3, Nothing DEF PortHeld
  <2> QED
    BY <2>1, <2>2
<1>3. ASSUME NEW i \in Login, Authorized(i) PROVE PortHeld'
  <2>1. /\ \A j \in Login \ {i} : login'[j] = login[j]
        /\ login'[i].pc = "begun" /\ pending' = i /\ port' = port /\ clashed' = clashed
    BY <1>3, LoginParts DEF Authorized, TypeOK, Opening
  <2> QED
    BY <1>3, <2>1, Nothing DEF PortHeld, Authorized
<1>4. ASSUME /\ \A j \in Login : login'[j].pc = login[j].pc
             /\ UNCHANGED <<pending, port, clashed>>
      PROVE  PortHeld'
  BY <1>4 DEF PortHeld, TypeOK, LoginTypeOK
<1>5. ASSUME NEW i \in Login, Redirect(i) PROVE PortHeld'
  BY <1>4, <1>5, LoginParts DEF Redirect, TypeOK, Opening
<1>6. ASSUME NEW k \in Completer, LoginStep(k) PROVE PortHeld'
  <2>1. CASE Complete(k)
    <3>1. CASE UNCHANGED login
      BY <1>4, <2>1, <3>1 DEF Complete
    <3>2. ASSUME NEW c, login' = [login EXCEPT ![pending].code = c]
          PROVE  \A j \in Login : login'[j].pc = login[j].pc
      BY <3>2, LoginParts DEF TypeOK, Opening
    <3>3. CASE \E c : login' = [login EXCEPT ![pending].code = c]
      BY <1>4, <2>1, <3>2, <3>3 DEF Complete
    <3> QED
      BY <2>1, <3>1, <3>3 DEF Complete
  <2>2. CASE GetCode(k) \/ WaitNoLonger(k) \/ CodeRefused(k)
    BY <1>4, <2>2 DEF GetCode, WaitNoLonger, CodeRefused
  <2>3. CASE ExchangeCode(k)
    BY <1>4, <2>3, LoginParts DEF ExchangeCode, TypeOK, Opening
  <2>4. CASE Connect(k)
    BY <2>4 DEF Connect, PortHeld, PortClosed
  <2> QED
    BY <1>6, <2>1, <2>2, <2>3, <2>4 DEF LoginStep
<1> QED
  BY <1>1, <1>2, <1>3, <1>5, <1>6
  DEF Next, vars, others, Build, RefreshStep, Exchange, ExchangeFails, Adopt, AdoptEnv, Persist,
      Break, Die, Ask, AskOther, Respond, GiveUp, Request, Fulfil, Expire

LEMMA PortServes == PortHeld => RedirectIsServed
BY DEF PortHeld, RedirectIsServed

-----------------------------------------------------------------------------
(* The tokens.                                                             *)
LEMMA Types ==
  TypeOK => /\ ad \in [Session -> Adapter] /\ call \in [Call -> CallState]
            /\ own \in [Owner -> Errand] /\ comp \in [Completer -> Completing]
            /\ file \in Record /\ base \in [Writer -> Record]
            /\ Session \subseteq Writer /\ Owner \subseteq Writer /\ Completer \subseteq Writer
BY AccessParts, LoginParts, AccessAssumption DEF TypeOK, StoreTypeOK

LEMMA Numbers ==
  TypeOK => /\ issued \in Nat /\ live \subseteq 1 .. issued /\ file.ref \in Nat
            /\ \A w \in Writer : base[w].ref \in Nat
            /\ \A s \in Session : ad[s].ref \in Nat /\ ad[s].shown \in Nat /\ ad[s].got \in Nat
            /\ \A o \in Owner : own[o].n \in Nat
            /\ \A k \in Completer : comp[k].got \in Nat
<1> SUFFICES ASSUME TypeOK
    PROVE  /\ issued \in Nat /\ live \subseteq 1 .. issued /\ file.ref \in Nat
           /\ \A w \in Writer : base[w].ref \in Nat
           /\ \A s \in Session : ad[s].ref \in Nat /\ ad[s].shown \in Nat /\ ad[s].got \in Nat
           /\ \A o \in Owner : own[o].n \in Nat
           /\ \A k \in Completer : comp[k].got \in Nat
  OBVIOUS
<1>1. Pair \subseteq Nat
  BY StoreAssumption DEF Pair
<1>2. issued \in Nat /\ live \subseteq 1 .. issued
  BY StoreAssumption, LoginAssumption DEF TypeOK, TokenTypeOK
<1>3. file.ref \in Nat /\ \A w \in Writer : base[w].ref \in Nat
  BY <1>1, Types DEF Record
<1>4. \A s \in Session : ad[s].ref \in Nat /\ ad[s].shown \in Nat /\ ad[s].got \in Nat
  BY <1>1, Types DEF Adapter
<1>5. /\ \A o \in Owner : own[o].n \in Nat
      /\ \A k \in Completer : comp[k].got \in Nat
  BY <1>1, Types DEF Errand, Completing
<1> QED
  BY <1>2, <1>3, <1>4, <1>5

LEMMA TokensInit == Init => Issued /\ Secrets
<1> SUFFICES ASSUME Init PROVE Issued /\ Secrets
  OBVIOUS
<1>1. TypeOK
  BY TypeInit
<1>2. Issued
  BY Nothing, <1>1, Types
  DEF Init, StoreInit, TokenInit, LoginInit, Issued, NoRequest
<1>3. Secrets
  BY DEF Init, LoginInit, Secrets, Received, Bears, Redeemed, NoRequest
<1> QED
  BY <1>2, <1>3

LEMMA TokensStep == TypeOK /\ Issued /\ Secrets /\ [Next]_vars => Issued' /\ Secrets'
<1> SUFFICES ASSUME TypeOK, Issued, Secrets, [Next]_vars PROVE Issued' /\ Secrets'
  OBVIOUS
<1>a. ad \in [Session -> Adapter] /\ file \in Record /\ own \in [Owner -> Errand]
      /\ comp \in [Completer -> Completing] /\ call \in [Call -> CallState] /\ StoreTypeOK
      /\ TokenTypeOK /\ base \in [Writer -> Record]
      /\ Session \subseteq Writer /\ Owner \subseteq Writer /\ Completer \subseteq Writer
  BY Types DEF TypeOK
<1> USE Numbers
<1>1. CASE UNCHANGED <<issued, live, storeVars, ad, own, comp>>
  BY <1>1 DEF storeVars, Issued, Secrets, Unseen, Received, Bears, Redeemed
(* A session that gets rid of its secret, or has none, knows only what it  *)
(* knew.                                                                   *)
<1>2. ASSUME NEW s \in Session, Only(s), UNCHANGED <<issued, live, own, comp>>,
             ad'[s].pc \notin {"replied", "store"}, ad'[s].shown \in {0, ad[s].shown, ad[s].ref},
             ad'[s].shown = ad[s].ref => ~Received(s),
             ad'[s].got \in {0, ad[s].got}, UNCHANGED storeVars,
             ad'[s].ref \in {0, 1, ad[s].ref, file.ref} \cup (IF Received(s) THEN {ad[s].got} ELSE {})
      PROVE  Issued' /\ Secrets'
  <2>1. Issued'
    BY <1>2 DEF Issued, Only, storeVars
  <2>2. Secrets'
    BY <1>2 DEF Issued, Only, storeVars, Secrets, Unseen, Received, Bears, Redeemed
  <2> QED
    BY <2>1, <2>2
(* A login that gets rid of its secret, or has none. *)
<1>3. ASSUME NEW k \in Completer, \A r \in Completer \ {k} : comp'[r] = comp[r],
             UNCHANGED <<issued, live, ad, own, storeVars>>,
             comp'[k].pc # "store", comp'[k].got \in {0, comp[k].got}
      PROVE  Issued' /\ Secrets'
  BY <1>3 DEF Issued, storeVars, Secrets, Unseen, Received, Bears, Redeemed
<1>4. ASSUME NEW s \in Session, RefreshStep(s) PROVE Issued' /\ Secrets'
  <2>1. CASE Exchange(s)
    <3>1. NewPair \in Pair /\ NewPair = issued + 1
      BY <2>1, <1>a, TokenBound DEF Exchange, Rotate, NewPair
    <3>2. /\ Only(s) /\ ad'[s].pc = "replied" /\ ad'[s].got = NewPair
          /\ ad'[s].ref = ad[s].ref /\ ad'[s].shown = ad[s].shown
      BY <2>1, <3>1, <1>a, ExchangeSets
    <3>3. /\ issued' = issued + 1 /\ live' = (live \ {ad[s].shown}) \cup {NewPair}
          /\ UNCHANGED <<file, base, own, comp>>
      BY <2>1, <3>1 DEF Exchange, Rotate, storeVars, loginVars
    <3>4. Issued'
      BY <3>1, <3>2, <3>3 DEF Issued, Only
    <3>5. Secrets'
      BY <3>1, <3>2, <3>3 DEF Issued, Only, Secrets, Unseen, Received, Bears, Redeemed
    <3> QED
      BY <3>4, <3>5
  <2>2. CASE ExchangeFails(s)
    <3>1. Settle(s, ad[s].acc, ad[s].ref) /\ ad[s].acc \in Pair /\ ad[s].ref \in Pair
      BY <2>2, <1>a DEF ExchangeFails, Adapter
    <3>2. Only(s) /\ ad'[s].pc = "ready" /\ ad'[s].ref = ad[s].ref /\ ad'[s].shown = 0
          /\ ad'[s].got = 0
      BY <3>1, <1>a, SettleSets
    <3>3. Issued'
      BY <2>2, <3>2 DEF ExchangeFails, others, tokenVars, loginVars, storeVars, Issued, Only
    <3>4. Secrets'
      BY <2>2, <3>2 DEF ExchangeFails, others, tokenVars, loginVars, storeVars, Issued, Only,
                        Secrets, Unseen, Received, Bears, Redeemed
    <3> QED
      BY <3>3, <3>4
  <2>3. CASE Adopt(s)
    <3>1. /\ Only(s) /\ ad'[s].pc = "store" /\ ad'[s].got = ad[s].got
          /\ ad'[s].ref = ad[s].got /\ ad'[s].shown = ad[s].shown
      BY <2>3, <1>a, AdoptSets
    <3>2. /\ ad[s].pc = "replied" /\ UNCHANGED <<issued, live, own, comp>> /\ s \in Writer
          /\ Load(s)
      BY <2>3, <1>a DEF Adopt, others, tokenVars, loginVars
    <3>3. file' = file /\ \A v \in Writer : base'[v].ref \in {base[v].ref, file.ref}
      BY <3>2, <1>a, LoadSets
    <3>4. Issued'
      BY <3>1, <3>2, <3>3 DEF Issued, Only
    <3>5. Secrets'
      BY <3>1, <3>2, <3>3 DEF Issued, Only, Secrets, Unseen, Received, Bears, Redeemed
    <3> QED
      BY <3>4, <3>5
  <2>4. CASE AdoptEnv(s)
    <3>1. Settle(s, ad[s].got, ad[s].got) /\ ad[s].got \in Pair /\ Received(s)
      BY <2>4, <1>a DEF AdoptEnv, Adapter, Received
    <3>2. Only(s) /\ ad'[s].pc = "ready" /\ ad'[s].ref = ad[s].got /\ ad'[s].shown = 0
          /\ ad'[s].got = 0
      BY <3>1, <1>a, SettleSets
    <3>3. Issued'
      BY <2>4, <3>1, <3>2 DEF AdoptEnv, others, tokenVars, loginVars, storeVars, Issued, Only
    <3>4. Secrets'
      BY <2>4, <3>1, <3>2 DEF AdoptEnv, others, tokenVars, loginVars, storeVars, Issued, Only,
                              Secrets, Unseen, Received, Bears, Redeemed
    <3> QED
      BY <3>3, <3>4
  <2>5. CASE Persist(s)
    <3>1. /\ Settle(s, ad[s].acc, ad[s].ref) /\ ad[s].acc \in Pair /\ ad[s].ref \in Pair
          /\ ad[s].got \in Pair /\ Received(s) /\ s \in Writer /\ Save(s, "pair", ad[s].got)
          /\ UNCHANGED <<issued, live, own, comp>> /\ "pair" \in Change
      BY <2>5, <1>a DEF Persist, Adapter, Received, others, tokenVars, loginVars, Change
    <3>2. /\ Only(s) /\ ad'[s].pc = "ready" /\ ad'[s].ref = ad[s].ref
          /\ ad'[s].shown = 0 /\ ad'[s].got = 0
      BY <3>1, <1>a, SettleSets
    <3>3. file'.ref = ad[s].got /\ \A v \in Writer : base'[v].ref \in {base[v].ref, 0}
      BY <3>1, <1>a, SaveSets
    <3>4. Issued'
      BY <3>1, <3>2, <3>3 DEF Issued, Only
    <3>5. Secrets'
      BY <3>1, <3>2, <3>3 DEF Issued, Only, Secrets, Unseen, Received, Bears, Redeemed
    <3> QED
      BY <3>4, <3>5
  <2> QED
    BY <1>4, <2>1, <2>2, <2>3, <2>4, <2>5 DEF RefreshStep
<1>5. ASSUME NEW s \in Session, Build(s) \/ Break(s) \/ Die(s) PROVE Issued' /\ Secrets'
  <2>1. CASE Build(s)
    <3>1. EnvPair \in {0, 1} /\ ad[s].pc = "none"
      BY <2>1, AccessAssumption DEF Build
    <3>2. Only(s) /\ ad'[s].pc = "ready" /\ ad'[s].ref \in {0, 1, file.ref}
          /\ ad'[s].shown = 0 /\ ad'[s].got = 0
      BY <2>1, <3>1, <1>a, BuildSets
    <3>3. Issued'
      BY <2>1, <3>2 DEF Build, others, tokenVars, loginVars, storeVars, Issued, Only
    <3>4. Secrets'
      BY <2>1, <3>2 DEF Build, others, tokenVars, loginVars, storeVars, Issued, Only, Secrets,
                        Unseen, Received, Bears, Redeemed
    <3> QED
      BY <3>3, <3>4
  <2>2. CASE Break(s)
    <3>1. Settle(s, ad[s].acc, ad[s].ref) /\ ad[s].acc \in Pair /\ ad[s].ref \in Pair
      BY <2>2, <1>a DEF Break, Adapter
    <3>2. Only(s) /\ ad'[s].pc = "ready" /\ ad'[s].ref = ad[s].ref /\ ad'[s].shown = 0
          /\ ad'[s].got = 0
      BY <3>1, <1>a, SettleSets
    <3>3. Issued'
      BY <2>2, <3>2 DEF Break, others, tokenVars, loginVars, storeVars, Issued, Only
    <3>4. Secrets'
      BY <2>2, <3>2 DEF Break, others, tokenVars, loginVars, storeVars, Issued, Only, Secrets,
                        Unseen, Received, Bears, Redeemed
    <3> QED
      BY <3>3, <3>4
  <2>3. CASE Die(s)
    <3>1. Only(s) /\ ad'[s].pc = "dead" /\ ad'[s].got = 0 /\ ad'[s].ref = 0 /\ ad'[s].shown = 0
      BY <2>3, <1>a, DieSets
    <3>2. Issued'
      BY <2>3, <3>1 DEF Die, others, tokenVars, loginVars, storeVars, Issued, Only
    <3>3. Secrets'
      BY <2>3, <3>1 DEF Die, others, tokenVars, loginVars, storeVars, Issued, Only, Secrets,
                        Unseen, Received, Bears, Redeemed
    <3> QED
      BY <3>2, <3>3
  <2> QED
    BY <1>5, <2>1, <2>2, <2>3
<1>6. ASSUME NEW c \in Call, Ask(c) \/ AskOther(c) \/ Respond(c) \/ GiveUp(c)
      PROVE  Issued' /\ Secrets'
  <2>1. UNCHANGED <<issued, live, storeVars, own, comp>>
    BY <1>6 DEF Ask, AskOther, Respond, GiveUp, others, tokenVars, loginVars
  <2>2. CASE ad' = ad
    BY <1>1, <2>1, <2>2
  <2>3. CASE Ask(c) /\ ad' # ad
    <3> DEFINE s == SessionOf[c]
    <3>1. s \in Session /\ SessionOf \in [Call -> Session]
      BY AccessAssumption
    <3>2. /\ Only(s) /\ ad[s].pc = "ready" /\ ad'[s].pc = "asked" /\ ad'[s].shown = ad[s].ref
          /\ ad'[s].ref = ad[s].ref /\ ad'[s].got = ad[s].got
      BY <2>3, <3>1, <1>a, AskSets
    <3> QED
      BY <1>2, <2>1, <3>1, <3>2 DEF Received
  <2> QED
    BY <1>6, <2>2, <2>3 DEF AskOther, Respond, GiveUp
<1>7. ASSUME NEW o \in Owner, Request(o) PROVE Issued' /\ Secrets'
  <2>1. PICK change \in Change :
          /\ own' = [own EXCEPT ![o] = [pc |-> "store", change |-> change,
                       n |-> IF change \in {"pair", "access"} THEN NewPair ELSE 0]]
          /\ IF change \in {"pair", "access"} THEN Issue ELSE UNCHANGED tokenVars
    BY <1>7 DEF Request
  <2>2. /\ own'[o].change = change /\ \A r \in Owner \ {o} : own'[r] = own[r]
        /\ own'[o].n = IF change \in {"pair", "access"} THEN NewPair ELSE 0
    BY <2>1, <1>a
  <2>3. file' = file /\ \A v \in Writer : base'[v].ref \in {base[v].ref, file.ref}
    BY <1>7, <1>a, LoadSets DEF Request
  <2>4. UNCHANGED <<ad, comp>>
    BY <1>7 DEF Request, loginVars
  <2>5. CASE change \in {"pair", "access"}
    <3>1. issued' = issued + 1 /\ live' = live \cup {NewPair} /\ NewPair = issued + 1
      BY <2>1, <2>5, <1>a, IssueSets DEF NewPair
    <3>2. Issued'
      BY <2>2, <2>3, <2>4, <2>5, <3>1 DEF Issued
    <3>3. Secrets'
      BY <2>2, <2>3, <2>4, <2>5, <3>1 DEF Issued, Secrets, Unseen, Received, Bears, Redeemed
    <3> QED
      BY <3>2, <3>3
  <2>6. CASE change \notin {"pair", "access"}
    <3>1. UNCHANGED <<issued, live>>
      BY <2>1, <2>6 DEF tokenVars
    <3>2. Issued'
      BY <2>2, <2>3, <2>4, <2>6, <3>1 DEF Issued
    <3>3. Secrets'
      BY <2>2, <2>3, <2>4, <2>6, <3>1 DEF Issued, Secrets, Unseen, Received, Bears, Redeemed
    <3> QED
      BY <3>2, <3>3
  <2> QED
    BY <2>5, <2>6
<1>8. ASSUME NEW o \in Owner, Fulfil(o) PROVE Issued' /\ Secrets'
  <2>1. /\ own[o].pc = "store" /\ own[o].change \in Change /\ own[o].n \in Pair /\ o \in Writer
        /\ Save(o, own[o].change, own[o].n) /\ UNCHANGED <<issued, live, ad, comp>>
    BY <1>8, <1>a DEF Fulfil, Errand, others, tokenVars, loginVars
  <2>2. /\ own'[o].pc = "idle" /\ own'[o].n = 0 /\ \A r \in Owner \ {o} : own'[r] = own[r]
    BY <1>8, <1>a DEF Fulfil, NoRequest
  <2>3. /\ \A v \in Writer : base'[v].ref \in {base[v].ref, 0}
        /\ \/ Bears(o) /\ file'.ref = own[o].n
           \/ file'.ref \in {0, base[o].ref}
    BY <2>1, <1>a, SaveSets DEF Bears
  <2>4. Issued'
    BY <2>1, <2>2, <2>3 DEF Issued
  <2>5. Secrets'
    BY <2>1, <2>2, <2>3 DEF Issued, Secrets, Unseen, Received, Bears, Redeemed
  <2> QED
    BY <2>4, <2>5
<1>9. ASSUME NEW k \in Completer, LoginStep(k), UNCHANGED accessVars PROVE Issued' /\ Secrets'
  <2>0. UNCHANGED <<ad, own>> /\ k \in Writer
    BY <1>9, <1>a DEF accessVars
  <2>1. CASE Complete(k)
    <3>1. /\ \A r \in Completer \ {k} : comp'[r] = comp[r]
          /\ comp'[k].pc # "store" /\ comp'[k].got \in {0, comp[k].got}
      <4>1. CASE Answer(k, "thrown")
        BY <1>a, <4>1 DEF Answer
      <4>2. ASSUME NEW pc \in {"wait", "unfinished", "exchange"},
                   comp' = [comp EXCEPT ![k].of = pending, ![k].pc = pc]
            PROVE  /\ \A r \in Completer \ {k} : comp'[r] = comp[r]
                   /\ comp'[k].pc # "store" /\ comp'[k].got \in {0, comp[k].got}
        BY <1>a, <4>2 DEF Completing
      <4> QED
        BY <2>1, <4>1, <4>2 DEF Complete
    <3> QED
      BY <1>3, <2>0, <2>1, <3>1 DEF Complete, tokenVars
  <2>2. CASE GetCode(k) \/ WaitNoLonger(k) \/ CodeRefused(k)
    <3>1. /\ \A r \in Completer \ {k} : comp'[r] = comp[r]
          /\ comp'[k].pc # "store" /\ comp'[k].got \in {0, comp[k].got}
      BY <2>2, <1>a DEF GetCode, WaitNoLonger, CodeRefused, CompGoto, Answer, Completing
    <3> QED
      BY <1>3, <2>0, <2>2, <3>1 DEF GetCode, WaitNoLonger, CodeRefused, tokenVars
  <2>3. CASE ExchangeCode(k)
    <3>1. issued' = issued + 1 /\ live' = live \cup {NewPair} /\ NewPair = issued + 1
      BY <2>3, <1>a, IssueSets DEF ExchangeCode, NewPair
    <3>2. file' = file /\ \A v \in Writer : base'[v].ref \in {base[v].ref, file.ref}
      BY <2>0, <2>3, <1>a, LoadSets DEF ExchangeCode
    <3>3. /\ \A r \in Completer \ {k} : comp'[r] = comp[r]
          /\ comp'[k].pc = "store" /\ comp'[k].got = NewPair
      BY <2>3, <1>a DEF ExchangeCode, Completing
    <3>4. Issued'
      BY <2>0, <3>1, <3>2, <3>3 DEF Issued
    <3>5. Secrets'
      BY <2>0, <3>1, <3>2, <3>3 DEF Issued, Secrets, Unseen, Received, Bears, Redeemed
    <3> QED
      BY <3>4, <3>5
  <2>4. CASE Connect(k)
    <3>1. /\ Redeemed(k) /\ comp[k].got \in Pair /\ Save(k, "pair", comp[k].got)
          /\ UNCHANGED <<issued, live>> /\ "pair" \in Change
      BY <2>4, <1>a DEF Connect, Redeemed, Completing, tokenVars, Change
    <3>2. file'.ref = comp[k].got /\ \A v \in Writer : base'[v].ref \in {base[v].ref, 0}
      BY <2>0, <3>1, <1>a, SaveSets
    <3>3. /\ \A r \in Completer \ {k} : comp'[r] = comp[r]
          /\ comp'[k].pc = "connected" /\ comp'[k].got = 0
      BY <2>4, <1>a DEF Connect, Answer
    <3>4. Issued'
      BY <2>0, <3>1, <3>2, <3>3 DEF Issued
    <3>5. Secrets'
      BY <2>0, <3>1, <3>2, <3>3 DEF Issued, Secrets, Unseen, Received, Bears, Redeemed
    <3> QED
      BY <3>4, <3>5
  <2> QED
    BY <1>9, <2>1, <2>2, <2>3, <2>4 DEF LoginStep
<1>10. ASSUME NEW i \in Login, (Authorize(i) \/ Authorized(i) \/ Redirect(i)) /\ UNCHANGED accessVars
       PROVE  Issued' /\ Secrets'
  BY <1>1, <1>10 DEF Authorize, Authorized, Redirect, accessVars, tokenVars
<1>11. ASSUME NEW t \in Pair, Expire(t) PROVE Issued' /\ Secrets'
  BY <1>1, <1>11 DEF Expire, accessVars, loginVars
<1>12. CASE UNCHANGED vars
  BY <1>1, <1>12 DEF vars, tokenVars, loginVars, accessVars
<1> QED
  BY <1>4, <1>5, <1>6, <1>7, <1>8, <1>9, <1>10, <1>11, <1>12 DEF Next

-----------------------------------------------------------------------------
(* The credential.                                                         *)
LEMMA SurvivesInit == Init => CredentialSurvives
BY DEF Init, StoreInit, TokenInit, CredentialSurvives, Absent

LEMMA SurvivesStep ==
  TypeOK /\ Issued /\ Secrets /\ CredentialSurvives /\ [Next]_vars => CredentialSurvives'
<1> SUFFICES ASSUME TypeOK, Issued, Secrets, CredentialSurvives, [Next]_vars
             PROVE  CredentialSurvives'
  OBVIOUS
<1>a. ad \in [Session -> Adapter] /\ file \in Record /\ own \in [Owner -> Errand]
      /\ comp \in [Completer -> Completing] /\ call \in [Call -> CallState] /\ StoreTypeOK
      /\ TokenTypeOK /\ base \in [Writer -> Record]
      /\ Session \subseteq Writer /\ Owner \subseteq Writer /\ Completer \subseteq Writer
  BY Types DEF TypeOK
(* The same token is on file, and whoever is exchanging it still is, or    *)
(* gave it up.                                                             *)
<1>1. ASSUME file'.ref = file.ref, live \subseteq live', orphaned \subseteq orphaned',
             crossed \subseteq crossed',
             \A s \in Session : Received(s) =>
               \/ Received(s)' /\ ad'[s].shown = ad[s].shown
               \/ ad[s].shown \in orphaned'
      PROVE  CredentialSurvives'
  BY <1>1 DEF CredentialSurvives, Received
(* A token was written nobody has seen, or one that was written before. *)
<1>2. ASSUME file'.ref \in live' \cup {0} \cup crossed' PROVE CredentialSurvives'
  BY <1>2 DEF CredentialSurvives
<1>3. ASSUME UNCHANGED <<storeVars, ad, orphaned>>, live \subseteq live'
      PROVE  CredentialSurvives'
  BY <1>1, <1>3 DEF storeVars, Received
<1>4. ASSUME NEW s \in Session, RefreshStep(s) PROVE CredentialSurvives'
  <2>1. CASE Exchange(s)
    <3>1. Only(s) /\ ad'[s].pc = "replied" /\ ad'[s].shown = ad[s].shown
      <4>1. NewPair \in Pair
        BY <2>1, <1>a, TokenBound DEF Exchange, Rotate, NewPair
      <4> QED
        BY <2>1, <4>1, <1>a, ExchangeSets
    <3>2. /\ live' = (live \ {ad[s].shown}) \cup {NewPair}
          /\ UNCHANGED <<file, crossed, orphaned>> /\ ad[s].pc = "asked"
      BY <2>1 DEF Exchange, Rotate, storeVars, accessVars
    <3>3. CASE file.ref = ad[s].shown
      BY <3>1, <3>2, <3>3 DEF CredentialSurvives
    <3>4. CASE file.ref # ad[s].shown
      BY <3>1, <3>2, <3>4 DEF CredentialSurvives, Only
    <3> QED
      BY <3>3, <3>4
  <2>2. CASE ExchangeFails(s)
    <3>1. Settle(s, ad[s].acc, ad[s].ref) /\ ad[s].acc \in Pair /\ ad[s].ref \in Pair
      BY <2>2, <1>a DEF ExchangeFails, Adapter
    <3>2. Only(s) /\ ~Received(s)
      BY <2>2, <3>1, <1>a, SettleSets DEF ExchangeFails, Received
    <3> QED
      BY <1>1, <2>2, <3>2 DEF ExchangeFails, others, tokenVars, storeVars, Only, Received
  <2>3. CASE Adopt(s)
    <3>1. Only(s) /\ ad'[s].pc = "store" /\ ad'[s].shown = ad[s].shown
      BY <2>3, <1>a, AdoptSets
    <3>2. file' = file /\ crossed' = crossed /\ UNCHANGED <<live, orphaned>>
      BY <2>3, <1>a, LoadSets DEF Adopt, others, tokenVars
    <3> QED
      BY <1>1, <3>1, <3>2 DEF Only, Received
  <2>4. CASE AdoptEnv(s)
    <3>1. Settle(s, ad[s].got, ad[s].got) /\ ad[s].got \in Pair
      BY <2>4, <1>a DEF AdoptEnv, Adapter
    <3>2. Only(s)
      BY <3>1, <1>a, SettleSets
    <3> QED
      BY <1>1, <2>4, <3>2 DEF AdoptEnv, others, tokenVars, storeVars, Only, Received
  <2>5. CASE Persist(s)
    <3>1. /\ Received(s) /\ ad[s].got \in Pair /\ s \in Writer /\ Save(s, "pair", ad[s].got)
          /\ "pair" \in Change /\ live' = live
      BY <2>5, <1>a DEF Persist, Adapter, Received, others, tokenVars, Change
    <3>2. file'.ref = ad[s].got
      BY <3>1, <1>a, SaveSets
    <3> QED
      BY <1>2, <3>1, <3>2 DEF Secrets, Unseen
  <2> QED
    BY <1>4, <2>1, <2>2, <2>3, <2>4, <2>5 DEF RefreshStep
<1>5. ASSUME NEW s \in Session, Build(s) \/ Break(s) \/ Die(s) PROVE CredentialSurvives'
  <2>1. CASE Build(s)
    <3>1. Only(s) /\ ~Received(s)
      BY <2>1, <1>a, BuildSets DEF Build, Received
    <3> QED
      BY <1>1, <2>1, <3>1 DEF Build, others, tokenVars, storeVars, Only, Received
  <2>2. CASE Break(s)
    <3>1. Settle(s, ad[s].acc, ad[s].ref) /\ ad[s].acc \in Pair /\ ad[s].ref \in Pair
      BY <2>2, <1>a DEF Break, Adapter
    <3>2. Only(s)
      BY <3>1, <1>a, SettleSets
    <3> QED
      BY <1>1, <2>2, <3>2 DEF Break, others, tokenVars, storeVars, Only, Received
  <2>3. CASE Die(s)
    <3>1. Only(s)
      BY <2>3, <1>a, DieSets
    <3> QED
      BY <1>1, <2>3, <3>1 DEF Die, others, tokenVars, storeVars, Only, Received
  <2> QED
    BY <1>5, <2>1, <2>2, <2>3
<1>6. ASSUME NEW c \in Call, Ask(c) \/ AskOther(c) \/ Respond(c) \/ GiveUp(c)
      PROVE  CredentialSurvives'
  <2>1. UNCHANGED <<storeVars, live, orphaned>>
    BY <1>6 DEF Ask, AskOther, Respond, GiveUp, others, tokenVars
  <2>2. CASE ad' = ad
    BY <1>3, <2>1, <2>2
  <2>3. CASE Ask(c) /\ ad' # ad
    <3> DEFINE s == SessionOf[c]
    <3>1. s \in Session /\ SessionOf \in [Call -> Session]
      BY AccessAssumption
    <3>2. Only(s) /\ ad[s].pc = "ready"
      BY <2>3, <3>1, <1>a, AskSets
    <3> QED
      BY <1>1, <2>1, <3>1, <3>2 DEF storeVars, Only, Received
  <2> QED
    BY <1>6, <2>2, <2>3 DEF AskOther, Respond, GiveUp
<1>7. ASSUME NEW o \in Owner, Request(o) PROVE CredentialSurvives'
  <2>1. file' = file /\ crossed' = crossed /\ UNCHANGED <<ad, orphaned>>
    BY <1>7, <1>a, LoadSets DEF Request
  <2>2. live \subseteq live'
    BY <1>7 DEF Request, Issue, tokenVars
  <2> QED
    BY <1>1, <2>1, <2>2 DEF Received
<1>8. ASSUME NEW o \in Owner, Fulfil(o) PROVE CredentialSurvives'
  <2>1. /\ own[o].pc = "store" /\ own[o].change \in Change /\ own[o].n \in Pair /\ o \in Writer
        /\ Save(o, own[o].change, own[o].n) /\ UNCHANGED <<live, ad, orphaned>>
    BY <1>8, <1>a DEF Fulfil, Errand, others, tokenVars
  <2>2. /\ crossed \subseteq crossed'
        /\ \/ Bears(o) /\ file'.ref = own[o].n
           \/ file'.ref = 0
           \/ file'.ref = base[o].ref /\ (base[o] = file \/ base[o].ref \in crossed')
    BY <2>1, <1>a, SaveSets DEF Bears
  <2>3. CASE Bears(o) /\ file'.ref = own[o].n
    BY <1>2, <2>1, <2>3 DEF Secrets, Unseen
  <2>4. CASE file'.ref = 0 \/ file'.ref \in crossed'
    BY <1>2, <2>4
  <2>5. CASE file'.ref = file.ref
    BY <1>1, <2>1, <2>2, <2>5 DEF Received
  <2> QED
    BY <2>2, <2>3, <2>4, <2>5
<1>9. ASSUME NEW k \in Completer, LoginStep(k), UNCHANGED accessVars PROVE CredentialSurvives'
  <2>1. UNCHANGED <<ad, orphaned>> /\ k \in Writer
    BY <1>9, <1>a DEF accessVars
  <2>2. CASE Complete(k) \/ GetCode(k) \/ WaitNoLonger(k) \/ CodeRefused(k)
    BY <1>3, <2>1, <2>2 DEF Complete, GetCode, WaitNoLonger, CodeRefused, tokenVars
  <2>3. CASE ExchangeCode(k)
    <3>1. file' = file /\ crossed' = crossed /\ live \subseteq live'
      BY <2>1, <2>3, <1>a, LoadSets DEF ExchangeCode, Issue
    <3> QED
      BY <1>1, <2>1, <3>1 DEF Received
  <2>4. CASE Connect(k)
    <3>1. /\ Redeemed(k) /\ comp[k].got \in Pair /\ Save(k, "pair", comp[k].got)
          /\ live' = live /\ "pair" \in Change
      BY <2>4, <1>a DEF Connect, Redeemed, Completing, tokenVars, Change
    <3>2. file'.ref = comp[k].got
      BY <2>1, <3>1, <1>a, SaveSets
    <3> QED
      BY <1>2, <3>1, <3>2 DEF Secrets, Unseen
  <2> QED
    BY <1>9, <2>2, <2>3, <2>4 DEF LoginStep
<1>10. ASSUME NEW i \in Login, (Authorize(i) \/ Authorized(i) \/ Redirect(i)) /\ UNCHANGED accessVars
       PROVE  CredentialSurvives'
  BY <1>3, <1>10 DEF Authorize, Authorized, Redirect, accessVars, tokenVars
<1>11. ASSUME NEW t \in Pair, Expire(t) PROVE CredentialSurvives'
  BY <1>3, <1>11 DEF Expire, accessVars
<1>12. CASE UNCHANGED vars
  BY <1>3, <1>12 DEF vars, tokenVars, accessVars
<1> QED
  BY <1>4, <1>5, <1>6, <1>7, <1>8, <1>9, <1>10, <1>11, <1>12 DEF Next

-----------------------------------------------------------------------------
(* Every value the state can take is of its type: a token that was never   *)
(* issued is nowhere, and a call that waits for a refresh waits for one    *)
(* that is under way.                                                      *)
THEOREM TypeCorrect == Spec => []TypeOK
<1>1. Init => TypeOK
  BY TypeInit
<1>2. TypeOK /\ [Next]_vars => TypeOK'
  BY TypeStep
<1> QED
  BY <1>1, <1>2, PTL DEF Spec

(* Unless two authorizations were opened at a time, the port of the        *)
(* redirect belongs to the one that can be completed, for any number of    *)
(* authorizations and of requests that complete them.                      *)
THEOREM RedirectServed == Spec => []RedirectIsServed
<1>1. Init => TypeOK /\ PortHeld
  BY TypeInit, PortInit
<1>2. TypeOK /\ PortHeld /\ [Next]_vars => (TypeOK /\ PortHeld)'
  BY TypeStep, PortStep
<1>3. PortHeld => RedirectIsServed
  BY PortServes
<1> QED
  BY <1>1, <1>2, <1>3, PTL DEF Spec

(* The refresh token on file stays good through any overlap of refreshes,  *)
(* logins and changes of credentials, but for the named ways to lose it.   *)
THEOREM CredentialKept == Spec => []CredentialSurvives
<1> DEFINE IInv == TypeOK /\ Issued /\ Secrets /\ CredentialSurvives
<1>1. Init => IInv
  BY TypeInit, TokensInit, SurvivesInit
<1>2. IInv /\ [Next]_vars => IInv'
  BY TypeStep, TokensStep, SurvivesStep
<1>3. IInv => CredentialSurvives
  OBVIOUS
<1> QED
  BY <1>1, <1>2, <1>3, PTL DEF Spec
=============================================================================
