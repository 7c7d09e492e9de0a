----------------------------- MODULE OAuthLogin -----------------------------
(***************************************************************************)
(* The login to a ChatGPT account: a request opens a server for the        *)
(* browser's redirect and keeps the authorization in one variable of the   *)
(* process; a second request waits for the code, exchanges it and stores   *)
(* the tokens.  Requests overlap, and the owner may begin anew at any      *)
(* time or paste the address the browser ended at.                         *)
(***************************************************************************)
EXTENDS CredentialStore, TokenServer

CONSTANTS
  Completer,  \* the requests that complete an authorization
  MaxLogins   \* bound on the authorizations begun

ASSUME LoginAssumption ==
  MaxLogins \in Nat /\ Completer \subseteq Writer /\ MaxIssued = MaxPairs

Login == 1 .. MaxLogins
NoLogin == 0

VARIABLES
  login,    \* authorization -> how far it is, and the code it has
  pending,  \* pendingCodexOAuth
  port,     \* the authorization whose server listens for the redirect
  comp,     \* completing request -> its local state
  clashed   \* history: two authorizations were opened at a time

loginVars == <<login, pending, port, comp, clashed>>

LoginTypeOK ==
  /\ login \in [Login -> [pc : {"unused", "binding", "begun"}, ready : BOOLEAN,
                          code : {"none", "own", "foreign", "spent"}]]
  /\ pending \in Login \cup {NoLogin} /\ port \in Login \cup {NoLogin}
  /\ comp \in [Completer -> [pc : {"idle", "wait", "exchange", "store", "connected",
                                   "unfinished", "thrown"},
                             of : Login \cup {NoLogin}, got : Pair]]
  /\ clashed \in BOOLEAN

LoginInit ==
  /\ login = [i \in Login |-> [pc |-> "unused", ready |-> FALSE, code |-> "none"]]
  /\ pending = NoLogin /\ port = NoLogin
  /\ comp = [k \in Completer |-> [pc |-> "idle", of |-> NoLogin, got |-> 0]]
  /\ clashed = FALSE

CompGoto(k, pc) == comp' = [comp EXCEPT ![k].pc = pc]
Answer(k, pc) == comp' = [comp EXCEPT ![k] = [pc |-> pc, of |-> NoLogin, got |-> 0]]

(* Seeded fault: the authorization is forgotten before its server is       *)
(* closed.                                                                 *)
PortForgotten == port

(* closePendingServer(): closes the server of the authorization that is    *)
(* pending, whoever asks.                                                  *)
PortClosed == IF port = pending THEN NoLogin ELSE port

(* authorizeOpenAICodexOAuth(), up to the awaited bind, which fails while  *)
(* another server has the port.                                            *)
Authorize(i) ==
  /\ login[i].pc = "unused"
  /\ pending' = NoLogin
  /\ port' = IF PortClosed = NoLogin THEN i ELSE PortClosed
  /\ login' = [login EXCEPT ![i].pc = "binding", ![i].ready = PortClosed = NoLogin]
  /\ clashed' = (clashed \/ \E j \in Login : login[j].pc = "binding")
  /\ UNCHANGED <<storeVars, tokenVars, comp>>

Authorized(i) ==
  /\ login[i].pc = "binding"
  /\ pending' = i
  /\ login' = [login EXCEPT ![i].pc = "begun"]
  /\ UNCHANGED <<storeVars, tokenVars, port, comp, clashed>>

(* The browser is redirected with the state of an authorization: whichever *)
(* server listens compares it with the pending one.                        *)
Redirect(i) ==
  /\ login[i].pc = "begun" /\ login[i].code # "spent"
  /\ port # NoLogin /\ pending = i
  /\ login' = [login EXCEPT ![i].code = "own"]
  /\ UNCHANGED <<storeVars, tokenVars, pending, port, comp, clashed>>

(* completeOpenAICodexOAuth(): without a pasted address, with that of an   *)
(* authorization, or with a bare code, which has no state to compare.      *)
Complete(k) ==
  /\ comp[k].pc = "idle"
  /\ \/ /\ pending = NoLogin
        /\ Answer(k, "thrown") /\ UNCHANGED login
     \/ /\ pending # NoLogin
        /\ \E code \in {login[pending].code, "own", "foreign"} :
             /\ login' = [login EXCEPT ![pending].code =
                            IF code = "own" /\ @ = "spent" THEN @ ELSE code]
             /\ comp' = [comp EXCEPT ![k].of = pending,
                  ![k].pc = CASE login[pending].ready -> "wait"
                              [] ~login[pending].ready /\ code = "none" -> "unfinished"
                              [] OTHER -> "exchange"]
     \/ /\ pending # NoLogin   \* pasted with the state of another one
        /\ Answer(k, "thrown") /\ UNCHANGED login
  /\ UNCHANGED <<storeVars, tokenVars, pending, port, clashed>>

(* waitForCode() looks at the authorization it was given, also when it is  *)
(* not the pending one any more, and gives up after five minutes.          *)
GetCode(k) ==
  /\ comp[k].pc = "wait" /\ login[comp[k].of].code # "none"
  /\ CompGoto(k, "exchange")
  /\ UNCHANGED <<storeVars, tokenVars, login, pending, port, clashed>>

WaitNoLonger(k) ==
  /\ comp[k].pc = "wait" /\ login[comp[k].of].code = "none"
  /\ Answer(k, "unfinished")
  /\ UNCHANGED <<storeVars, tokenVars, login, pending, port, clashed>>

(* A code is good once, and for the verifier of its own authorization.     *)
ExchangeCode(k) ==
  /\ comp[k].pc = "exchange" /\ login[comp[k].of].code = "own"
  /\ Issue
  /\ login' = [login EXCEPT ![comp[k].of].code = "spent"]
  /\ Load(k)
  /\ comp' = [comp EXCEPT ![k].pc = "store", ![k].got = NewPair]
  /\ UNCHANGED <<pending, port, clashed>>

CodeRefused(k) ==
  /\ comp[k].pc = "exchange"
  /\ Answer(k, "thrown")
  /\ UNCHANGED <<storeVars, tokenVars, login, pending, port, clashed>>

(* The tokens are stored, and the pending authorization, which may be a    *)
(* later one, is closed.                                                   *)
Connect(k) ==
  /\ comp[k].pc = "store"
  /\ Save(k, "pair", comp[k].got)
  /\ pending' = NoLogin /\ port' = PortClosed
  /\ Answer(k, "connected")
  /\ UNCHANGED <<tokenVars, login, clashed>>

LoginStep(k) ==
  Complete(k) \/ GetCode(k) \/ WaitNoLonger(k) \/ ExchangeCode(k) \/ CodeRefused(k) \/ Connect(k)

(* Unless two were opened at a time, the port of the redirect is held by   *)
(* the authorization that can be completed, and is free for the next one   *)
(* when there is none.                                                     *)
RedirectIsServed ==
  ~clashed =>
    /\ port # NoLogin => port = pending \/ login[port].pc = "binding"
    /\ pending # NoLogin /\ login[pending].ready => port # NoLogin
=============================================================================
