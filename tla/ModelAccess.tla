---------------------------- MODULE ModelAccess ----------------------------
(***************************************************************************)
(* How BureauOS gets an answer from a model.  Every chat turn, dispatch    *)
(* and command builds a router of its own from the credentials on file     *)
(* (or, when there are none, in the environment), chooses a provider for   *)
(* the role, and calls it.  The adapter of the ChatGPT account refreshes   *)
(* its tokens on the way and stores the new ones.  Meanwhile the owner     *)
(* logs in or out and changes credentials.                                 *)
(*                                                                         *)
(* A session is one router with its adapter; its calls may overlap, share  *)
(* a refresh, and be given up by a caller whose timer runs out.            *)
(***************************************************************************)
EXTENDS OAuthLogin, ModelRouter

CONSTANTS
  Session, Call, SessionOf,
  Owner,      \* the requests and commands that change credentials
  Chains,     \* session -> the chains of providers its role may have
  EnvPair,    \* the pair in the environment, or 0
  Casts,      \* who acts
  MaxFaults   \* bound on lost replies, failing writes and deaths

ASSUME AccessAssumption ==
  /\ Writer = Session \cup Owner \cup Completer
  /\ SessionOf \in [Call -> Session]
  /\ Chains \in [Session -> SUBSET Seq(Provider)]
  /\ EnvPair \in 0 .. 1 /\ MaxFaults \in Nat
  /\ Casts \subseteq SUBSET (Writer \cup Call \cup Login)

VARIABLES
  cast,
  ad,       \* session -> its adapter
  call,     \* call -> its local state
  own,      \* owner's request -> its local state
  orphaned, \* history: refresh tokens whose exchange nobody stored
  faults

accessVars == <<cast, ad, call, own, orphaned, faults>>
vars == <<storeVars, tokenVars, loginVars, accessVars>>
others == <<tokenVars, loginVars>>

Waiting == {"refresh", "send"}
InRefresh == {"asked", "replied", "store"}
Settled == {"answered", "other", "template", "failed", "given_up", "dead"}

AccessTypeOK ==
  /\ cast \in Casts
  /\ ad \in [Session -> [pc : {"none", "ready", "asked", "replied", "store", "dead"},
                         route : Provider \cup {"none"},
                         acc : Pair, ref : Pair, env : BOOLEAN,
                         shown : Pair, got : Pair]]
  /\ call \in [Call -> [pc : {"idle"} \cup Waiting \cup Settled,
                        token : Pair]]
  /\ own \in [Owner -> [pc : {"idle", "store"}, change : Change, n : Pair]]
  /\ orphaned \subseteq Pair /\ faults \in 0 .. MaxFaults
  /\ \A c \in Call : call[c].pc = "refresh" => ad[SessionOf[c]].pc \in InRefresh

NoRequest == [pc |-> "idle", change |-> "keep", n |-> 0]

TypeOK == StoreTypeOK /\ TokenTypeOK /\ LoginTypeOK /\ AccessTypeOK

Init ==
  /\ StoreInit /\ TokenInit /\ LoginInit
  /\ cast \in Casts
  /\ ad = [s \in Session |->
            [pc |-> "none", route |-> "none",
             acc |-> 0, ref |-> 0, env |-> FALSE, shown |-> 0, got |-> 0]]
  /\ call = [c \in Call |-> [pc |-> "idle", token |-> 0]]
  /\ own = [o \in Owner |-> NoRequest]
  /\ orphaned = {} /\ faults = 0

-----------------------------------------------------------------------------
(* validateCredentials(): a token that still works, or one to refresh it.  *)
Works(t) == t # 0 /\ t \notin expired
Valid(r) == Works(r.acc) \/ r.ref # 0

(* buildConfiguredProviderRouter() and selectForAgent(): the credential on *)
(* file comes before the one in the environment.                           *)
Build(s) ==
  /\ ad[s].pc = "none"
  /\ LET stored == file # Absent
         r == IF stored THEN file ELSE [acc |-> EnvPair, ref |-> EnvPair]
         valid == {"openai", "local"} \cup (IF Valid(r) THEN {"codex"} ELSE {})
     IN \E chain \in Chains[s], fit \in SUBSET Provider, cheap \in BOOLEAN :
          ad' = [ad EXCEPT ![s] = [pc |-> "ready",
                   route |-> Selected(chain, fit, valid, cheap),
                   acc |-> r.acc, ref |-> r.ref, env |-> ~stored, shown |-> 0, got |-> 0]]
  /\ UNCHANGED <<storeVars, others, cast, call, own, orphaned, faults>>

(* A refresh settles: nothing of it is kept, and the calls that wait for   *)
(* it go on or fail with it.                                               *)
End(pc) == [pc |-> pc, token |-> 0]

Settle(s, acc, ref) ==
  ad' = [ad EXCEPT ![s].pc = "ready", ![s].acc = acc, ![s].ref = ref,
                   ![s].shown = 0, ![s].got = 0]

(* Seeded fault: a refresh that fails does not tell those who wait for it. *)
ResumeUnlessFailed(s, token) ==
  call' = [c \in Call |->
            IF SessionOf[c] = s /\ call[c].pc = "refresh" /\ token # 0
            THEN [call[c] EXCEPT !.pc = "send", !.token = token] ELSE call[c]]

Resume(s, token) ==
  call' = [c \in Call |->
            IF SessionOf[c] # s \/ call[c].pc # "refresh" THEN call[c]
            ELSE IF token = 0 THEN End("failed")
            ELSE [call[c] EXCEPT !.pc = "send", !.token = token]]

(* generateText() or stream(), up to the token: a working one is used, a   *)
(* refresh under way is shared, another one is begun.                      *)
Ask(c) ==
  LET s == SessionOf[c] IN
  /\ call[c].pc = "idle" /\ ad[s].pc \in {"ready"} \cup InRefresh
  /\ ad[s].route = "codex"
  /\ \/ /\ Works(ad[s].acc)
        /\ call' = [call EXCEPT ![c] = [pc |-> "send", token |-> ad[s].acc]]
        /\ UNCHANGED ad
     \/ /\ ~Works(ad[s].acc) /\ ad[s].ref = 0
        /\ call' = [call EXCEPT ![c] = End("failed")]
        /\ UNCHANGED ad
     \/ /\ ~Works(ad[s].acc) /\ ad[s].ref # 0
        /\ call' = [call EXCEPT ![c].pc = "refresh"]
        /\ ad' = IF ad[s].pc = "ready"
                 THEN [ad EXCEPT ![s].pc = "asked", ![s].shown = ad[s].ref] ELSE ad
  /\ UNCHANGED <<storeVars, others, cast, own, orphaned, faults>>

(* Another provider answers, or nobody does and a template is used.        *)
AskOther(c) ==
  LET s == SessionOf[c] IN
  /\ call[c].pc = "idle" /\ ad[s].pc = "ready" /\ ad[s].route # "codex"
  /\ \E pc \in {"other", "failed"} :
       call' = [call EXCEPT ![c].pc = IF ad[s].route = "none" THEN "template" ELSE pc]
  /\ UNCHANGED <<storeVars, others, cast, ad, own, orphaned, faults>>

-----------------------------------------------------------------------------
(* refreshAccessToken(): the exchange at OpenAI, ...                       *)
Exchange(s) ==
  /\ ad[s].pc = "asked"
  /\ Rotate(ad[s].shown)
  /\ ad' = [ad EXCEPT ![s].pc = "replied", ![s].got = NewPair]
  /\ UNCHANGED <<storeVars, loginVars, cast, call, own, orphaned, faults>>

ExchangeFails(s) ==
  /\ ad[s].pc = "asked"
  /\ Settle(s, ad[s].acc, ad[s].ref)
  /\ Resume(s, 0)
  /\ UNCHANGED <<storeVars, others, cast, own, orphaned, faults>>

(* ... the new tokens in the adapter, and upsert(); those of a credential  *)
(* of the environment are stored nowhere.                                  *)
Adopt(s) ==
  /\ ad[s].pc = "replied" /\ ~ad[s].env
  /\ ad' = [ad EXCEPT ![s].pc = "store", ![s].acc = ad[s].got, ![s].ref = ad[s].got]
  /\ Load(s)
  /\ UNCHANGED <<others, cast, call, own, orphaned, faults>>

(* Seeded fault: upsert() without the refresh token, which stays that of   *)
(* before.                                                                 *)
PersistAccess(s) ==
  /\ ad[s].pc = "store"
  /\ Save(s, "access", ad[s].got)
  /\ Settle(s, ad[s].acc, ad[s].ref)
  /\ Resume(s, ad[s].got)
  /\ UNCHANGED <<others, cast, own, orphaned, faults>>

Persist(s) ==
  /\ ad[s].pc = "store"
  /\ Save(s, "pair", ad[s].got)
  /\ Settle(s, ad[s].acc, ad[s].ref)
  /\ Resume(s, ad[s].got)
  /\ UNCHANGED <<others, cast, own, orphaned, faults>>

AdoptEnv(s) ==
  /\ ad[s].pc = "replied" /\ ad[s].env
  /\ Settle(s, ad[s].got, ad[s].got)
  /\ Resume(s, ad[s].got)
  /\ orphaned' = orphaned \cup {ad[s].shown}
  /\ UNCHANGED <<storeVars, others, cast, own, faults>>

(* The request itself.  A token that expired is refused, and not renewed.  *)
Respond(c) ==
  /\ call[c].pc = "send"
  /\ \E pc \in {"answered", "failed"} :
       /\ pc = "answered" => Works(call[c].token)
       /\ call' = [call EXCEPT ![c] = End(pc)]
  /\ UNCHANGED <<storeVars, others, cast, ad, own, orphaned, faults>>

(* withTimeout(): the caller goes on without the answer; the refresh, if   *)
(* there is one, goes on too.                                              *)
GiveUp(c) ==
  /\ call[c].pc \in Waiting
  /\ call' = [call EXCEPT ![c] = End("given_up")]
  /\ UNCHANGED <<storeVars, others, cast, ad, own, orphaned, faults>>

-----------------------------------------------------------------------------
(* Logins over the api or the command line, logout, another model or       *)
(* another provider's credential.                                          *)
Request(o) ==
  /\ own[o].pc = "idle"
  /\ \E change \in Change :
       /\ change = "remove" => file # Absent
       /\ own' = [own EXCEPT ![o] = [pc |-> "store", change |-> change,
                    n |-> IF change \in {"pair", "access"} THEN NewPair ELSE 0]]
       /\ IF change \in {"pair", "access"} THEN Issue ELSE UNCHANGED tokenVars
  /\ Load(o)
  /\ UNCHANGED <<loginVars, cast, ad, call, orphaned, faults>>

Fulfil(o) ==
  /\ own[o].pc = "store"
  /\ Save(o, own[o].change, own[o].n)
  /\ own' = [own EXCEPT ![o] = NoRequest]
  /\ UNCHANGED <<others, cast, ad, call, orphaned, faults>>

(* An access token is good for days: none runs out while it is stored.     *)
InHand(t) == \E s \in Session : ad[s].pc \in {"replied", "store"} /\ ad[s].got = t

Expire(t) ==
  /\ t \in 1 .. issued \ expired /\ ~InHand(t)
  /\ expired' = expired \cup {t}
  /\ UNCHANGED <<storeVars, issued, live, loginVars, accessVars>>

-----------------------------------------------------------------------------
(* The answer with the new pair is lost, the new pair cannot be written,   *)
(* or the process of a session dies.                                       *)
Break(s) ==
  /\ faults < MaxFaults /\ faults' = faults + 1
  /\ ad[s].pc \in {"replied", "store"}
  /\ orphaned' = orphaned \cup {ad[s].shown}
  /\ Settle(s, ad[s].acc, ad[s].ref)
  /\ Resume(s, 0)
  /\ UNCHANGED <<storeVars, others, cast, own>>

Die(s) ==
  /\ faults < MaxFaults /\ faults' = faults + 1
  /\ ad[s].pc \notin {"none", "dead"}
  /\ orphaned' = IF ad[s].pc \in {"replied", "store"}
                 THEN orphaned \cup {ad[s].shown} ELSE orphaned
  /\ ad' = [ad EXCEPT ![s] = [@ EXCEPT !.pc = "dead", !.acc = 0, !.ref = 0, !.shown = 0, !.got = 0]]
  /\ call' = [c \in Call |-> IF SessionOf[c] = s /\ call[c].pc \in Waiting \cup {"idle"}
                             THEN End("dead") ELSE call[c]]
  /\ UNCHANGED <<storeVars, others, cast, own>>

RefreshStep(s) ==
  Exchange(s) \/ ExchangeFails(s) \/ Adopt(s) \/ AdoptEnv(s) \/ Persist(s)

Next ==
  \/ \E s \in Session \cap cast : Build(s) \/ RefreshStep(s) \/ Break(s) \/ Die(s)
  \/ \E c \in Call \cap cast : Ask(c) \/ AskOther(c) \/ Respond(c) \/ GiveUp(c)
  \/ \E o \in Owner \cap cast : Request(o) \/ Fulfil(o)
  \/ \E i \in Login \cap cast : (Authorize(i) \/ Authorized(i) \/ Redirect(i)) /\ UNCHANGED accessVars
  \/ \E k \in Completer \cap cast : LoginStep(k) /\ UNCHANGED accessVars
  \/ \E t \in Pair : Expire(t)

Spec == Init /\ [][Next]_vars

(* What a process began goes on, and OpenAI answers or the connection      *)
(* breaks.                                                                 *)
FairSpec ==
  /\ Spec
  /\ \A s \in Session : WF_vars(RefreshStep(s))
  /\ \A c \in Call : WF_vars(Respond(c))

-----------------------------------------------------------------------------
(* The refresh token on file can be exchanged - or it is just being, by a  *)
(* session that will store the new one.  It is lost only when the answer   *)
(* or the write of an exchange fails, when tokens of the environment were  *)
(* stored, and when a change of something else wrote back what it had read *)
(* before the exchange.                                                    *)
CredentialSurvives ==
  \/ file.ref \in live \cup {0} \cup orphaned \cup crossed
  \/ \E s \in Session : ad[s].pc \in {"replied", "store"} /\ ad[s].shown = file.ref

(* A call ends: a refresh it shares settles, well or not, for all who wait *)
(* for it, and a failed one is not waited for again.                       *)
EveryCallSettles ==
  \A c \in Call : call[c].pc \in Waiting ~> call[c].pc \in Settled
=============================================================================
