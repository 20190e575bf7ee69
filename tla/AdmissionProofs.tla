-------------------------- MODULE AdmissionProofs --------------------------
(***************************************************************************)
(* Proofs about Admission, for every set of transactions, requests,        *)
(* callers and redactors, however PrepareTrace, Authorize and Redact       *)
(* overlap.                                                                *)
(***************************************************************************)
EXTENDS Admission, SequenceTheorems, FiniteSetTheorems, TLAPS

-----------------------------------------------------------------------------
(* The inductive invariant: types...                                       *)

LedgerOK ==
  /\ ledger \in [Tx -> Versions]
  /\ redactions \subseteq [tx: Tx, from: Versions, did: DIDs]
  /\ prepared \in [Requests -> Versions \cup {NotPrepared}]
  /\ todo \subseteq Requests
  /\ locked \in BOOLEAN

GatewaysOK == gateways \in Seq(Gateway) /\ Len(gateways) \in 1 .. MaxGateways

CallRecord == [stage: {"arrived", "checked", "admitted"}, req: Requests, gw: Gateways,
               version: Versions]

CallsOK == call \in [Callers -> {Idle} \cup CallRecord] /\ granted \subseteq Authorization

RedactRecord == [stage: {"collecting", "running", "telling", "told"}, gw: Gateways,
                 auths: Seq(Authorization), items: Seq(RedactItem), k: Nat, version: Versions]

(* A round in progress is at one of its items. *)
RoundPlace(r) ==
  /\ r.stage = "running" => r.k # 0 /\ r.items # <<>>
  /\ r.stage \in {"telling", "told"} => r.k \in 1 .. Len(r.items)

RedactorsOK ==
  /\ redact \in [Redactors -> {Idle} \cup RedactRecord]
  /\ \A x \in Redactors : RoundPlace(redact[x])

Typed == LedgerOK /\ GatewaysOK /\ CallsOK /\ RedactorsOK

-----------------------------------------------------------------------------
(* ...and who holds an identifier: one caller or one authorization, exactly *)
(* when the gateway has seen it, and the gateway knows the requester.       *)

Takes(c, g, did) == call[c].stage = "admitted" /\ call[c].gw = g /\ DIDOf(c) = did

Owns(a, g, did) == a.gw = g /\ DedupID(a.req, a.version) = did

Held(g, did) ==
  /\ \A c, d \in Callers : Takes(c, g, did) /\ Takes(d, g, did) => c = d
  /\ \A a, b \in granted : Owns(a, g, did) /\ Owns(b, g, did) => a = b
  /\ \A c \in Callers, a \in granted : ~(Takes(c, g, did) /\ Owns(a, g, did))
  /\ did \in gateways[g].seen <=>
       (\E c \in Callers : Takes(c, g, did)) \/ (\E a \in granted : Owns(a, g, did))
  /\ \A c \in Callers : Takes(c, g, did) => gateways[g].attribution[did] = call[c].req.by
  /\ \A a \in granted : Owns(a, g, did) => gateways[g].attribution[did] = a.req.by

HolderInv == \A g \in Gateways, did \in DIDs : Held(g, did)

IInv == Typed /\ VersionInv /\ HolderInv

-----------------------------------------------------------------------------
(* Facts about the data.                                                   *)

LEMMA RequestFacts ==
  ASSUME NEW r \in Requests
  PROVE  r.by \in Requesters /\ r.tx \in Tx /\ r.mod \in Mods
  BY RequestAssumption

LEMMA DIDFacts ==
  ASSUME NEW r \in Requests, NEW v \in Versions
  PROVE  DedupID(r, v) \in DIDs /\ DedupID(r, v)[1] = r.tx /\ DedupID(r, v)[2] = v
  BY RequestFacts DEF DedupID, DIDs

LEMMA NewGatewayOK ==
  ASSUME NEW vs \in [Tx -> Versions]
  PROVE  NewGateway(vs) \in Gateway
  BY DEF NewGateway, Gateway

LEMMA GatewayOf ==
  ASSUME GatewaysOK, NEW g \in Gateways
  PROVE  /\ gateways[g] \in Gateway /\ gateways[g].seen \subseteq DIDs
         /\ gateways[g].attribution \in [DIDs -> Requesters \cup {Nobody}]
         /\ gateways[g].txVersion \in [Tx -> Versions]
<1>1. gateways[g] \in Gateway
  BY ElementOfSeq DEF GatewaysOK, Gateways
<1>2. QED
  BY <1>1 DEF Gateway

(* A caller that is not idle carries a request, and an identifier. *)
LEMMA CallOf ==
  ASSUME CallsOK, NEW c \in Callers, call[c] # Idle
  PROVE  /\ call[c] \in CallRecord
         /\ call[c].stage \in {"arrived", "checked", "admitted"}
         /\ call[c].req \in Requests /\ call[c].gw \in Gateways /\ call[c].version \in Versions
         /\ call[c].req.by \in Requesters /\ call[c].req.tx \in Tx
         /\ DIDOf(c) \in DIDs
<1>1. call[c] \in CallRecord
  BY DEF CallsOK
<1>2. /\ call[c].stage \in {"arrived", "checked", "admitted"}
      /\ call[c].req \in Requests /\ call[c].gw \in Gateways /\ call[c].version \in Versions
  BY <1>1 DEF CallRecord
<1>3. QED
  BY <1>1, <1>2, RequestFacts, DIDFacts DEF DIDOf

LEMMA StageNotIdle ==
  ASSUME NEW c, call[c].stage \in {"arrived", "checked", "admitted"}
  PROVE  call[c] # Idle
  BY DEF Idle

LEMMA RedactOf ==
  ASSUME RedactorsOK, NEW x \in Redactors, redact[x] # Idle
  PROVE  /\ redact[x] \in RedactRecord /\ RoundPlace(redact[x])
         /\ redact[x].stage \in {"collecting", "running", "telling", "told"}
         /\ redact[x].gw \in Gateways /\ redact[x].auths \in Seq(Authorization)
         /\ redact[x].items \in Seq(RedactItem) /\ redact[x].k \in Nat
         /\ redact[x].version \in Versions
  BY DEF RedactorsOK, RedactRecord

LEMMA RoundNotIdle ==
  ASSUME NEW x, redact[x].stage \in {"collecting", "running", "telling", "told"}
  PROVE  redact[x] # Idle
  BY DEF Idle

(* The item a round is at. *)
LEMMA ItemAt ==
  ASSUME RedactorsOK, NEW x \in Redactors, InRound(x) \/ Now(x, "telling") \/ Now(x, "told")
  PROVE  /\ redact[x] # Idle /\ redact[x].k \in 1 .. Len(redact[x].items)
         /\ redact[x].k \in DOMAIN redact[x].items
         /\ ItemOf(x) \in RedactItem /\ ItemOf(x).tx \in Tx
         /\ ItemOf(x).version \in Versions /\ ItemOf(x).did \in DIDs
<1>1. redact[x] # Idle
  BY RoundNotIdle DEF InRound, Now
<1>2. /\ redact[x].items \in Seq(RedactItem) /\ redact[x].k \in Nat /\ RoundPlace(redact[x])
      /\ Len(redact[x].items) \in Nat /\ DOMAIN redact[x].items = 1 .. Len(redact[x].items)
  BY <1>1, RedactOf, LenProperties
<1>3. redact[x].k \in 1 .. Len(redact[x].items)
  BY <1>2 DEF InRound, Now, RoundPlace
<1>4. ItemOf(x) \in RedactItem
  BY <1>2, <1>3, ElementOfSeq DEF ItemOf
<1>5. QED
  BY <1>1, <1>2, <1>3, <1>4 DEF RedactItem

-----------------------------------------------------------------------------
(* Gateways are updated in place or added at the end.                      *)

(* No gateway goes, so whatever refers to one still does. *)
Kept == Len(gateways) <= Len(gateways')

LEMMA KeptTypes ==
  ASSUME Kept, GatewaysOK, GatewaysOK'
  PROVE  /\ Gateways \subseteq Gateways' /\ Authorization \subseteq Authorization'
         /\ CallRecord \subseteq CallRecord' /\ RedactRecord \subseteq RedactRecord'
<1>1. Gateways \subseteq Gateways'
  BY DEF Kept, GatewaysOK, Gateways
<1>2. Authorization \subseteq Authorization' /\ CallRecord \subseteq CallRecord'
  BY <1>1 DEF Authorization, CallRecord
<1>3. ASSUME NEW r \in RedactRecord PROVE r \in RedactRecord'
  <2>1. /\ r = [stage |-> r.stage, gw |-> r.gw, auths |-> r.auths, items |-> r.items, k |-> r.k,
                 version |-> r.version]
        /\ r.stage \in {"collecting", "running", "telling", "told"} /\ r.gw \in Gateways
        /\ r.auths \in Seq(Authorization) /\ r.items \in Seq(RedactItem) /\ r.k \in Nat
        /\ r.version \in Versions
    BY DEF RedactRecord
  <2>2. r.auths \in Seq(Authorization') /\ r.gw \in Gateways'
    BY <1>1, <1>2, <2>1, SeqMonotonic
  <2>3. QED
    BY <2>1, <2>2 DEF RedactRecord
<1>4. QED
  BY <1>1, <1>2, <1>3

LEMMA CallsKept ==
  ASSUME Typed, GatewaysOK', Kept, UNCHANGED <<call, granted>>
  PROVE  CallsOK'
  BY KeptTypes DEF Typed, CallsOK

LEMMA RedactorsKept ==
  ASSUME Typed, GatewaysOK', Kept, UNCHANGED redact
  PROVE  RedactorsOK'
  BY KeptTypes DEF Typed, RedactorsOK, RoundPlace

LEMMA GatewaysFrame ==
  ASSUME Typed, UNCHANGED gateways
  PROVE  GatewaysOK' /\ Kept
<1>1. Len(gateways) \in Nat
  BY LenProperties DEF Typed, GatewaysOK
<1>2. QED
  BY <1>1 DEF Typed, GatewaysOK, Kept

(* One gateway is replaced. *)
LEMMA GatewayReplaced ==
  ASSUME Typed, NEW g \in Gateways, NEW r \in Gateway, gateways' = [gateways EXCEPT ![g] = r]
  PROVE  /\ GatewaysOK' /\ Kept /\ Gateways' = Gateways
         /\ gateways'[g] = r /\ \A h \in Gateways \ {g} : gateways'[h] = gateways[h]
<1>1. gateways \in Seq(Gateway) /\ g \in 1 .. Len(gateways) /\ Len(gateways) \in Nat
  BY LenProperties DEF Typed, GatewaysOK, Gateways
<1>2. /\ gateways' \in Seq(Gateway) /\ Len(gateways') = Len(gateways)
      /\ \A j \in 1 .. Len(gateways) : gateways'[j] = IF j = g THEN r ELSE gateways[j]
  BY <1>1, ExceptSeq
<1>3. QED
  BY <1>1, <1>2 DEF Typed, GatewaysOK, Kept, Gateways

LEMMA StartTraceGateways ==
  ASSUME Typed, NEW trace \in Traces, StartTrace(trace)
  PROVE  /\ GatewaysOK' /\ Kept
         /\ Len(gateways') = Len(gateways) + 1
         /\ Gateways' = Gateways \cup {Len(gateways')} /\ Len(gateways') \notin Gateways
         /\ \A g \in Gateways : gateways'[g] = gateways[g]
         /\ gateways'[Len(gateways')] = NewGateway(ledger)
<1>1. gateways \in Seq(Gateway) /\ Len(gateways) \in Nat
  BY LenProperties DEF Typed, GatewaysOK
<1>2. NewGateway(ledger) \in Gateway
  BY NewGatewayOK DEF Typed, LedgerOK
<1>3. gateways' = Append(gateways, NewGateway(ledger)) /\ Len(gateways) < MaxGateways
  BY DEF StartTrace, FreshGateway
<1>4. /\ gateways' \in Seq(Gateway) /\ Len(gateways') = Len(gateways) + 1
      /\ \A g \in 1 .. Len(gateways) : gateways'[g] = gateways[g]
      /\ gateways'[Len(gateways) + 1] = NewGateway(ledger)
  BY <1>1, <1>2, <1>3, AppendProperties
<1>5. Gateways' = Gateways \cup {Len(gateways')} /\ Len(gateways') \notin Gateways
  BY <1>1, <1>4 DEF Gateways
<1>6. GatewaysOK' /\ Kept
  BY <1>1, <1>3, <1>4, BoundAssumption DEF GatewaysOK, Kept
<1>7. QED
  BY <1>4, <1>5, <1>6 DEF Gateways

LEMMA AdmitGateways ==
  ASSUME Typed, NEW c \in Callers, Admit(c)
  PROVE  /\ call[c] # Idle /\ GatewaysOK' /\ Kept /\ Gateways' = Gateways
         /\ gateways'[call[c].gw].seen = gateways[call[c].gw].seen \cup {DIDOf(c)}
         /\ \A d \in DIDs : gateways'[call[c].gw].attribution[d] =
              IF d = DIDOf(c) THEN call[c].req.by ELSE gateways[call[c].gw].attribution[d]
         /\ gateways'[call[c].gw].txVersion = gateways[call[c].gw].txVersion
         /\ \A h \in Gateways \ {call[c].gw} : gateways'[h] = gateways[h]
<1> DEFINE g == call[c].gw
           r == [gateways[g] EXCEPT !.seen = @ \cup {DIDOf(c)},
                                    !.attribution[DIDOf(c)] = call[c].req.by]
<1>1. call[c] # Idle
  BY StageNotIdle DEF Admit
<1>2. g \in Gateways /\ DIDOf(c) \in DIDs /\ call[c].req.by \in Requesters
  BY <1>1, CallOf DEF Typed
<1>3. gateways[g] \in Gateway
  BY <1>2, GatewayOf DEF Typed
<1>4. r \in Gateway
  BY <1>2, <1>3 DEF Gateway
<1>5. gateways' = [gateways EXCEPT ![g] = r]
  BY DEF Admit
<1>6. /\ GatewaysOK' /\ Kept /\ Gateways' = Gateways
      /\ gateways'[g] = r /\ \A h \in Gateways \ {g} : gateways'[h] = gateways[h]
  BY <1>2, <1>4, <1>5, GatewayReplaced
<1>7. /\ r.seen = gateways[g].seen \cup {DIDOf(c)} /\ r.txVersion = gateways[g].txVersion
      /\ \A d \in DIDs : r.attribution[d] =
            IF d = DIDOf(c) THEN call[c].req.by ELSE gateways[g].attribution[d]
  BY <1>3 DEF Gateway
<1>8. QED
  BY <1>1, <1>6, <1>7

LEMMA RefuseGateways ==
  ASSUME Typed, NEW c \in Callers, Refuse(c)
  PROVE  /\ call[c] # Idle /\ GatewaysOK' /\ Kept /\ Gateways' = Gateways
         /\ gateways'[call[c].gw].seen = gateways[call[c].gw].seen \ {DIDOf(c)}
         /\ gateways'[call[c].gw].attribution = gateways[call[c].gw].attribution
         /\ gateways'[call[c].gw].txVersion = gateways[call[c].gw].txVersion
         /\ \A h \in Gateways \ {call[c].gw} : gateways'[h] = gateways[h]
<1> DEFINE g == call[c].gw
           r == [gateways[g] EXCEPT !.seen = @ \ {DIDOf(c)}]
<1>1. call[c] # Idle
  BY StageNotIdle DEF Refuse
<1>2. g \in Gateways
  BY <1>1, CallOf DEF Typed
<1>3. gateways[g] \in Gateway
  BY <1>2, GatewayOf DEF Typed
<1>4. r \in Gateway
  BY <1>3 DEF Gateway
<1>5. gateways' = [gateways EXCEPT ![g] = r]
  BY DEF Refuse
<1>6. /\ GatewaysOK' /\ Kept /\ Gateways' = Gateways
      /\ gateways'[g] = r /\ \A h \in Gateways \ {g} : gateways'[h] = gateways[h]
  BY <1>2, <1>4, <1>5, GatewayReplaced
<1>7. /\ r.seen = gateways[g].seen \ {DIDOf(c)} /\ r.txVersion = gateways[g].txVersion
      /\ r.attribution = gateways[g].attribution
  BY <1>3 DEF Gateway
<1>8. QED
  BY <1>1, <1>6, <1>7

LEMMA AdvanceGateways ==
  ASSUME Typed, NEW x \in Redactors, AdvanceTx(x)
  PROVE  /\ redact[x] # Idle /\ GatewaysOK' /\ Kept /\ Gateways' = Gateways
         /\ redact[x].gw \in Gateways /\ ItemOf(x).tx \in Tx
         /\ \A g \in Gateways : /\ gateways'[g].seen = gateways[g].seen
                               /\ gateways'[g].attribution = gateways[g].attribution
         /\ \A t \in Tx : gateways'[redact[x].gw].txVersion[t] =
              IF t = ItemOf(x).tx THEN redact[x].version ELSE gateways[redact[x].gw].txVersion[t]
         /\ \A h \in Gateways \ {redact[x].gw} : gateways'[h] = gateways[h]
<1> DEFINE g == redact[x].gw
           r == [gateways[g] EXCEPT !.txVersion[ItemOf(x).tx] = Advanced(x)]
<1>1. redact[x] # Idle
  BY RoundNotIdle DEF AdvanceTx, Now
<1>2. g \in Gateways /\ Advanced(x) \in Versions /\ Advanced(x) = redact[x].version
  BY <1>1, RedactOf DEF Typed, Advanced
<1>3. gateways[g] \in Gateway
  BY <1>2, GatewayOf DEF Typed
<1>4. r \in Gateway
  BY <1>2, <1>3 DEF Gateway
<1>5. gateways' = [gateways EXCEPT ![g] = r]
  BY DEF AdvanceTx
<1>6. /\ GatewaysOK' /\ Kept /\ Gateways' = Gateways
      /\ gateways'[g] = r /\ \A h \in Gateways \ {g} : gateways'[h] = gateways[h]
  BY <1>2, <1>4, <1>5, GatewayReplaced
<1>7. /\ r.seen = gateways[g].seen /\ r.attribution = gateways[g].attribution
      /\ \A t \in Tx : r.txVersion[t] =
            IF t = ItemOf(x).tx THEN redact[x].version ELSE gateways[g].txVersion[t]
  BY <1>2, <1>3 DEF Gateway
<1>8. ItemOf(x).tx \in Tx
  BY ItemAt DEF Typed, AdvanceTx
<1>9. \A h \in Gateways : /\ gateways'[h].seen = gateways[h].seen
                          /\ gateways'[h].attribution = gateways[h].attribution
  <2> SUFFICES ASSUME NEW h \in Gateways
               PROVE  /\ gateways'[h].seen = gateways[h].seen
                      /\ gateways'[h].attribution = gateways[h].attribution
    OBVIOUS
  <2>1. CASE h = g
    BY <1>6, <1>7, <2>1
  <2>2. CASE h # g
    BY <1>6, <2>2
  <2>3. QED
    BY <2>1, <2>2
<1>10. QED
  BY <1>1, <1>2, <1>6, <1>7, <1>8, <1>9

-----------------------------------------------------------------------------
(* Calls and rounds are updated one at a time.                             *)

LEMMA CallSet ==
  ASSUME Typed, NEW c \in Callers, NEW r, r \in {Idle} \cup CallRecord,
         call' = [call EXCEPT ![c] = r], GatewaysOK', Kept, granted' \subseteq Authorization
  PROVE  /\ CallsOK' /\ call'[c] = r /\ \A d \in Callers \ {c} : call'[d] = call[d]
<1>1. call \in [Callers -> {Idle} \cup CallRecord]
  BY DEF Typed, CallsOK
<1>2. call' \in [Callers -> {Idle} \cup CallRecord]
  BY <1>1
<1>3. CallRecord \subseteq CallRecord' /\ Authorization \subseteq Authorization'
  BY KeptTypes DEF Typed
<1>4. {Idle} \cup CallRecord \subseteq {Idle} \cup CallRecord'
  BY <1>3
<1>5. call' \in [Callers -> {Idle} \cup CallRecord']
  BY <1>2, <1>4
<1>6. CallsOK'
  BY <1>3, <1>5 DEF CallsOK
<1>7. QED
  BY <1>1, <1>6

LEMMA CallStage ==
  ASSUME Typed, NEW c \in Callers, call[c] # Idle,
         NEW s \in {"arrived", "checked", "admitted"}
  PROVE  /\ [call[c] EXCEPT !.stage = s] \in CallRecord
         /\ [call[c] EXCEPT !.stage = s].stage = s
         /\ [call[c] EXCEPT !.stage = s].req = call[c].req
         /\ [call[c] EXCEPT !.stage = s].gw = call[c].gw
         /\ [call[c] EXCEPT !.stage = s].version = call[c].version
<1>1. call[c] \in CallRecord
  BY CallOf DEF Typed
<1>2. QED
  BY <1>1 DEF CallRecord

LEMMA RoundSet ==
  ASSUME Typed, NEW x \in Redactors, NEW r, r \in {Idle} \cup RedactRecord, RoundPlace(r),
         redact' = [redact EXCEPT ![x] = r], GatewaysOK', Kept
  PROVE  /\ RedactorsOK' /\ redact'[x] = r /\ \A y \in Redactors \ {x} : redact'[y] = redact[y]
<1>1. redact \in [Redactors -> {Idle} \cup RedactRecord]
  BY DEF Typed, RedactorsOK
<1>2. redact' \in [Redactors -> {Idle} \cup RedactRecord]
  BY <1>1
<1>3. {Idle} \cup RedactRecord \subseteq {Idle} \cup RedactRecord'
  BY KeptTypes DEF Typed
<1>4. redact' \in [Redactors -> {Idle} \cup RedactRecord']
  BY <1>2, <1>3
<1>5. redact'[x] = r /\ \A y \in Redactors \ {x} : redact'[y] = redact[y]
  BY <1>1
<1>6. \A y \in Redactors : RoundPlace(redact'[y])
  BY <1>5 DEF Typed, RedactorsOK
<1>7. RedactorsOK'
  BY <1>4, <1>6 DEF RedactorsOK, RoundPlace
<1>8. QED
  BY <1>5, <1>7

LEMMA IdlePlace == RoundPlace(Idle)
  BY DEF RoundPlace, Idle

-----------------------------------------------------------------------------
(* Init.                                                                   *)

LEMMA InitTyped == Init => Typed
<1> SUFFICES ASSUME Init PROVE Typed
  OBVIOUS
<1>1. ledger \in [Tx -> Versions]
  BY BoundAssumption DEF Init, Versions
<1>2. LedgerOK
  BY <1>1 DEF Init, LedgerOK
<1>3. NewGateway(ledger) \in Gateway
  BY <1>1, NewGatewayOK
<1>4. GatewaysOK
  BY <1>3, BoundAssumption DEF Init, GatewaysOK
<1>5. CallsOK
  BY DEF Init, CallsOK
<1>6. RedactorsOK
  BY IdlePlace DEF Init, RedactorsOK
<1>7. QED
  BY <1>2, <1>4, <1>5, <1>6 DEF Typed

-----------------------------------------------------------------------------
(* Every step keeps the types.                                             *)

LEMMA PrepareTyped ==
  ASSUME Typed, Prepare
  PROVE  Typed'
<1>1. ASSUME NEW trace \in Traces, StartTrace(trace) PROVE Typed'
  <2>1. GatewaysOK' /\ Kept
    BY <1>1, StartTraceGateways
  <2>2. LedgerOK'
    BY <1>1, RequestAssumption DEF StartTrace, Typed, LedgerOK
  <2>3. QED
    BY <1>1, <2>1, <2>2, CallsKept, RedactorsKept DEF StartTrace, Typed
<1>2. ASSUME NEW r \in Requests, PrepareOne(r) PROVE Typed'
  <2>1. LedgerOK'
    BY <1>2, RequestFacts DEF PrepareOne, Typed, LedgerOK
  <2>2. QED
    BY <1>2, <2>1, GatewaysFrame, CallsKept, RedactorsKept DEF PrepareOne, Typed
<1>3. ASSUME EndTrace PROVE Typed'
  <2>1. LedgerOK'
    BY <1>3 DEF EndTrace, Typed, LedgerOK
  <2>2. QED
    BY <1>3, <2>1, GatewaysFrame, CallsKept, RedactorsKept DEF EndTrace, Typed
<1>4. QED
  BY <1>1, <1>2, <1>3 DEF Prepare

LEMMA LedgerFrame ==
  ASSUME Typed, UNCHANGED <<ledger, redactions, prepared, todo, locked>>
  PROVE  LedgerOK'
  BY DEF Typed, LedgerOK

LEMMA AuthorizeTyped ==
  ASSUME Typed, NEW c \in Callers, AuthorizeStep(c)
  PROVE  Typed'
<1> USE DEF Typed
<1>1. GatewaysOK' /\ Kept
  BY AdmitGateways, RefuseGateways, GatewaysFrame DEF AuthorizeStep, Authorize, CheckVersion,
     DenyStale, DenyDuplicate, Deny, Grant
<1>2. LedgerOK' /\ RedactorsOK'
  <2>1. UNCHANGED <<ledger, redactions, prepared, todo, locked, redact>>
    BY DEF AuthorizeStep, Authorize, CheckVersion, DenyStale, DenyDuplicate, Deny, Admit, Grant, Refuse
  <2>2. QED
    BY <1>1, <2>1, LedgerFrame, RedactorsKept
<1>3. granted \subseteq Authorization
  BY DEF CallsOK
<1>4. CallsOK'
  <2>1. ASSUME NEW r \in Requests, Authorize(c, r) PROVE CallsOK'
    <3> DEFINE new == [stage |-> "arrived", req |-> r, gw |-> Current, version |-> prepared[r]]
    <3>1. Current \in Gateways
      BY DEF GatewaysOK, Current, Gateways
    <3>2. prepared[r] \in Versions
      BY <2>1 DEF LedgerOK, Authorize
    <3>3. new \in CallRecord
      BY <3>1, <3>2 DEF CallRecord
    <3>4. call' = [call EXCEPT ![c] = new] /\ UNCHANGED granted
      BY <2>1 DEF Authorize
    <3> HIDE DEF new
    <3>5. QED
      BY <1>1, <1>3, <3>3, <3>4, CallSet
  <2>2. ASSUME CheckVersion(c) \/ Admit(c) PROVE CallsOK'
    <3>1. /\ call[c] # Idle /\ UNCHANGED granted
          /\ \/ call' = [call EXCEPT ![c] = [call[c] EXCEPT !.stage = "checked"]]
             \/ call' = [call EXCEPT ![c] = [call[c] EXCEPT !.stage = "admitted"]]
      BY <2>2, StageNotIdle DEF CheckVersion, Admit
    <3>2. [call[c] EXCEPT !.stage = "checked"] \in CallRecord
      BY <3>1, CallStage
    <3>3. [call[c] EXCEPT !.stage = "admitted"] \in CallRecord
      BY <3>1, CallStage
    <3>4. QED
      BY <1>1, <1>3, <3>1, <3>2, <3>3, CallSet
  <2>3. ASSUME Deny(c) \/ Refuse(c) PROVE CallsOK'
    <3>1. call' = [call EXCEPT ![c] = Idle] /\ UNCHANGED granted
      BY <2>3 DEF Deny, Refuse
    <3>2. QED
      BY <1>1, <1>3, <3>1, CallSet
  <2>4. ASSUME Grant(c) PROVE CallsOK'
    <3>1. call[c] # Idle /\ call' = [call EXCEPT ![c] = Idle]
      BY <2>4, StageNotIdle DEF Grant
    <3>2. [req |-> call[c].req, version |-> call[c].version, gw |-> call[c].gw] \in Authorization
      BY <3>1, CallOf DEF Authorization
    <3>3. granted' \subseteq Authorization
      BY <1>3, <2>4, <3>2 DEF Grant
    <3>4. QED
      BY <1>1, <3>1, <3>3, CallSet
  <2>5. QED
    BY <2>1, <2>2, <2>3, <2>4 DEF AuthorizeStep, DenyStale, DenyDuplicate
<1>5. QED
  BY <1>1, <1>2, <1>4

(* The record of a redactor after each of its steps. *)
Started(batch) == [stage |-> "collecting", gw |-> Current, auths |-> batch, items |-> <<>>,
                   k |-> 0, version |-> 0]

LEMMA RedactRound ==
  ASSUME Typed, NEW x \in Redactors, NEW n \in 1 .. MaxBatch, NEW batch \in [1 .. n -> granted],
         Redact(x, batch)
  PROVE  /\ Started(batch) \in RedactRecord /\ RoundPlace(Started(batch))
         /\ redact' = [redact EXCEPT ![x] = Started(batch)] /\ DOMAIN batch = 1 .. n
<1>1. Current \in Gateways
  BY DEF Typed, GatewaysOK, Current, Gateways
<1>2. batch \in Seq(Authorization)
  <2>1. n \in Nat /\ batch \in [1 .. n -> Authorization]
    BY BoundAssumption DEF Typed, CallsOK
  <2>2. QED
    BY <2>1, SeqDef
<1>3. <<>> \in Seq(RedactItem)
  BY EmptySeq
<1>4. 0 \in Versions
  BY BoundAssumption DEF Versions
<1>5. Started(batch) \in RedactRecord
  BY <1>1, <1>2, <1>3, <1>4 DEF RedactRecord, Started
<1>6. RoundPlace(Started(batch))
  BY DEF RoundPlace, Started
<1>7. QED
  BY <1>5, <1>6 DEF Redact, Started

Collected(x) ==
  LET a == Head(redact[x].auths)
  IN [redact[x] EXCEPT !.auths = Tail(@),
        !.items = IF prepared[a.req] = NotPrepared THEN @ ELSE Append(@, ItemFor(a))]

LEMMA CollectRound ==
  ASSUME Typed, NEW x \in Redactors, Collect(x)
  PROVE  /\ Collected(x) \in RedactRecord /\ RoundPlace(Collected(x))
         /\ redact' = [redact EXCEPT ![x] = Collected(x)]
         /\ redact[x] # Idle /\ Collected(x).stage = "collecting"
         /\ Collected(x).auths = Tail(redact[x].auths)
         /\ Head(redact[x].auths) \in Authorization
         /\ \/ Collected(x).items = redact[x].items
            \/ /\ prepared[Head(redact[x].auths).req] \in Versions
               /\ ItemFor(Head(redact[x].auths)) \in RedactItem
               /\ Collected(x).items = Append(redact[x].items, ItemFor(Head(redact[x].auths)))
<1> DEFINE a == Head(redact[x].auths)
<1>1. redact[x] # Idle /\ redact[x].stage = "collecting" /\ redact[x].auths # <<>>
  BY RoundNotIdle DEF Collect, Now
<1>2. redact[x] \in RedactRecord /\ redact[x].auths \in Seq(Authorization)
  BY <1>1, RedactOf DEF Typed
<1>3. a \in Authorization /\ Tail(redact[x].auths) \in Seq(Authorization)
  BY <1>1, <1>2, HeadTailProperties
<1>4. a.req \in Requests /\ a.version \in Versions /\ a.req.tx \in Tx
  BY <1>3, RequestFacts DEF Authorization
<1>5. ASSUME prepared[a.req] # NotPrepared
      PROVE  prepared[a.req] \in Versions /\ ItemFor(a) \in RedactItem
  <2>1. prepared[a.req] \in Versions
    BY <1>4, <1>5 DEF Typed, LedgerOK
  <2>2. DedupID(a.req, prepared[a.req]) \in DIDs
    BY <1>4, <2>1, DIDFacts
  <2>3. QED
    BY <1>4, <2>1, <2>2 DEF ItemFor, RedactItem
<1> DEFINE items == IF prepared[a.req] = NotPrepared THEN redact[x].items
                    ELSE Append(redact[x].items, ItemFor(a))
<1>6. items \in Seq(RedactItem)
  BY <1>2, <1>5, AppendProperties DEF RedactRecord
<1>7. Collected(x) = [redact[x] EXCEPT !.auths = Tail(redact[x].auths), !.items = items]
  BY <1>2 DEF Collected, RedactRecord
<1> HIDE DEF items
<1>8. /\ Collected(x) \in RedactRecord /\ Collected(x).stage = "collecting"
      /\ Collected(x).auths = Tail(redact[x].auths) /\ Collected(x).items = items
  BY <1>1, <1>2, <1>3, <1>6, <1>7 DEF RedactRecord
<1>9. RoundPlace(Collected(x))
  BY <1>8 DEF RoundPlace
<1>10. redact' = [redact EXCEPT ![x] = Collected(x)]
  BY DEF Collect, Collected
<1>11. QED
  BY <1>1, <1>3, <1>5, <1>8, <1>9, <1>10 DEF items

(* The other steps leave what a round carries alone. *)
Carried(r, x) ==
  /\ r \in RedactRecord /\ RoundPlace(r) /\ redact[x] # Idle
  /\ r.auths = redact[x].auths /\ r.items = redact[x].items /\ r.gw = redact[x].gw

LEMMA CarriedUpdate ==
  ASSUME Typed, NEW x \in Redactors, redact[x] # Idle,
         NEW s \in {"running", "telling", "told"}, NEW k \in Nat \ {0}, NEW v \in Versions,
         redact[x].items # <<>>, s \in {"telling", "told"} => k <= Len(redact[x].items)
  PROVE  Carried([redact[x] EXCEPT !.stage = s, !.k = k, !.version = v], x)
<1> DEFINE r == [redact[x] EXCEPT !.stage = s, !.k = k, !.version = v]
<1>1. redact[x] \in RedactRecord /\ redact[x].items \in Seq(RedactItem)
  BY RedactOf DEF Typed
<1>2. Len(redact[x].items) \in Nat
  BY <1>1, LenProperties
<1>3. /\ r \in RedactRecord /\ r.stage = s /\ r.k = k
      /\ r.auths = redact[x].auths /\ r.items = redact[x].items /\ r.gw = redact[x].gw
  BY <1>1 DEF RedactRecord
<1> HIDE DEF r
<1>4. RoundPlace(r)
  BY <1>2, <1>3 DEF RoundPlace
<1>5. Carried(r, x)
  BY <1>3, <1>4 DEF Carried
<1>6. QED
  BY <1>5 DEF r

(* A redactor's record at a stage, an item and a version: what the steps of *)
(* a round set of it.                                                       *)
At(x, s, k, v) == [redact[x] EXCEPT !.stage = s, !.k = k, !.version = v]

LEMMA AtFields ==
  ASSUME Typed, NEW x \in Redactors, redact[x] # Idle, NEW s, NEW k, NEW v
  PROVE  At(x, s, k, v).stage = s /\ At(x, s, k, v).k = k /\ At(x, s, k, v).version = v
<1>1. redact[x] \in RedactRecord
  BY RedactOf DEF Typed
<1>2. QED
  BY <1>1 DEF RedactRecord, At

LEMMA AtStage ==
  ASSUME Typed, NEW x \in Redactors, redact[x] # Idle, NEW s, NEW k
  PROVE  [redact[x] EXCEPT !.stage = s, !.k = k] = At(x, s, k, redact[x].version)
<1>1. redact[x] \in RedactRecord
  BY RedactOf DEF Typed
<1>2. QED
  BY <1>1 DEF RedactRecord, At

LEMMA AtItem ==
  ASSUME Typed, NEW x \in Redactors, redact[x] # Idle, NEW k
  PROVE  [redact[x] EXCEPT !.k = k] = At(x, redact[x].stage, k, redact[x].version)
<1>1. redact[x] \in RedactRecord
  BY RedactOf DEF Typed
<1>2. QED
  BY <1>1 DEF RedactRecord, At

LEMMA AtVersion ==
  ASSUME Typed, NEW x \in Redactors, redact[x] # Idle, NEW s, NEW v
  PROVE  [redact[x] EXCEPT !.stage = s, !.version = v] = At(x, s, redact[x].k, v)
<1>1. redact[x] \in RedactRecord
  BY RedactOf DEF Typed
<1>2. QED
  BY <1>1 DEF RedactRecord, At

(* A round that moves on carries the same; only ReadVersion leaves it with  *)
(* a version to tell, the one of the ledger.                                *)
Moved(r, x) ==
  /\ redact' = [redact EXCEPT ![x] = r]
  /\ \/ r = Idle
     \/ /\ Carried(r, x)
        /\ r.stage = "told" => r.k = redact[x].k /\ r.version = ledger[ItemOf(x).tx]

RoundStep(x) == Run(x) \/ Execute(x) \/ Skip(x) \/ RunFails(x) \/ RunReturns(x)
                  \/ ReadVersion(x) \/ AdvanceTx(x)

LEMMA MovedAt ==
  ASSUME Typed, NEW x \in Redactors, redact[x] # Idle,
         NEW s \in {"running", "telling", "told"}, NEW k \in Nat \ {0}, NEW v \in Versions,
         redact[x].items # <<>>, s \in {"telling", "told"} => k <= Len(redact[x].items),
         redact' = [redact EXCEPT ![x] = At(x, s, k, v)],
         s = "told" => k = redact[x].k /\ v = ledger[ItemOf(x).tx]
  PROVE  \E r : Moved(r, x)
<1>1. Carried(At(x, s, k, v), x)
  BY CarriedUpdate DEF At
<1>2. At(x, s, k, v).stage = s /\ At(x, s, k, v).k = k /\ At(x, s, k, v).version = v
  BY AtFields
<1>3. Moved(At(x, s, k, v), x)
  BY <1>1, <1>2 DEF Moved
<1>4. QED
  BY <1>3

(* What a round is moved from. *)
LEMMA RoundFacts ==
  ASSUME Typed, NEW x \in Redactors, redact[x] # Idle
  PROVE  /\ redact[x].k \in Nat /\ redact[x].version \in Versions /\ RoundPlace(redact[x])
         /\ Len(redact[x].items) \in Nat
         /\ redact[x].items # <<>> <=> Len(redact[x].items) # 0
<1>1. redact[x].items \in Seq(RedactItem)
  BY RedactOf DEF Typed
<1>2. QED
  BY <1>1, RedactOf, LenProperties, EmptySeq DEF Typed

LEMMA RunMoves ==
  ASSUME Typed, NEW x \in Redactors, Run(x)
  PROVE  \E r : Moved(r, x)
<1>1. redact[x] # Idle
  BY RoundNotIdle DEF Run, Now
<1>2. CASE redact' = [redact EXCEPT ![x] = Idle]
  BY <1>2 DEF Moved
<1>3. CASE /\ redact[x].items # <<>>
           /\ redact' = [redact EXCEPT ![x] = [redact[x] EXCEPT !.stage = "running", !.k = 1]]
  <2>1. [redact[x] EXCEPT !.stage = "running", !.k = 1] = At(x, "running", 1, redact[x].version)
    BY <1>1, AtStage
  <2>2. redact' = [redact EXCEPT ![x] = At(x, "running", 1, redact[x].version)]
    BY <1>3, <2>1
  <2>3. redact[x].version \in Versions
    BY <1>1, RoundFacts
  <2>4. 1 \in Nat \ {0}
    OBVIOUS
  <2>5. "running" \in {"running", "telling", "told"} /\ "running" \notin {"telling", "told"}
    OBVIOUS
  <2>6. QED
    BY <1>1, <1>3, <2>2, <2>3, <2>4, <2>5, MovedAt
<1>4. QED
  BY <1>2, <1>3 DEF Run

LEMMA ItemMoves ==
  ASSUME Typed, NEW x \in Redactors, Execute(x) \/ Skip(x)
  PROVE  \E r : Moved(r, x)
<1>1. InRound(x) /\ redact' = [redact EXCEPT ![x] = [redact[x] EXCEPT !.k = redact[x].k + 1]]
  BY DEF Execute, Skip
<1>2. redact[x] # Idle /\ redact[x].stage = "running"
  BY <1>1, RoundNotIdle DEF InRound, Now
<1>3. redact[x].items # <<>> /\ redact[x].k + 1 \in Nat \ {0} /\ redact[x].version \in Versions
  BY <1>2, RoundFacts DEF RoundPlace
<1>4. [redact[x] EXCEPT !.k = redact[x].k + 1] = At(x, "running", redact[x].k + 1, redact[x].version)
  BY <1>2, AtItem
<1>5. redact' = [redact EXCEPT ![x] = At(x, "running", redact[x].k + 1, redact[x].version)]
  BY <1>1, <1>4
<1>6. "running" \in {"running", "telling", "told"} /\ "running" \notin {"telling", "told"}
  OBVIOUS
<1>7. QED
  BY <1>2, <1>3, <1>5, <1>6, MovedAt

LEMMA ReturnMoves ==
  ASSUME Typed, NEW x \in Redactors, RunReturns(x)
  PROVE  \E r : Moved(r, x)
<1>1. /\ redact[x].stage = "running"
      /\ redact' = [redact EXCEPT ![x] = [redact[x] EXCEPT !.stage = "telling", !.k = 1]]
  BY DEF RunReturns, Now
<1>2. redact[x] # Idle
  BY <1>1, RoundNotIdle
<1>3. redact[x].items # <<>> /\ redact[x].version \in Versions
  BY <1>1, <1>2, RoundFacts DEF RoundPlace
<1>4. 1 \in Nat \ {0} /\ 1 <= Len(redact[x].items)
  BY <1>2, <1>3, RoundFacts
<1>5. [redact[x] EXCEPT !.stage = "telling", !.k = 1] = At(x, "telling", 1, redact[x].version)
  BY <1>2, AtStage
<1>6. redact' = [redact EXCEPT ![x] = At(x, "telling", 1, redact[x].version)]
  BY <1>1, <1>5
<1>7. "telling" \in {"running", "telling", "told"} /\ "telling" # "told"
  OBVIOUS
<1>8. QED
  BY <1>2, <1>3, <1>4, <1>6, <1>7, MovedAt

LEMMA ReadMoves ==
  ASSUME Typed, NEW x \in Redactors, ReadVersion(x)
  PROVE  \E r : Moved(r, x)
<1>1. PICK v : v = ledger[ItemOf(x).tx]
  OBVIOUS
<1>2. redact' = [redact EXCEPT ![x] = [redact[x] EXCEPT !.stage = "told", !.version = v]]
  BY <1>1 DEF ReadVersion
<1>3. /\ redact[x] # Idle /\ redact[x].k \in 1 .. Len(redact[x].items)
      /\ ItemOf(x).tx \in Tx
  BY ItemAt DEF ReadVersion, Typed
<1>4. v \in Versions
  BY <1>1, <1>3 DEF Typed, LedgerOK
<1>5. /\ redact[x].items # <<>> /\ redact[x].k \in Nat \ {0}
      /\ redact[x].k <= Len(redact[x].items)
  BY <1>3, RoundFacts
<1>6. [redact[x] EXCEPT !.stage = "told", !.version = v] = At(x, "told", redact[x].k, v)
  BY <1>3, AtVersion
<1>7. redact' = [redact EXCEPT ![x] = At(x, "told", redact[x].k, v)]
  BY <1>2, <1>6
<1>8. "told" \in {"running", "telling", "told"}
  OBVIOUS
<1>9. QED
  BY <1>1, <1>3, <1>4, <1>5, <1>7, <1>8, MovedAt

LEMMA AdvanceMoves ==
  ASSUME Typed, NEW x \in Redactors, AdvanceTx(x)
  PROVE  \E r : Moved(r, x)
<1>1. redact' = [redact EXCEPT ![x] = IF redact[x].k = Len(redact[x].items) THEN Idle
                    ELSE [redact[x] EXCEPT !.stage = "telling", !.k = redact[x].k + 1]]
  BY DEF AdvanceTx
<1>2. redact[x] # Idle /\ redact[x].k \in 1 .. Len(redact[x].items)
  BY ItemAt DEF AdvanceTx, Typed
<1>3. CASE redact[x].k = Len(redact[x].items)
  BY <1>1, <1>3 DEF Moved
<1>4. CASE redact[x].k # Len(redact[x].items)
  <2>1. redact' = [redact EXCEPT ![x] = [redact[x] EXCEPT !.stage = "telling", !.k = redact[x].k + 1]]
    BY <1>1, <1>4
  <2>2. [redact[x] EXCEPT !.stage = "telling", !.k = redact[x].k + 1]
          = At(x, "telling", redact[x].k + 1, redact[x].version)
    BY <1>2, AtStage
  <2>3. redact' = [redact EXCEPT ![x] = At(x, "telling", redact[x].k + 1, redact[x].version)]
    BY <2>1, <2>2
  <2>4. /\ redact[x].items # <<>> /\ redact[x].version \in Versions
        /\ redact[x].k + 1 \in Nat \ {0} /\ redact[x].k + 1 <= Len(redact[x].items)
    BY <1>2, <1>4, RoundFacts
  <2>5. "telling" \in {"running", "telling", "told"} /\ "telling" # "told"
    OBVIOUS
  <2>6. QED
    BY <1>2, <2>3, <2>4, <2>5, MovedAt
<1>5. QED
  BY <1>3, <1>4

LEMMA RoundMoves ==
  ASSUME Typed, NEW x \in Redactors, RoundStep(x)
  PROVE  \E r : Moved(r, x)
<1>1. CASE RunFails(x)
  BY <1>1 DEF RunFails, Moved
<1>2. QED
  BY <1>1, RunMoves, ItemMoves, ReturnMoves, ReadMoves, AdvanceMoves DEF RoundStep

LEMMA RedactTyped ==
  ASSUME Typed, NEW x \in Redactors, RedactStep(x)
  PROVE  Typed'
<1> USE DEF Typed
<1>1. GatewaysOK' /\ Kept
  BY AdvanceGateways, GatewaysFrame DEF RedactStep, Redact, Collect, Run, Execute, Skip, RunFails,
     RunReturns, ReadVersion
<1>2. LedgerOK'
  <2>1. CASE Execute(x)
    <3> DEFINE it == ItemOf(x)
    <3>1. it.tx \in Tx /\ it.version \in Versions /\ it.did \in DIDs
      BY <2>1, ItemAt DEF Execute
    <3>2. /\ ledger' = [ledger EXCEPT ![it.tx] = @ + 1] /\ ledger[it.tx] < MaxVersion
          /\ redactions' = redactions \cup {[tx |-> it.tx, from |-> it.version, did |-> it.did]}
          /\ UNCHANGED <<prepared, todo, locked>>
      BY <2>1 DEF Execute
    <3> HIDE DEF it
    <3>3. ledger[it.tx] + 1 \in Versions
      BY <3>1, <3>2, BoundAssumption DEF LedgerOK, Versions
    <3>4. QED
      BY <3>1, <3>2, <3>3 DEF LedgerOK
  <2>2. CASE ~Execute(x)
    <3>1. UNCHANGED <<ledger, redactions, prepared, todo, locked>>
      BY <2>2 DEF RedactStep, Redact, Collect, Run, Skip, RunFails, RunReturns, ReadVersion, AdvanceTx
    <3>2. QED
      BY <3>1, LedgerFrame
  <2>3. QED
    BY <2>1, <2>2
<1>3. CallsOK'
  <2>1. UNCHANGED <<call, granted>>
    BY DEF RedactStep, Redact, Collect, Run, Execute, Skip, RunFails, RunReturns, ReadVersion, AdvanceTx
  <2>2. QED
    BY <1>1, <2>1, CallsKept
<1>4. RedactorsOK'
  <2>1. ASSUME NEW n \in 1 .. MaxBatch, NEW batch \in [1 .. n -> granted], Redact(x, batch)
        PROVE  RedactorsOK'
    BY <1>1, <2>1, RedactRound, RoundSet
  <2>2. CASE Collect(x)
    BY <1>1, <2>2, CollectRound, RoundSet
  <2>3. CASE RoundStep(x)
    <3>1. PICK r : Moved(r, x)
      BY <2>3, RoundMoves
    <3>2. redact' = [redact EXCEPT ![x] = r] /\ r \in {Idle} \cup RedactRecord /\ RoundPlace(r)
      BY <3>1, IdlePlace DEF Moved, Carried
    <3>3. QED
      BY <1>1, <3>2, RoundSet
  <2>4. QED
    BY <2>1, <2>2, <2>3 DEF RedactStep, RoundStep
<1>5. QED
  BY <1>1, <1>2, <1>3, <1>4

LEMMA StepTyped == Typed /\ [Next]_vars => Typed'
<1> SUFFICES ASSUME Typed, [Next]_vars PROVE Typed'
  OBVIOUS
<1>1. CASE UNCHANGED vars
  <2>1. GatewaysOK' /\ Kept
    BY <1>1, GatewaysFrame DEF vars
  <2>2. QED
    BY <1>1, <2>1, LedgerFrame, CallsKept, RedactorsKept DEF vars, Typed
<1>2. QED
  BY <1>1, PrepareTyped, AuthorizeTyped, RedactTyped DEF Next

-----------------------------------------------------------------------------
(* Whatever carries a version carries one the ledger has reached.          *)

LedgerGrows == \A t \in Tx : ledger[t] <= ledger'[t]

LEMMA LedgerNumbers ==
  ASSUME Typed
  PROVE  /\ \A t \in Tx : ledger[t] \in Nat
         /\ \A r \in Requests : prepared[r] \in Int
         /\ \A v \in Versions : v \in Nat
         /\ NotPrepared \in Int /\ \A t \in Tx : NotPrepared <= ledger[t]
  BY BoundAssumption DEF Typed, LedgerOK, Versions, NotPrepared

LEMMA SameLedgerGrows ==
  ASSUME Typed, UNCHANGED ledger
  PROVE  LedgerGrows
  BY LedgerNumbers DEF LedgerGrows

LEMMA ReachedGrows ==
  ASSUME Typed, Typed', LedgerGrows, UNCHANGED prepared,
         NEW r \in Requests, NEW v \in Versions, Reached(r, v)
  PROVE  Reached(r, v)'
<1>1. r.tx \in Tx /\ v \in Nat /\ ledger[r.tx] \in Nat /\ ledger'[r.tx] \in Nat
  BY RequestFacts, LedgerNumbers DEF Typed, LedgerOK, Versions
<1>2. v <= ledger'[r.tx]
  BY <1>1 DEF LedgerGrows, Reached
<1>3. QED
  BY <1>2 DEF Reached

LEMMA ItemGrows ==
  ASSUME Typed, Typed', LedgerGrows, NEW it \in RedactItem, ItemReached(it)
  PROVE  ItemReached(it)'
<1>1. it.tx \in Tx /\ it.did \in DIDs
  BY DEF RedactItem
<1>2. it.did[2] \in Versions
  BY <1>1 DEF DIDs
<1>3. it.did[2] \in Nat /\ ledger[it.tx] \in Nat /\ ledger'[it.tx] \in Nat
  BY <1>1, <1>2, BoundAssumption DEF Versions, Typed, LedgerOK
<1>4. it.did[2] <= ledger'[it.tx]
  BY <1>1, <1>3 DEF LedgerGrows, ItemReached
<1>5. QED
  BY <1>4 DEF ItemReached

(* The parts of VersionInv. *)
PreparedReached == \A r \in Requests : prepared[r] <= ledger[r.tx]

CallsReached == \A c \in Callers : call[c] # Idle => Reached(call[c].req, call[c].version)

GrantsReached == \A a \in granted : Reached(a.req, a.version)

RoundsReached == \A x \in Redactors : redact[x] # Idle => RoundReached(x)

LEMMA VersionParts ==
  VersionInv <=> /\ GatewayNeverAhead /\ DidNamesRedaction /\ PreparedReached
                 /\ CallsReached /\ GrantsReached /\ RoundsReached
  BY DEF VersionInv, PreparedReached, CallsReached, GrantsReached, RoundsReached

LEMMA GatewaysBehind ==
  ASSUME Typed, Typed', VersionInv, LedgerGrows, UNCHANGED gateways
  PROVE  GatewayNeverAhead'
<1> SUFFICES ASSUME NEW g \in Gateways, NEW t \in Tx
             PROVE  gateways[g].txVersion[t] <= ledger'[t]
  BY DEF GatewayNeverAhead, Gateways
<1>1. gateways[g].txVersion[t] \in Nat /\ ledger[t] \in Nat /\ ledger'[t] \in Nat
  BY GatewayOf, BoundAssumption DEF Typed, LedgerOK, Versions
<1>2. gateways[g].txVersion[t] <= ledger[t] /\ ledger[t] <= ledger'[t]
  BY DEF VersionInv, GatewayNeverAhead, LedgerGrows
<1>3. QED
  BY <1>1, <1>2

LEMMA CallsReachedFrame ==
  ASSUME Typed, Typed', VersionInv, LedgerGrows, UNCHANGED <<prepared, call>>
  PROVE  CallsReached'
<1> SUFFICES ASSUME NEW c \in Callers, call[c] # Idle
             PROVE  Reached(call[c].req, call[c].version)'
  BY DEF CallsReached
<1>1. call[c].req \in Requests /\ call[c].version \in Versions
  BY CallOf DEF Typed
<1>2. Reached(call[c].req, call[c].version)
  BY DEF VersionInv
<1>3. PICK r, v : r = call[c].req /\ v = call[c].version
  OBVIOUS
<1>4. Reached(r, v)'
  BY <1>1, <1>2, <1>3, ReachedGrows
<1>5. QED
  BY <1>3, <1>4 DEF Reached

LEMMA GrantsReachedFrame ==
  ASSUME Typed, Typed', VersionInv, LedgerGrows, UNCHANGED <<prepared, granted>>
  PROVE  GrantsReached'
<1> SUFFICES ASSUME NEW a \in granted PROVE Reached(a.req, a.version)'
  BY DEF GrantsReached
<1>1. a.req \in Requests /\ a.version \in Versions
  BY DEF Typed, CallsOK, Authorization
<1>2. Reached(a.req, a.version)
  BY DEF VersionInv
<1>3. QED
  BY <1>1, <1>2, ReachedGrows

LEMMA PreparedFrame ==
  ASSUME Typed, Typed', VersionInv, LedgerGrows, UNCHANGED prepared
  PROVE  PreparedReached'
<1> SUFFICES ASSUME NEW r \in Requests PROVE prepared[r] <= ledger'[r.tx]
  BY DEF PreparedReached
<1>1. r.tx \in Tx /\ prepared[r] \in Int /\ ledger[r.tx] \in Nat
  BY RequestFacts, LedgerNumbers
<1>2. ledger'[r.tx] \in Nat
  BY <1>1, BoundAssumption DEF Typed, LedgerOK, Versions
<1>3. prepared[r] <= ledger[r.tx] /\ ledger[r.tx] <= ledger'[r.tx]
  BY <1>1 DEF VersionInv, LedgerGrows
<1>4. QED
  BY <1>1, <1>2, <1>3

(* A round that carries the same, for another redactor or after a step.    *)
LEMMA RoundCarries ==
  ASSUME Typed, Typed', VersionInv, LedgerGrows, granted \subseteq granted',
         NEW x \in Redactors, redact[x] # Idle,
         redact'[x].auths = redact[x].auths, redact'[x].items = redact[x].items,
         redact'[x].stage = "told" =>
           \/ /\ redact[x].stage = "told" /\ redact'[x].k = redact[x].k
              /\ redact'[x].version = redact[x].version
           \/ /\ redact'[x].k = redact[x].k /\ ItemOf(x).tx \in Tx
              /\ redact'[x].version = ledger[ItemOf(x).tx]
  PROVE  RoundReached(x)'
<1>1. RoundReached(x) /\ redact[x].items \in Seq(RedactItem)
  BY RedactOf DEF VersionInv, Typed
<1>2. ASSUME NEW k \in DOMAIN redact[x].items PROVE ItemReached(redact[x].items[k])'
  <2>1. PICK it : it = redact[x].items[k]
    OBVIOUS
  <2>2. it \in RedactItem
    BY <1>1, <2>1, ElementOfSeq, LenProperties
  <2>3. ItemReached(it)
    BY <1>1, <2>1 DEF RoundReached
  <2>4. ItemReached(it)'
    BY <2>2, <2>3, ItemGrows
  <2>5. redact'[x].items[k] = it
    BY <2>1
  <2>6. QED
    BY <2>4, <2>5 DEF ItemReached
<1>3. ASSUME redact'[x].stage = "told" PROVE redact'[x].version <= ledger'[ItemOf(x)'.tx]
  <2>1. ItemOf(x)' = ItemOf(x)
    BY <1>3 DEF ItemOf
  <2>2. redact'[x].version <= ledger[ItemOf(x).tx] /\ ItemOf(x).tx \in Tx /\ redact'[x].version \in Nat
    <3>1. CASE /\ redact[x].stage = "told" /\ redact'[x].version = redact[x].version
      <4>1. redact[x].version <= ledger[ItemOf(x).tx]
        BY <1>1, <3>1 DEF RoundReached
      <4>2. ItemOf(x).tx \in Tx
        BY <3>1, ItemAt DEF Now, Typed
      <4>3. redact[x].version \in Nat
        BY RedactOf, LedgerNumbers DEF Typed
      <4>4. QED
        BY <3>1, <4>1, <4>2, <4>3
    <3>2. CASE ItemOf(x).tx \in Tx /\ redact'[x].version = ledger[ItemOf(x).tx]
      BY <3>2, LedgerNumbers
    <3>3. QED
      BY <1>3, <3>1, <3>2
  <2>3. ledger[ItemOf(x).tx] <= ledger'[ItemOf(x).tx] /\ ledger[ItemOf(x).tx] \in Nat
    BY <2>2, LedgerNumbers DEF LedgerGrows
  <2>4. ledger'[ItemOf(x).tx] \in Nat
    BY <2>2, BoundAssumption DEF Typed, LedgerOK, Versions
  <2>5. redact'[x].version <= ledger'[ItemOf(x).tx]
    BY <2>2, <2>3, <2>4
  <2>6. QED
    BY <2>1, <2>5
<1>4. \A k \in DOMAIN redact'[x].auths : redact'[x].auths[k] \in granted'
  BY <1>1 DEF RoundReached
<1>5. QED
  BY <1>2, <1>3, <1>4 DEF RoundReached

LEMMA RoundsFrame ==
  ASSUME Typed, Typed', VersionInv, LedgerGrows, granted \subseteq granted', UNCHANGED redact
  PROVE  RoundsReached'
<1> SUFFICES ASSUME NEW x \in Redactors, redact[x] # Idle PROVE RoundReached(x)'
  BY DEF RoundsReached
<1>1. QED
  BY RoundCarries

LEMMA PrepareReached ==
  ASSUME Typed, Typed', VersionInv, Prepare
  PROVE  VersionInv'
<1>1. UNCHANGED <<ledger, redactions, call, granted, redact>>
  BY DEF Prepare, StartTrace, PrepareOne, EndTrace
<1>2. LedgerGrows /\ DidNamesRedaction' /\ RoundsReached'
  BY <1>1, SameLedgerGrows, RoundsFrame DEF VersionInv, DidNamesRedaction
<1>3. ASSUME NEW trace \in Traces, StartTrace(trace) PROVE VersionInv'
  <2>1. \A r \in Requests : prepared'[r] = NotPrepared
    BY <1>3 DEF StartTrace
  <2>2. PreparedReached'
    BY <1>1, <2>1, RequestFacts, LedgerNumbers DEF PreparedReached
  <2>3. CallsReached'
    BY <1>1, <2>1, CallOf DEF CallsReached, Reached, VersionInv, Typed
  <2>4. GrantsReached'
    BY <1>1, <2>1 DEF GrantsReached, Reached, VersionInv, Typed, CallsOK, Authorization
  <2>5. GatewayNeverAhead'
    <3> SUFFICES ASSUME NEW g \in Gateways', NEW t \in Tx
                 PROVE  gateways'[g].txVersion[t] <= ledger'[t]
      BY DEF GatewayNeverAhead
    <3>1. CASE g \in Gateways
      BY <1>1, <1>3, <3>1, StartTraceGateways DEF VersionInv, GatewayNeverAhead
    <3>2. CASE g = Len(gateways')
      <4>1. gateways'[g].txVersion[t] = ledger[t]
        BY <1>3, <3>2, StartTraceGateways DEF NewGateway
      <4>2. QED
        BY <1>1, <4>1, LedgerNumbers
    <3>3. QED
      BY <1>3, <3>1, <3>2, StartTraceGateways
  <2>6. QED
    BY <1>2, <2>2, <2>3, <2>4, <2>5 DEF VersionInv, PreparedReached, CallsReached, GrantsReached,
       RoundsReached
<1>4. ASSUME NEW r \in Requests, PrepareOne(r) PROVE VersionInv'
  <2>1. UNCHANGED gateways /\ r.tx \in Tx /\ ledger[r.tx] \in Nat
    BY <1>4, RequestFacts, LedgerNumbers DEF PrepareOne
  <2>2. \A q \in Requests : prepared'[q] = IF q = r THEN ledger[r.tx] ELSE prepared[q]
    BY <1>4 DEF PrepareOne, Typed, LedgerOK
  <2>3. ASSUME NEW q \in Requests, NEW v \in Versions, Reached(q, v) PROVE Reached(q, v)'
    BY <1>1, <2>2, <2>3 DEF Reached
  <2>4. PreparedReached'
    BY <1>1, <2>1, <2>2 DEF PreparedReached, VersionInv
  <2>5. CallsReached'
    <3> SUFFICES ASSUME NEW c \in Callers, call[c] # Idle
                 PROVE  Reached(call[c].req, call[c].version)'
      BY <1>1 DEF CallsReached
    <3>1. PICK q, v : q = call[c].req /\ v = call[c].version
      OBVIOUS
    <3>2. q \in Requests /\ v \in Versions /\ Reached(q, v)
      BY <3>1, CallOf DEF VersionInv, Typed
    <3>3. Reached(q, v)'
      BY <2>3, <3>2
    <3>4. QED
      BY <1>1, <3>1, <3>3 DEF Reached
  <2>6. GrantsReached'
    BY <1>1, <2>3 DEF GrantsReached, VersionInv, Typed, CallsOK, Authorization
  <2>7. GatewayNeverAhead'
    BY <1>2, <2>1, GatewaysBehind
  <2>8. QED
    BY <1>2, <2>4, <2>5, <2>6, <2>7 DEF VersionInv, PreparedReached, CallsReached, GrantsReached,
       RoundsReached
<1>5. ASSUME EndTrace PROVE VersionInv'
  <2>1. UNCHANGED <<gateways, prepared>>
    BY <1>5 DEF EndTrace
  <2>2. QED
    BY <1>1, <1>2, <2>1, GatewaysBehind, PreparedFrame, CallsReachedFrame, GrantsReachedFrame
       DEF VersionInv, PreparedReached, CallsReached, GrantsReached, RoundsReached
<1>6. QED
  BY <1>3, <1>4, <1>5 DEF Prepare

(* The versions a gateway knows are not touched by Admit and Release. *)
LEMMA AuthorizeVersions ==
  ASSUME Typed, NEW c \in Callers, AuthorizeStep(c)
  PROVE  Gateways' = Gateways /\ \A g \in Gateways : gateways'[g].txVersion = gateways[g].txVersion
<1>1. CASE UNCHANGED gateways
  BY <1>1 DEF Gateways
<1>2. CASE Admit(c)
  BY <1>2, AdmitGateways
<1>3. CASE Refuse(c)
  BY <1>3, RefuseGateways
<1>4. QED
  BY <1>1, <1>2, <1>3 DEF AuthorizeStep, Authorize, CheckVersion, DenyStale, DenyDuplicate, Deny, Grant

LEMMA AuthorizeReached ==
  ASSUME Typed, Typed', VersionInv, NEW c \in Callers, AuthorizeStep(c)
  PROVE  VersionInv'
<1>1. UNCHANGED <<ledger, redactions, prepared, redact>>
  BY DEF AuthorizeStep, Authorize, CheckVersion, DenyStale, DenyDuplicate, Deny, Admit, Grant, Refuse
<1>2. granted \subseteq granted'
  BY DEF AuthorizeStep, Authorize, CheckVersion, DenyStale, DenyDuplicate, Deny, Admit, Grant, Refuse
<1>3. LedgerGrows /\ DidNamesRedaction' /\ RoundsReached' /\ PreparedReached'
  BY <1>1, <1>2, SameLedgerGrows, RoundsFrame, PreparedFrame DEF VersionInv, DidNamesRedaction
<1>4. GatewayNeverAhead'
  BY <1>1, AuthorizeVersions DEF VersionInv, GatewayNeverAhead
<1>5. ASSUME NEW q \in Requests, NEW v \in Versions, Reached(q, v) PROVE Reached(q, v)'
  BY <1>1, <1>5 DEF Reached
<1>6. CallsReached'
  <2> SUFFICES ASSUME NEW d \in Callers, call'[d] # Idle
               PROVE  Reached(call[d].req, call[d].version)'
    BY DEF CallsReached
  <2>1. CASE call[d] # Idle /\ call'[d].req = call[d].req /\ call'[d].version = call[d].version
    <3>1. PICK q, v : q = call[d].req /\ v = call[d].version
      OBVIOUS
    <3>2. q \in Requests /\ v \in Versions /\ Reached(q, v)
      BY <2>1, <3>1, CallOf DEF VersionInv, Typed
    <3>3. Reached(q, v)'
      BY <1>5, <3>2
    <3>4. QED
      BY <1>1, <2>1, <3>1, <3>3 DEF Reached
  <2>2. CASE \E r \in Requests : Authorize(c, r) /\ d = c
    <3>1. PICK r \in Requests : Authorize(c, r) /\ d = c
      BY <2>2
    <3>2. call'[d].req = r /\ call'[d].version = prepared[r] /\ prepared[r] # NotPrepared
      BY <3>1 DEF Authorize, Typed, CallsOK
    <3>3. prepared[r] <= ledger[r.tx] /\ prepared[r] \in Int
      BY LedgerNumbers DEF VersionInv
    <3>4. QED
      BY <1>1, <3>2, <3>3 DEF Reached
  <2>3. call \in [Callers -> {Idle} \cup CallRecord]
    BY DEF Typed, CallsOK
  <2>4. \/ \E r \in Requests : Authorize(c, r)
        \/ call' = [call EXCEPT ![c].stage = "checked"] /\ call[c] # Idle
        \/ call' = [call EXCEPT ![c].stage = "admitted"] /\ call[c] # Idle
        \/ call' = [call EXCEPT ![c] = Idle]
    BY StageNotIdle DEF AuthorizeStep, CheckVersion, DenyStale, DenyDuplicate, Deny, Admit, Grant, Refuse
  <2>5. \/ \E r \in Requests : Authorize(c, r) /\ d = c
        \/ call[d] # Idle /\ call'[d].req = call[d].req /\ call'[d].version = call[d].version
    <3>1. CASE d # c
      <4>1. call'[d] = call[d]
        BY <2>3, <2>4, <3>1 DEF Authorize
      <4>2. QED
        BY <4>1
    <3>2. CASE d = c
      <4>1. CASE call' = [call EXCEPT ![c] = Idle]
        BY <2>3, <3>2, <4>1
      <4>2. CASE call[c] # Idle /\ \E s \in {"checked", "admitted"} :
                   call' = [call EXCEPT ![c] = [call[c] EXCEPT !.stage = s]]
        <5>1. PICK s \in {"checked", "admitted"} :
                call' = [call EXCEPT ![c] = [call[c] EXCEPT !.stage = s]]
          BY <4>2
        <5>2. call'[c] = [call[c] EXCEPT !.stage = s]
          BY <2>3, <5>1
        <5>3. QED
          BY <3>2, <4>2, <5>2, CallStage
      <4>3. QED
        BY <2>4, <3>2, <4>1, <4>2
    <3>3. QED
      BY <3>1, <3>2
  <2>6. QED
    BY <2>1, <2>2, <2>5
<1>7. GrantsReached'
  <2> SUFFICES ASSUME NEW a \in granted' PROVE Reached(a.req, a.version)'
    BY DEF GrantsReached
  <2>1. CASE a \in granted
    BY <1>5, <2>1 DEF VersionInv, Typed, CallsOK, Authorization
  <2>2. CASE /\ call[c] # Idle
             /\ a = [req |-> call[c].req, version |-> call[c].version, gw |-> call[c].gw]
    BY <1>5, <2>2, CallOf DEF VersionInv, Typed
  <2>3. QED
    BY <2>1, <2>2, StageNotIdle DEF AuthorizeStep, Authorize, CheckVersion, DenyStale, DenyDuplicate,
       Deny, Admit, Grant, Refuse
<1>8. QED
  BY <1>3, <1>4, <1>6, <1>7 DEF VersionInv, PreparedReached, CallsReached, GrantsReached, RoundsReached

LEMMA RedactLedger ==
  ASSUME Typed, NEW x \in Redactors, RedactStep(x)
  PROVE  LedgerGrows /\ UNCHANGED <<prepared, call, granted>>
<1>1. UNCHANGED <<prepared, call, granted>>
  BY DEF RedactStep, Redact, Collect, Run, Execute, Skip, RunFails, RunReturns, ReadVersion, AdvanceTx
<1>2. CASE Execute(x)
  <2>1. ledger' = [ledger EXCEPT ![ItemOf(x).tx] = @ + 1] /\ ledger \in [Tx -> Versions]
    BY <1>2 DEF Execute, Typed, LedgerOK
  <2>2. \A t \in Tx : ledger[t] \in Nat
    BY LedgerNumbers
  <2>3. LedgerGrows
    BY <2>1, <2>2 DEF LedgerGrows
  <2>4. QED
    BY <1>1, <2>3
<1>3. CASE UNCHANGED ledger
  BY <1>1, <1>3, SameLedgerGrows
<1>4. QED
  BY <1>2, <1>3 DEF RedactStep, Redact, Collect, Run, Skip, RunFails, RunReturns, ReadVersion, AdvanceTx

(* An item is executed at the version its evidence was asked for. *)
LEMMA ExecuteNamesRedaction ==
  ASSUME Typed, VersionInv, NEW x \in Redactors, Execute(x)
  PROVE  DidNamesRedaction'
<1>1. /\ redact[x] # Idle /\ redact[x].k \in DOMAIN redact[x].items
      /\ ItemOf(x).tx \in Tx /\ ItemOf(x).version \in Versions /\ ItemOf(x).did \in DIDs
  BY ItemAt DEF Execute, Typed
<1>2. ItemReached(ItemOf(x))
  BY <1>1 DEF VersionInv, RoundReached, ItemOf
<1>3. PICK it : it = ItemOf(x)
  OBVIOUS
<1>4. ledger[it.tx] = it.version /\ ItemReached(it)
  BY <1>2, <1>3 DEF Execute
<1>5. it.did[2] \in Nat /\ it.version \in Nat
  BY <1>1, <1>3, LedgerNumbers DEF DIDs
<1>6. it.did[1] = it.tx /\ it.did[2] = it.version
  BY <1>4, <1>5 DEF ItemReached
<1>7. redactions' = redactions \cup {[tx |-> it.tx, from |-> it.version, did |-> it.did]}
  BY <1>3 DEF Execute
<1>8. QED
  BY <1>6, <1>7 DEF VersionInv, DidNamesRedaction

LEMMA AdvanceBehind ==
  ASSUME Typed, VersionInv, NEW x \in Redactors, AdvanceTx(x)
  PROVE  GatewayNeverAhead'
<1>1. UNCHANGED ledger /\ redact[x] # Idle /\ redact[x].stage = "told"
  BY RoundNotIdle DEF AdvanceTx, Now
<1>2. redact[x].version <= ledger[ItemOf(x).tx]
  BY <1>1 DEF VersionInv, RoundReached
<1>3. ASSUME NEW g \in Gateways, NEW t \in Tx PROVE gateways'[g].txVersion[t] <= ledger[t]
  <2>1. CASE g = redact[x].gw /\ t = ItemOf(x).tx
    BY <1>2, <2>1, AdvanceGateways
  <2>2. CASE ~(g = redact[x].gw /\ t = ItemOf(x).tx)
    <3>1. gateways'[g].txVersion[t] = gateways[g].txVersion[t]
      BY <2>2, AdvanceGateways
    <3>2. QED
      BY <3>1 DEF VersionInv, GatewayNeverAhead
  <2>3. QED
    BY <2>1, <2>2
<1>4. Gateways' = Gateways
  BY AdvanceGateways
<1>5. QED
  BY <1>1, <1>3, <1>4 DEF GatewayNeverAhead

(* What a redactor collects was granted, and its item is named after a      *)
(* statement prepared since.                                                *)
LEMMA CollectReached ==
  ASSUME Typed, Typed', VersionInv, NEW x \in Redactors, Collect(x)
  PROVE  RoundReached(x)'
<1>1. PICK a : a = Head(redact[x].auths)
  OBVIOUS
<1>2. PICK r : r = Collected(x)
  OBVIOUS
<1>3. /\ r \in RedactRecord /\ redact' = [redact EXCEPT ![x] = r] /\ RoundPlace(r)
      /\ redact[x] # Idle /\ r.stage = "collecting"
      /\ r.auths = Tail(redact[x].auths) /\ a \in Authorization
      /\ \/ r.items = redact[x].items
         \/ /\ prepared[a.req] \in Versions /\ ItemFor(a) \in RedactItem
            /\ r.items = Append(redact[x].items, ItemFor(a))
  BY <1>1, <1>2, CollectRound
<1>4. /\ redact[x].auths \in Seq(Authorization) /\ redact[x].items \in Seq(RedactItem)
      /\ redact[x].auths # <<>> /\ RoundReached(x)
  BY <1>3, RedactOf DEF Collect, VersionInv, Typed
<1>5. /\ Len(redact[x].auths) \in Nat \ {0} /\ a = redact[x].auths[1]
      /\ Len(r.auths) = Len(redact[x].auths) - 1 /\ r.auths \in Seq(Authorization)
      /\ \A k \in 1 .. Len(r.auths) : r.auths[k] = redact[x].auths[k + 1]
  BY <1>1, <1>3, <1>4, HeadTailProperties, LenProperties, EmptySeq
<1>6. DOMAIN redact[x].auths = 1 .. Len(redact[x].auths) /\ DOMAIN r.auths = 1 .. Len(r.auths)
  BY <1>4, <1>5, LenProperties
<1>7. a \in granted /\ \A k \in DOMAIN r.auths : r.auths[k] \in granted
  <2>1. \A k \in DOMAIN redact[x].auths : redact[x].auths[k] \in granted
    BY <1>4 DEF RoundReached
  <2>2. a \in granted
    BY <1>5, <1>6, <2>1
  <2>3. ASSUME NEW k \in DOMAIN r.auths PROVE r.auths[k] \in granted
    <3>1. k + 1 \in DOMAIN redact[x].auths /\ r.auths[k] = redact[x].auths[k + 1]
      BY <1>5, <1>6
    <3>2. QED
      BY <2>1, <3>1
  <2>4. QED
    BY <2>2, <2>3
<1>8. UNCHANGED <<ledger, prepared, granted>>
  BY DEF Collect
<1>9. \A k \in DOMAIN r.items : ItemReached(r.items[k])
  <2>1. CASE r.items = redact[x].items
    BY <1>4, <2>1 DEF RoundReached
  <2>2. CASE /\ prepared[a.req] \in Versions /\ ItemFor(a) \in RedactItem
             /\ r.items = Append(redact[x].items, ItemFor(a))
    <3>1. a.req \in Requests /\ a.version \in Versions /\ Reached(a.req, a.version)
      BY <1>3, <1>7 DEF VersionInv, Authorization
    <3>2. prepared[a.req] # NotPrepared
      BY <2>2, LedgerNumbers DEF NotPrepared
    <3>3. a.version <= prepared[a.req] /\ prepared[a.req] <= ledger[a.req.tx]
      BY <3>1, <3>2 DEF Reached, VersionInv
    <3>4. /\ DedupID(a.req, prepared[a.req])[1] = a.req.tx
          /\ DedupID(a.req, prepared[a.req])[2] = prepared[a.req]
      BY <2>2, <3>1, DIDFacts
    <3>5. ItemReached(ItemFor(a))
      BY <3>3, <3>4 DEF ItemReached, ItemFor
    <3>6. /\ Len(redact[x].items) \in Nat /\ Len(r.items) = Len(redact[x].items) + 1
          /\ \A k \in 1 .. Len(redact[x].items) : r.items[k] = redact[x].items[k]
          /\ r.items[Len(redact[x].items) + 1] = ItemFor(a) /\ r.items \in Seq(RedactItem)
      BY <1>4, <2>2, AppendProperties, LenProperties
    <3>7. /\ DOMAIN r.items = 1 .. Len(r.items)
          /\ DOMAIN redact[x].items = 1 .. Len(redact[x].items)
      BY <1>4, <3>6, LenProperties
    <3> SUFFICES ASSUME NEW k \in DOMAIN r.items PROVE ItemReached(r.items[k])
      OBVIOUS
    <3>8. CASE k \in 1 .. Len(redact[x].items)
      <4>1. ItemReached(redact[x].items[k])
        BY <1>4, <3>7, <3>8 DEF RoundReached
      <4>2. r.items[k] = redact[x].items[k]
        BY <3>6, <3>8
      <4>3. QED
        BY <4>1, <4>2
    <3>9. CASE k = Len(redact[x].items) + 1
      BY <3>5, <3>6, <3>9
    <3>10. QED
      BY <3>6, <3>7, <3>8, <3>9
  <2>3. QED
    BY <1>3, <2>1, <2>2
<1>10. redact'[x] = r
  BY <1>3 DEF Typed, RedactorsOK
<1>11. r.stage # "told"
  BY <1>3
<1>12. QED
  BY <1>7, <1>8, <1>9, <1>10, <1>11 DEF RoundReached, ItemReached

LEMMA RedactReached ==
  ASSUME Typed, Typed', VersionInv, NEW x \in Redactors, RedactStep(x)
  PROVE  VersionInv'
<1>1. LedgerGrows /\ UNCHANGED <<prepared, call, granted>>
  BY RedactLedger
<1>2. PreparedReached' /\ CallsReached' /\ GrantsReached'
  BY <1>1, PreparedFrame, CallsReachedFrame, GrantsReachedFrame
<1>3. GatewayNeverAhead'
  <2>1. CASE AdvanceTx(x)
    BY <2>1, AdvanceBehind
  <2>2. CASE UNCHANGED gateways
    BY <1>1, <2>2, GatewaysBehind
  <2>3. QED
    BY <2>1, <2>2 DEF RedactStep, Redact, Collect, Run, Execute, Skip, RunFails, RunReturns, ReadVersion
<1>4. DidNamesRedaction'
  <2>1. CASE Execute(x)
    BY <2>1, ExecuteNamesRedaction
  <2>2. CASE UNCHANGED redactions
    BY <2>2 DEF VersionInv, DidNamesRedaction
  <2>3. QED
    BY <2>1, <2>2 DEF RedactStep, Redact, Collect, Run, Skip, RunFails, RunReturns, ReadVersion, AdvanceTx
<1>5. RoundsReached'
  <2>1. ASSUME NEW r, redact' = [redact EXCEPT ![x] = r], r # Idle => RoundReached(x)'
        PROVE  RoundsReached'
    <3> SUFFICES ASSUME NEW y \in Redactors, redact'[y] # Idle PROVE RoundReached(y)'
      BY DEF RoundsReached
    <3>1. redact'[y] = IF y = x THEN r ELSE redact[y]
      BY <2>1 DEF Typed, RedactorsOK
    <3>2. CASE y = x
      BY <2>1, <3>1, <3>2
    <3>3. CASE y # x
      BY <1>1, <3>1, <3>3, RoundCarries
    <3>4. QED
      BY <3>2, <3>3
  <2>2. ASSUME NEW n \in 1 .. MaxBatch, NEW batch \in [1 .. n -> granted], Redact(x, batch)
        PROVE  RoundsReached'
    <3>1. redact'[x] = Started(batch) /\ redact' = [redact EXCEPT ![x] = Started(batch)]
      BY <2>2, RedactRound DEF Typed, RedactorsOK
    <3>2. /\ redact'[x].auths = batch /\ redact'[x].items = <<>> /\ redact'[x].stage = "collecting"
      BY <3>1 DEF Started
    <3>3. DOMAIN redact'[x].items = {}
      BY <3>2, EmptySeq
    <3>4. \A k \in DOMAIN batch : batch[k] \in granted
      OBVIOUS
    <3>5. RoundReached(x)'
      BY <1>1, <3>2, <3>3, <3>4 DEF RoundReached
    <3>6. QED
      BY <2>1, <3>1, <3>5
  <2>3. CASE Collect(x)
    BY <2>1, <2>3, CollectRound, CollectReached
  <2>4. CASE RoundStep(x)
    <3>1. PICK r : Moved(r, x)
      BY <2>4, RoundMoves
    <3>2. redact' = [redact EXCEPT ![x] = r] /\ redact'[x] = r
      BY <3>1 DEF Moved, Typed, RedactorsOK
    <3>3. ASSUME r # Idle PROVE RoundReached(x)'
      <4>1. Carried(r, x) /\ (r.stage = "told" => r.k = redact[x].k /\ r.version = ledger[ItemOf(x).tx])
        BY <3>1, <3>3 DEF Moved
      <4>2. /\ redact[x] # Idle /\ redact'[x].auths = redact[x].auths
            /\ redact'[x].items = redact[x].items
        BY <3>2, <4>1 DEF Carried
      <4>3. ASSUME r.stage = "told" PROVE ItemOf(x).tx \in Tx
        <5>1. r.k \in 1 .. Len(redact[x].items) /\ redact[x].items \in Seq(RedactItem)
          BY <4>1, <4>2, <4>3, RedactOf DEF Carried, RoundPlace, Typed
        <5>2. redact[x].items[redact[x].k] \in RedactItem
          BY <4>1, <4>3, <5>1, ElementOfSeq
        <5>3. QED
          BY <5>2 DEF ItemOf, RedactItem
      <4>4. QED
        BY <1>1, <3>2, <4>1, <4>2, <4>3, RoundCarries
    <3>4. QED
      BY <2>1, <3>2, <3>3
  <2>5. QED
    BY <2>2, <2>3, <2>4 DEF RedactStep, RoundStep
<1>6. QED
  BY <1>2, <1>3, <1>4, <1>5 DEF VersionInv, PreparedReached, CallsReached, GrantsReached, RoundsReached

-----------------------------------------------------------------------------
(* Who holds an identifier.                                                *)

(* Nothing changes about an identifier of a gateway. *)
LEMMA HeldKept ==
  ASSUME NEW g, NEW did, Held(g, did),
         \A d \in Callers : Takes(d, g, did)' <=> Takes(d, g, did),
         \A d \in Callers : Takes(d, g, did) => call'[d].req = call[d].req,
         \A a : (a \in granted' /\ Owns(a, g, did)) <=> (a \in granted /\ Owns(a, g, did)),
         did \in gateways'[g].seen <=> did \in gateways[g].seen,
         gateways'[g].attribution[did] = gateways[g].attribution[did]
  PROVE  Held(g, did)'
<1>1. ASSUME NEW a PROVE Owns(a, g, did)' <=> Owns(a, g, did)
  BY DEF Owns
<1>2. \A c, d \in Callers : Takes(c, g, did)' /\ Takes(d, g, did)' => c = d
  BY DEF Held
<1>3. \A a, b \in granted' : Owns(a, g, did) /\ Owns(b, g, did) => a = b
  BY DEF Held
<1>4. \A c \in Callers, a \in granted' : ~(Takes(c, g, did)' /\ Owns(a, g, did))
  BY DEF Held
<1>5. did \in gateways'[g].seen <=>
        (\E c \in Callers : Takes(c, g, did)') \/ (\E a \in granted' : Owns(a, g, did))
  BY DEF Held
<1>6. \A c \in Callers : Takes(c, g, did)' => gateways'[g].attribution[did] = call'[c].req.by
  BY DEF Held
<1>7. \A a \in granted' : Owns(a, g, did) => gateways'[g].attribution[did] = a.req.by
  BY DEF Held
<1>8. QED
  BY <1>1, <1>2, <1>3, <1>4, <1>5, <1>6, <1>7 DEF Held

(* No caller that moves holds anything, before or after. *)
LEMMA HoldersFrame ==
  ASSUME HolderInv, UNCHANGED granted, Gateways' = Gateways,
         \A d \in Callers : call'[d] = call[d] \/
           (call[d].stage # "admitted" /\ call'[d].stage # "admitted"),
         \A g \in Gateways : /\ gateways'[g].seen = gateways[g].seen
                            /\ gateways'[g].attribution = gateways[g].attribution
  PROVE  HolderInv'
<1> SUFFICES ASSUME NEW g \in Gateways, NEW did \in DIDs PROVE Held(g, did)'
  BY DEF HolderInv
<1>1. Held(g, did)
  BY DEF HolderInv
<1>2. \A d \in Callers : Takes(d, g, did)' <=> Takes(d, g, did)
  BY DEF Takes, DIDOf
<1>3. \A d \in Callers : Takes(d, g, did) => call'[d].req = call[d].req
  BY DEF Takes
<1>4. QED
  BY <1>1, <1>2, <1>3, HeldKept

LEMMA PrepareHolders ==
  ASSUME Typed, HolderInv, Prepare
  PROVE  HolderInv'
<1>1. UNCHANGED <<call, granted>>
  BY DEF Prepare, StartTrace, PrepareOne, EndTrace
<1>2. CASE UNCHANGED gateways
  BY <1>1, <1>2, HoldersFrame DEF Gateways
<1>3. ASSUME NEW trace \in Traces, StartTrace(trace) PROVE HolderInv'
  <2> SUFFICES ASSUME NEW g \in Gateways', NEW did \in DIDs PROVE Held(g, did)'
    BY DEF HolderInv
  <2>1. CASE g \in Gateways
    <3>1. Held(g, did) /\ gateways'[g] = gateways[g]
      BY <1>3, <2>1, StartTraceGateways DEF HolderInv
    <3>2. \A d \in Callers : Takes(d, g, did)' <=> Takes(d, g, did)
      BY <1>1 DEF Takes, DIDOf
    <3>3. QED
      BY <1>1, <3>1, <3>2, HeldKept
  <2>2. CASE g \notin Gateways
    <3>1. g = Len(gateways') /\ gateways'[g] = NewGateway(ledger)
      BY <1>3, <2>2, StartTraceGateways
    <3>2. gateways'[g].seen = {}
      BY <3>1 DEF NewGateway
    <3>3. \A c \in Callers : ~Takes(c, g, did)'
      <4>1. \A c \in Callers : ~Takes(c, g, did)
        BY <2>2, CallOf, StageNotIdle DEF Takes, Typed
      <4>2. QED
        BY <1>1, <4>1 DEF Takes, DIDOf
    <3>4. \A a \in granted' : ~Owns(a, g, did)'
      BY <1>1, <2>2 DEF Owns, Typed, CallsOK, Authorization
    <3>5. QED
      BY <3>2, <3>3, <3>4 DEF Held
  <2>3. QED
    BY <2>1, <2>2
<1>4. QED
  BY <1>2, <1>3 DEF Prepare, PrepareOne, EndTrace

LEMMA RedactHolders ==
  ASSUME Typed, HolderInv, NEW x \in Redactors, RedactStep(x)
  PROVE  HolderInv'
<1>1. UNCHANGED <<call, granted>>
  BY RedactLedger
<1>2. CASE UNCHANGED gateways
  BY <1>1, <1>2, HoldersFrame DEF Gateways
<1>3. CASE AdvanceTx(x)
  BY <1>1, <1>3, AdvanceGateways, HoldersFrame
<1>4. QED
  BY <1>2, <1>3 DEF RedactStep, Redact, Collect, Run, Execute, Skip, RunFails, RunReturns, ReadVersion

(* What happens to the call of one caller. *)
LEMMA CallMoves ==
  ASSUME Typed, NEW c \in Callers, AuthorizeStep(c)
  PROVE  \A d \in Callers \ {c} : call'[d] = call[d]
  BY DEF AuthorizeStep, Authorize, CheckVersion, DenyStale, DenyDuplicate, Deny, Admit, Grant, Refuse,
     Typed, CallsOK

LEMMA AdmitHolders ==
  ASSUME Typed, HolderInv, NEW c \in Callers, Admit(c)
  PROVE  HolderInv'
<1> DEFINE g0 == call[c].gw
           did0 == DIDOf(c)
<1>1. /\ call[c] # Idle /\ Gateways' = Gateways
      /\ gateways'[g0].seen = gateways[g0].seen \cup {did0}
      /\ \A d \in DIDs : gateways'[g0].attribution[d] =
           IF d = did0 THEN call[c].req.by ELSE gateways[g0].attribution[d]
      /\ \A h \in Gateways \ {g0} : gateways'[h] = gateways[h]
  BY AdmitGateways
<1>2. /\ call'[c].stage = "admitted" /\ call'[c].req = call[c].req
      /\ call'[c].gw = g0 /\ call'[c].version = call[c].version
      /\ call[c].stage = "checked"
  <2>1. call' = [call EXCEPT ![c] = [call[c] EXCEPT !.stage = "admitted"]]
    BY DEF Admit
  <2>2. call'[c] = [call[c] EXCEPT !.stage = "admitted"]
    BY <2>1 DEF Typed, CallsOK
  <2>3. QED
    BY <1>1, <2>2, CallStage DEF Admit
<1>3. \A d \in Callers \ {c} : call'[d] = call[d]
  BY CallMoves DEF AuthorizeStep
<1>4. did0 \notin gateways[g0].seen /\ UNCHANGED granted
  BY DEF Admit, IsDuplicate
<1>5. g0 \in Gateways /\ did0 \in DIDs
  BY <1>1, CallOf DEF Typed
<1>6. PICK h0, e0 : h0 = g0 /\ e0 = did0
  OBVIOUS
<1>7. \A g, did : Takes(c, g, did)' <=> g = g0 /\ did = did0
  BY <1>2 DEF Takes, DIDOf
<1>8. \A d \in Callers \ {c} : \A g, did : Takes(d, g, did)' <=> Takes(d, g, did)
  BY <1>3 DEF Takes, DIDOf
<1>9. \A g, did : ~Takes(c, g, did)
  BY <1>2 DEF Takes
<1> SUFFICES ASSUME NEW g \in Gateways, NEW did \in DIDs PROVE Held(g, did)'
  BY <1>1 DEF HolderInv
<1>10. Held(g, did)
  BY DEF HolderInv
<1>11. \A a : Owns(a, g, did)' <=> Owns(a, g, did)
  BY DEF Owns
<1>12. CASE g = h0 /\ did = e0
  <2>1. did \notin gateways[g].seen
    BY <1>4, <1>6, <1>12
  <2>2. /\ \A d \in Callers : ~Takes(d, g, did)
        /\ \A a \in granted : ~Owns(a, g, did)
    BY <1>10, <2>1 DEF Held
  <2>3. \A d \in Callers : Takes(d, g, did)' <=> d = c
    BY <1>6, <1>7, <1>8, <1>12, <2>2
  <2>4. \A a \in granted' : ~Owns(a, g, did)'
    BY <1>4, <1>11, <2>2
  <2>5. did \in gateways'[g].seen /\ gateways'[g].attribution[did] = call'[c].req.by
    BY <1>1, <1>2, <1>6, <1>12
  <2>6. QED
    BY <2>3, <2>4, <2>5 DEF Held
<1>13. CASE ~(g = h0 /\ did = e0)
  <2>1. \A d \in Callers : Takes(d, g, did)' <=> Takes(d, g, did)
    BY <1>6, <1>7, <1>8, <1>9, <1>13
  <2>2. \A d \in Callers : Takes(d, g, did) => call'[d].req = call[d].req
    BY <1>2, <1>3
  <2>3. did \in gateways'[g].seen <=> did \in gateways[g].seen
    BY <1>1, <1>6, <1>13
  <2>4. gateways'[g].attribution[did] = gateways[g].attribution[did]
    BY <1>1, <1>6, <1>13
  <2>5. QED
    BY <1>4, <1>10, <2>1, <2>2, <2>3, <2>4, HeldKept
<1>14. QED
  BY <1>12, <1>13

LEMMA RefuseHolders ==
  ASSUME Typed, HolderInv, NEW c \in Callers, Refuse(c)
  PROVE  HolderInv'
<1> DEFINE g0 == call[c].gw
           did0 == DIDOf(c)
<1>1. /\ Gateways' = Gateways
      /\ gateways'[g0].seen = gateways[g0].seen \ {did0}
      /\ gateways'[g0].attribution = gateways[g0].attribution
      /\ \A h \in Gateways \ {g0} : gateways'[h] = gateways[h]
  BY RefuseGateways
<1>2. call'[c] = Idle /\ call[c].stage = "admitted" /\ UNCHANGED granted
  BY DEF Refuse, Typed, CallsOK
<1>3. \A d \in Callers \ {c} : call'[d] = call[d]
  BY CallMoves DEF AuthorizeStep
<1>4. PICK h0, e0 : h0 = g0 /\ e0 = did0
  OBVIOUS
<1>5. Takes(c, h0, e0) /\ \A g, did : Takes(c, g, did) <=> g = h0 /\ did = e0
  BY <1>2, <1>4 DEF Takes
<1>6. \A g, did : ~Takes(c, g, did)'
  BY <1>2 DEF Takes, Idle
<1>7. \A d \in Callers \ {c} : \A g, did : Takes(d, g, did)' <=> Takes(d, g, did)
  BY <1>3 DEF Takes, DIDOf
<1> SUFFICES ASSUME NEW g \in Gateways, NEW did \in DIDs PROVE Held(g, did)'
  BY <1>1 DEF HolderInv
<1>8. Held(g, did)
  BY DEF HolderInv
<1>9. \A a : Owns(a, g, did)' <=> Owns(a, g, did)
  BY DEF Owns
<1>10. CASE g = h0 /\ did = e0
  <2>1. /\ \A d \in Callers \ {c} : ~Takes(d, g, did)
        /\ \A a \in granted : ~Owns(a, g, did)
    BY <1>5, <1>8, <1>10 DEF Held
  <2>2. \A d \in Callers : ~Takes(d, g, did)'
    BY <1>6, <1>7, <2>1
  <2>3. \A a \in granted' : ~Owns(a, g, did)'
    BY <1>2, <1>9, <2>1
  <2>4. did \notin gateways'[g].seen
    BY <1>1, <1>4, <1>10
  <2>5. QED
    BY <2>2, <2>3, <2>4 DEF Held
<1>11. CASE ~(g = h0 /\ did = e0)
  <2>1. \A d \in Callers : Takes(d, g, did)' <=> Takes(d, g, did)
    BY <1>5, <1>6, <1>7, <1>11
  <2>2. \A d \in Callers : Takes(d, g, did) => call'[d].req = call[d].req
    BY <1>3, <1>5, <1>11
  <2>3. did \in gateways'[g].seen <=> did \in gateways[g].seen
    BY <1>1, <1>4, <1>11
  <2>4. gateways'[g].attribution[did] = gateways[g].attribution[did]
    BY <1>1, <1>4, <1>11
  <2>5. QED
    BY <1>2, <1>8, <2>1, <2>2, <2>3, <2>4, HeldKept
<1>12. QED
  BY <1>10, <1>11

(* The identifier passes from the caller to what it is granted. *)
LEMMA GrantHolders ==
  ASSUME Typed, HolderInv, NEW c \in Callers, Grant(c)
  PROVE  HolderInv'
<1>1. PICK new : new = [req |-> call[c].req, version |-> call[c].version, gw |-> call[c].gw]
  OBVIOUS
<1>2. PICK h0, e0 : h0 = call[c].gw /\ e0 = DIDOf(c)
  OBVIOUS
<1>3. /\ call'[c] = Idle /\ call[c].stage = "admitted" /\ UNCHANGED gateways
      /\ granted' = granted \cup {new}
  BY <1>1 DEF Grant, Typed, CallsOK
<1>4. \A d \in Callers \ {c} : call'[d] = call[d]
  BY CallMoves DEF AuthorizeStep
<1>5. Takes(c, h0, e0) /\ \A g, did : Takes(c, g, did) <=> g = h0 /\ did = e0
  BY <1>2, <1>3 DEF Takes
<1>6. /\ new.req = call[c].req /\ new.version = call[c].version /\ new.gw = call[c].gw
  BY <1>1
<1>7. \A g, did : Owns(new, g, did) <=> g = h0 /\ did = e0
  BY <1>2, <1>6 DEF Owns, DIDOf
<1>8. \A g, did : ~Takes(c, g, did)'
  BY <1>3 DEF Takes, Idle
<1>9. \A d \in Callers \ {c} : \A g, did : Takes(d, g, did)' <=> Takes(d, g, did)
  BY <1>4 DEF Takes, DIDOf
<1> SUFFICES ASSUME NEW g \in Gateways, NEW did \in DIDs PROVE Held(g, did)'
  BY <1>3 DEF HolderInv, Gateways
<1>10. Held(g, did)
  BY DEF HolderInv
<1>11. \A a : Owns(a, g, did)' <=> Owns(a, g, did)
  BY DEF Owns
<1>12. CASE g = h0 /\ did = e0
  <2>1. /\ \A d \in Callers \ {c} : ~Takes(d, g, did)
        /\ \A a \in granted : ~Owns(a, g, did)
    BY <1>5, <1>10, <1>12 DEF Held
  <2>2. \A d \in Callers : ~Takes(d, g, did)'
    BY <1>8, <1>9, <2>1
  <2>3. \A a \in granted' : Owns(a, g, did)' <=> a = new
    BY <1>3, <1>7, <1>11, <1>12, <2>1
  <2>4. new \in granted' /\ did \in gateways'[g].seen
    BY <1>3, <1>5, <1>10, <1>12 DEF Held
  <2>5. gateways'[g].attribution[did] = new.req.by
    BY <1>3, <1>5, <1>6, <1>10, <1>12 DEF Held
  <2>6. QED
    BY <2>2, <2>3, <2>4, <2>5 DEF Held
<1>13. CASE ~(g = h0 /\ did = e0)
  <2>1. \A d \in Callers : Takes(d, g, did)' <=> Takes(d, g, did)
    BY <1>5, <1>8, <1>9, <1>13
  <2>2. \A d \in Callers : Takes(d, g, did) => call'[d].req = call[d].req
    BY <1>4, <1>5, <1>13
  <2>3. \A a : (a \in granted' /\ Owns(a, g, did)) <=> (a \in granted /\ Owns(a, g, did))
    BY <1>3, <1>7, <1>13
  <2>4. QED
    BY <1>3, <1>10, <2>1, <2>2, <2>3, HeldKept
<1>14. QED
  BY <1>12, <1>13

LEMMA AuthorizeHolders ==
  ASSUME Typed, HolderInv, NEW c \in Callers, AuthorizeStep(c)
  PROVE  HolderInv'
<1>1. \A d \in Callers \ {c} : call'[d] = call[d]
  BY CallMoves
<1>2. ASSUME UNCHANGED <<gateways, granted>>,
             call[c].stage # "admitted" /\ call'[c].stage # "admitted"
      PROVE  HolderInv'
  BY <1>1, <1>2, HoldersFrame DEF Gateways
<1>3. ASSUME NEW r \in Requests, Authorize(c, r) PROVE HolderInv'
  <2>1. call[c].stage # "admitted" /\ call'[c].stage = "arrived" /\ UNCHANGED <<gateways, granted>>
    BY <1>3 DEF Authorize, Typed, CallsOK, Idle
  <2>2. QED
    BY <1>2, <2>1
<1>4. CASE CheckVersion(c)
  <2>1. call[c].stage = "arrived" /\ call' = [call EXCEPT ![c] = [call[c] EXCEPT !.stage = "checked"]]
    BY <1>4 DEF CheckVersion
  <2>2. call'[c] = [call[c] EXCEPT !.stage = "checked"] /\ call[c] # Idle
    BY <2>1, StageNotIdle DEF Typed, CallsOK
  <2>3. call'[c].stage = "checked"
    BY <2>2, CallStage
  <2>4. QED
    BY <1>2, <1>4, <2>1, <2>3 DEF CheckVersion
<1>5. CASE DenyStale(c) \/ DenyDuplicate(c)
  <2>1. call[c].stage # "admitted" /\ call'[c] = Idle /\ UNCHANGED <<gateways, granted>>
    BY <1>5 DEF DenyStale, DenyDuplicate, Deny, Typed, CallsOK
  <2>2. QED
    BY <1>2, <2>1 DEF Idle
<1>6. QED
  BY <1>3, <1>4, <1>5, AdmitHolders, RefuseHolders, GrantHolders DEF AuthorizeStep

-----------------------------------------------------------------------------
(* The theorems.                                                           *)

LEMMA InitHolds == Init => IInv
<1> SUFFICES ASSUME Init PROVE IInv
  OBVIOUS
<1>1. Typed
  BY InitTyped
<1>2. gateways = <<NewGateway(ledger)>> /\ Len(gateways) = 1 /\ Gateways = {1}
  BY DEF Init, Gateways
<1>3. gateways[1] = NewGateway(ledger)
  BY <1>2
<1>4. \A t \in Tx : ledger[t] = 0
  BY DEF Init
<1>5. GatewayNeverAhead
  BY <1>2, <1>3, <1>4 DEF GatewayNeverAhead, NewGateway
<1>6. PreparedReached
  BY <1>4, RequestFacts DEF PreparedReached, Init, NotPrepared
<1>7. DidNamesRedaction /\ CallsReached /\ GrantsReached /\ RoundsReached
  BY DEF Init, DidNamesRedaction, CallsReached, GrantsReached, RoundsReached
<1>8. HolderInv
  <2> SUFFICES ASSUME NEW g \in Gateways, NEW did \in DIDs PROVE Held(g, did)
    BY DEF HolderInv
  <2>1. gateways[g].seen = {}
    BY <1>2, <1>3 DEF NewGateway
  <2>2. \A c \in Callers : ~Takes(c, g, did)
    BY DEF Init, Takes, Idle
  <2>3. granted = {}
    BY DEF Init
  <2>4. QED
    BY <2>1, <2>2, <2>3 DEF Held
<1>9. QED
  BY <1>1, <1>5, <1>6, <1>7, <1>8, VersionParts DEF IInv

LEMMA StepInductive == IInv /\ [Next]_vars => IInv'
<1> SUFFICES ASSUME IInv, [Next]_vars PROVE IInv'
  OBVIOUS
<1> USE DEF IInv
<1>1. Typed'
  BY StepTyped
<1>2. CASE UNCHANGED vars
  <2>1. VersionInv'
    BY <1>1, <1>2, SameLedgerGrows, GatewaysBehind, PreparedFrame, CallsReachedFrame,
       GrantsReachedFrame, RoundsFrame
       DEF vars, VersionInv, DidNamesRedaction, PreparedReached, CallsReached, GrantsReached,
       RoundsReached
  <2>2. HolderInv'
    BY <1>2, HoldersFrame DEF vars, Gateways
  <2>3. QED
    BY <1>1, <2>1, <2>2
<1>3. CASE Prepare
  BY <1>1, <1>3, PrepareReached, PrepareHolders
<1>4. ASSUME NEW c \in Callers, AuthorizeStep(c) PROVE IInv'
  BY <1>1, <1>4, AuthorizeReached, AuthorizeHolders
<1>5. ASSUME NEW x \in Redactors, RedactStep(x) PROVE IInv'
  BY <1>1, <1>5, RedactReached, RedactHolders
<1>6. QED
  BY <1>2, <1>3, <1>4, <1>5 DEF Next

(* The inductive invariant holds in every reachable state. *)
THEOREM Inductive == Spec => []IInv
  BY InitHolds, StepInductive, PTL DEF Spec

(* Type correctness of the gateways, the calls and the redactors. *)
THEOREM TypeCorrect == Spec => []TypeOK
<1>1. IInv => TypeOK
  BY DEF IInv, Typed, LedgerOK, GatewaysOK, CallsOK, RedactorsOK, RoundPlace, CallRecord,
     RedactRecord, TypeOK
<1>2. QED
  BY <1>1, Inductive, PTL

(* Evidence is stored under the version the redaction was executed at,      *)
(* however often PrepareTrace replaces the statements in between (didFor).  *)
THEOREM DidsNameRedactions == Spec => []DidNamesRedaction
<1>1. IInv => DidNamesRedaction
  BY DEF IInv, VersionInv
<1>2. QED
  BY <1>1, Inductive, PTL

(* No gateway, in force or replaced, is ahead of the ledger: AdvanceTx only *)
(* ever tells one a version the ledger has reached.                         *)
THEOREM GatewaysNeverAhead == Spec => []GatewayNeverAhead
<1>1. IInv => GatewayNeverAhead
  BY DEF IInv, VersionInv
<1>2. QED
  BY <1>1, Inductive, PTL

(* The holders of an identifier, from what Held says of them.              *)
LEMMA HoldersCounted ==
  ASSUME Typed, NEW g \in Gateways, NEW did \in DIDs, Held(g, did)
  PROVE  Cardinality(Holders(g, did)) = IF did \in gateways[g].seen THEN 1 ELSE 0
<1>1. Holders(g, did) = {c \in Callers : Takes(c, g, did)} \cup {a \in granted : Owns(a, g, did)}
  BY DEF Holders, Takes, Owns
<1>2. CASE did \notin gateways[g].seen
  <2>1. Holders(g, did) = {}
    BY <1>1, <1>2 DEF Held
  <2>2. QED
    BY <1>2, <2>1, FS_EmptySet
<1>3. ASSUME did \in gateways[g].seen PROVE \E h : Holders(g, did) = {h}
  <2>1. CASE \E c \in Callers : Takes(c, g, did)
    <3>1. PICK c \in Callers : Takes(c, g, did)
      BY <2>1
    <3>2. Holders(g, did) = {c}
      BY <1>1, <3>1 DEF Held
    <3>3. QED
      BY <3>2
  <2>2. CASE \E a \in granted : Owns(a, g, did)
    <3>1. PICK a \in granted : Owns(a, g, did)
      BY <2>2
    <3>2. Holders(g, did) = {a}
      BY <1>1, <3>1 DEF Held
    <3>3. QED
      BY <3>2
  <2>3. QED
    BY <1>3, <2>1, <2>2 DEF Held
<1>4. CASE did \in gateways[g].seen
  <2>1. PICK h : Holders(g, did) = {h}
    BY <1>3, <1>4
  <2>2. Cardinality(Holders(g, did)) = 1
    BY <2>1, FS_Singleton
  <2>3. QED
    BY <1>4, <2>2
<1>5. QED
  BY <1>2, <1>4

(* One holder for every identifier a gateway has seen, and none for the     *)
(* others: no redaction is granted twice by a gateway, and none refused     *)
(* stays blocked (Admit, Release).                                          *)
THEOREM OneHolderEach == Spec => []OneHolder
<1>1. IInv => OneHolder
  BY HoldersCounted DEF IInv, HolderInv, OneHolder
<1>2. QED
  BY <1>1, Inductive, PTL

(* The gateway that granted a redaction knows who asked for it. *)
THEOREM GrantsAttributed == Spec => []GrantAttributed
<1>1. ASSUME IInv, NEW a \in granted
      PROVE  gateways[a.gw].attribution[DedupID(a.req, a.version)] = a.req.by
  <2>1. a.gw \in Gateways /\ a.req \in Requests /\ a.version \in Versions
    BY <1>1 DEF IInv, Typed, CallsOK, Authorization
  <2>2. PICK g, did : g = a.gw /\ did = DedupID(a.req, a.version)
    OBVIOUS
  <2>3. Held(g, did) /\ Owns(a, g, did)
    BY <1>1, <2>1, <2>2, DIDFacts DEF IInv, HolderInv, Owns
  <2>4. QED
    BY <2>2, <2>3 DEF Held
<1>2. IInv => GrantAttributed
  BY <1>1 DEF GrantAttributed
<1>3. QED
  BY <1>2, Inductive, PTL
=============================================================================
