----------------------------- MODULE Admission -----------------------------
(***************************************************************************)
(* Phase 2 of ZK-Redact and what surrounds it: the gateway that admits a   *)
(* request once (internal/gateway/gateway.go), PrepareTrace, which proves  *)
(* the requests of a replay and replaces the gateway, Authorize, which     *)
(* takes an admitted request to its verdict, and Redact, which executes    *)
(* what was granted and tells the gateway (zkredact/authorize.go,          *)
(* redaction.go).                                                          *)
(*                                                                         *)
(* The scheme's lock covers PrepareTrace and the snapshots the others take *)
(* of the gateway and of the prepared requests; the gateway has a lock of  *)
(* its own, taken twice by Admit; the executor runs one round at a time.   *)
(* Authorize, and a Redact with its round, use their snapshots after the   *)
(* lock is given up.                                                       *)
(*                                                                         *)
(* Requests are those that pass the checks no state enters: signature,     *)
(* time stamp and policy.  The others are denied before anything changes.  *)
(* The verdict of the verification layer is its own (ProofService).        *)
(***************************************************************************)
EXTENDS Integers, Sequences, FiniteSets

CONSTANTS
  Tx,          \* transactions
  Requesters,  \* registered requesters
  Mods,        \* what a request writes, where, and under which policy
  Requests,    \* the requests of a trace
  Traces,      \* the sets of requests PrepareTrace is called with
  Nobody,      \* no requester
  Callers,     \* concurrent callers of Authorize
  Redactors,   \* concurrent callers of Redact
  Overlap,     \* whether Redact overlaps PrepareTrace and other Redacts
  Cancels,     \* whether the context of a Redact may end
  MaxBatch,    \* bound: authorizations in one Redact
  MaxVersion,  \* bound: redactions of one transaction
  MaxGateways  \* bound: gateways made, the first one by Setup

Versions == 0 .. MaxVersion

NotPrepared == -1

ASSUME RequestAssumption ==
  /\ Requests \subseteq [by: Requesters, tx: Tx, mod: Mods]
  /\ Traces \subseteq SUBSET Requests
  /\ Nobody \notin Requesters
ASSUME BoundAssumption ==
  /\ Overlap \in BOOLEAN /\ Cancels \in BOOLEAN
  /\ MaxVersion \in Nat /\ MaxBatch \in Nat /\ MaxGateways \in Nat \ {0}

VARIABLES
  ledger,     \* the version of every transaction
  redactions, \* the redactions executed: transaction, version, identifier
  gateways,   \* every gateway made: pending identifiers, requesters, versions
  prepared,   \* the version in the statement a request was prepared with
  todo,       \* requests PrepareTrace has still to prepare
  locked,     \* PrepareTrace holds the scheme's lock
  call,       \* where each caller stands in Authorize
  granted,    \* authorizations returned, with the gateway that admitted them
  redact      \* where each redactor stands in Redact

vars == <<ledger, redactions, gateways, prepared, todo, locked, call, granted, redact>>

(* Scheme.gw. *)
Current == Len(gateways)

(* DID_i *)
DedupID(r, version) == <<r.tx, version, r.mod>>

DIDs == Tx \X Versions \X Mods

NewGateway(versions) ==
  [seen |-> {}, attribution |-> [d \in DIDs |-> Nobody], txVersion |-> versions]

Idle == [stage |-> "idle"]

Init ==
  /\ ledger     = [t \in Tx |-> 0]
  /\ redactions = {}
  /\ gateways   = <<NewGateway(ledger)>>
  /\ prepared   = [r \in Requests |-> NotPrepared]
  /\ todo       = {}
  /\ locked     = FALSE
  /\ call       = [c \in Callers |-> Idle]
  /\ granted    = {}
  /\ redact     = [x \in Redactors |-> Idle]

-----------------------------------------------------------------------------
(* Scheme.PrepareTrace, under the write lock. *)

FreshGateway == NewGateway(ledger)

(* Nothing of the old gateway is carried over. *)
StartTrace(trace) ==
  /\ ~locked
  /\ Overlap \/ \A x \in Redactors : redact[x] = Idle
  /\ Len(gateways) < MaxGateways
  /\ gateways' = Append(gateways, FreshGateway)
  /\ prepared' = [r \in Requests |-> NotPrepared]
  /\ todo' = trace
  /\ locked' = TRUE
  /\ UNCHANGED <<ledger, redactions, call, granted, redact>>

(* The statement is built at the version the ledger has by now. *)
PrepareOne(r) ==
  /\ r \in todo
  /\ prepared' = [prepared EXCEPT ![r] = ledger[r.tx]]
  /\ todo' = todo \ {r}
  /\ UNCHANGED <<ledger, redactions, gateways, locked, call, granted, redact>>

(* Every request is prepared, or the context of the preparation ended. *)
EndTrace ==
  /\ locked
  /\ todo' = {}
  /\ locked' = FALSE
  /\ UNCHANGED <<ledger, redactions, gateways, prepared, call, granted, redact>>

-----------------------------------------------------------------------------
(* Scheme.Authorize and Gateway.Admit. *)

Authorize(c, r) ==
  /\ call[c] = Idle
  /\ ~locked
  /\ prepared[r] # NotPrepared
  /\ call' = [call EXCEPT ![c] = [stage |-> "arrived", req |-> r, gw |-> Current,
                                  version |-> prepared[r]]]
  /\ UNCHANGED <<ledger, redactions, gateways, prepared, todo, locked, granted, redact>>

DIDOf(c) == DedupID(call[c].req, call[c].version)

Deny(c) ==
  /\ call' = [call EXCEPT ![c] = Idle]
  /\ UNCHANGED <<ledger, redactions, gateways, prepared, todo, locked, granted, redact>>

(* The first critical section of Admit: the version the gateway knows. *)
IsCurrent(c) == gateways[call[c].gw].txVersion[call[c].req.tx] = call[c].version

CheckVersion(c) ==
  /\ call[c].stage = "arrived"
  /\ IsCurrent(c)
  /\ call' = [call EXCEPT ![c].stage = "checked"]
  /\ UNCHANGED <<ledger, redactions, gateways, prepared, todo, locked, granted, redact>>

DenyStale(c) ==
  /\ call[c].stage = "arrived"
  /\ ~IsCurrent(c)
  /\ Deny(c)

(* Faulty variant of IsDuplicate: the identifier of the request itself, not *)
(* of the redaction it asks for.                                            *)
IsRepeated(c) ==
  LET g == gateways[call[c].gw]
  IN DIDOf(c) \in g.seen /\ g.attribution[DIDOf(c)] = call[c].req.by

IsDuplicate(c) == DIDOf(c) \in gateways[call[c].gw].seen

(* The second one records the identifier. *)
Admit(c) ==
  /\ call[c].stage = "checked"
  /\ ~IsDuplicate(c)
  /\ gateways' = [gateways EXCEPT
       ![call[c].gw].seen = @ \cup {DIDOf(c)},
       ![call[c].gw].attribution[DIDOf(c)] = call[c].req.by]
  /\ call' = [call EXCEPT ![c].stage = "admitted"]
  /\ UNCHANGED <<ledger, redactions, prepared, todo, locked, granted, redact>>

(* Faulty variant of DenyDuplicate: the requester is recorded all the same. *)
DenyRecorded(c) ==
  /\ call[c].stage = "checked"
  /\ IsDuplicate(c)
  /\ call' = [call EXCEPT ![c] = Idle]
  /\ gateways' = [gateways EXCEPT ![call[c].gw].attribution[DIDOf(c)] = call[c].req.by]
  /\ UNCHANGED <<ledger, redactions, prepared, todo, locked, granted, redact>>

DenyDuplicate(c) ==
  /\ call[c].stage = "checked"
  /\ IsDuplicate(c)
  /\ Deny(c)

(* The proof verified. *)
Grant(c) ==
  /\ call[c].stage = "admitted"
  /\ granted' = granted \cup {[req |-> call[c].req, version |-> call[c].version,
                               gw |-> call[c].gw]}
  /\ call' = [call EXCEPT ![c] = Idle]
  /\ UNCHANGED <<ledger, redactions, gateways, prepared, todo, locked, redact>>

(* It did not, or the caller's context ended first: Release. *)
Refuse(c) ==
  /\ call[c].stage = "admitted"
  /\ gateways' = [gateways EXCEPT ![call[c].gw].seen = @ \ {DIDOf(c)}]
  /\ call' = [call EXCEPT ![c] = Idle]
  /\ UNCHANGED <<ledger, redactions, prepared, todo, locked, granted, redact>>

-----------------------------------------------------------------------------
(* Scheme.Redact. *)

Redact(x, batch) ==
  /\ redact[x] = Idle
  /\ ~locked
  /\ Overlap \/ \A y \in Redactors : redact[y] = Idle
  /\ redact' = [redact EXCEPT ![x] = [stage |-> "collecting", gw |-> Current,
                                      auths |-> batch, items |-> <<>>, k |-> 0, version |-> 0]]
  /\ UNCHANGED <<ledger, redactions, gateways, prepared, todo, locked, call, granted>>

Now(x, stage) == redact[x].stage = stage

(* Faulty variant of ItemFor: the item is moved to where the ledger is.     *)
ItemAtLedger(a) == [tx |-> a.req.tx, version |-> ledger[a.req.tx],
                    did |-> DedupID(a.req, prepared[a.req])]

(* itemFor: the version of the authorization, and the identifier of the     *)
(* statement as it is prepared now.                                         *)
ItemFor(a) == [tx |-> a.req.tx, version |-> a.version,
               did |-> DedupID(a.req, prepared[a.req])]

Collect(x) ==
  LET a == Head(redact[x].auths)
  IN /\ Now(x, "collecting")
     /\ redact[x].auths # <<>>
     /\ ~locked
     /\ redact' = [redact EXCEPT
          ![x].auths = Tail(@),
          ![x].items = IF prepared[a.req] = NotPrepared THEN @ ELSE Append(@, ItemFor(a))]
     /\ UNCHANGED <<ledger, redactions, gateways, prepared, todo, locked, call, granted>>

(* Executor.Run takes its mutex, or there is nothing to run. *)
Run(x) ==
  /\ Now(x, "collecting")
  /\ redact[x].auths = <<>>
  /\ \/ /\ redact[x].items = <<>>
        /\ redact' = [redact EXCEPT ![x] = Idle]
     \/ /\ redact[x].items # <<>>
        /\ \A y \in Redactors : ~Now(y, "running")
        /\ redact' = [redact EXCEPT ![x].stage = "running", ![x].k = 1]
  /\ UNCHANGED <<ledger, redactions, gateways, prepared, todo, locked, call, granted>>

ItemOf(x) == redact[x].items[redact[x].k]

InRound(x) == Now(x, "running") /\ redact[x].k <= Len(redact[x].items)

(* Fresh_i holds and the transition succeeds. *)
Execute(x) ==
  LET it == ItemOf(x)
  IN /\ InRound(x)
     /\ ledger[it.tx] = it.version
     /\ ledger[it.tx] < MaxVersion
     /\ ledger' = [ledger EXCEPT ![it.tx] = @ + 1]
     /\ redactions' = redactions \cup {[tx |-> it.tx, from |-> it.version, did |-> it.did]}
     /\ redact' = [redact EXCEPT ![x].k = @ + 1]
     /\ UNCHANGED <<gateways, prepared, todo, locked, call, granted>>

(* The request is stale, or its adaptation fails. *)
Skip(x) ==
  /\ InRound(x)
  /\ redact' = [redact EXCEPT ![x].k = @ + 1]
  /\ UNCHANGED <<ledger, redactions, gateways, prepared, todo, locked, call, granted>>

(* The context ends, or the index refuses the round: Redact returns at once. *)
RunFails(x) ==
  /\ Cancels
  /\ Now(x, "running")
  /\ redact' = [redact EXCEPT ![x] = Idle]
  /\ UNCHANGED <<ledger, redactions, gateways, prepared, todo, locked, call, granted>>

RunReturns(x) ==
  /\ Now(x, "running")
  /\ redact[x].k > Len(redact[x].items)
  /\ redact' = [redact EXCEPT ![x].stage = "telling", ![x].k = 1]
  /\ UNCHANGED <<ledger, redactions, gateways, prepared, todo, locked, call, granted>>

(* For each item, the ledger is read... *)
ReadVersion(x) ==
  /\ Now(x, "telling")
  /\ redact' = [redact EXCEPT ![x].stage = "told", ![x].version = ledger[ItemOf(x).tx]]
  /\ UNCHANGED <<ledger, redactions, gateways, prepared, todo, locked, call, granted>>

(* Faulty variant of Advanced: the version after the one the ledger has.    *)
OneTooFar(x) == redact[x].version + 1

Advanced(x) == redact[x].version

(* ...and then the gateway is told: Gateway.AdvanceTx. *)
AdvanceTx(x) ==
  /\ Now(x, "told")
  /\ gateways' = [gateways EXCEPT ![redact[x].gw].txVersion[ItemOf(x).tx] = Advanced(x)]
  /\ redact' = [redact EXCEPT ![x] =
       IF redact[x].k = Len(redact[x].items) THEN Idle
       ELSE [redact[x] EXCEPT !.stage = "telling", !.k = redact[x].k + 1]]
  /\ UNCHANGED <<ledger, redactions, prepared, todo, locked, call, granted>>

-----------------------------------------------------------------------------
Prepare ==
  \/ \E trace \in Traces : StartTrace(trace)
  \/ \E r \in Requests : PrepareOne(r)
  \/ EndTrace

AuthorizeStep(c) ==
  \/ \E r \in Requests : Authorize(c, r)
  \/ CheckVersion(c) \/ DenyStale(c)
  \/ Admit(c) \/ DenyDuplicate(c)
  \/ Grant(c) \/ Refuse(c)

RedactStep(x) ==
  \/ \E n \in 1 .. MaxBatch : \E batch \in [1 .. n -> granted] : Redact(x, batch)
  \/ Collect(x) \/ Run(x)
  \/ Execute(x) \/ Skip(x) \/ RunFails(x) \/ RunReturns(x)
  \/ ReadVersion(x) \/ AdvanceTx(x)

Next ==
  \/ Prepare
  \/ \E c \in Callers : AuthorizeStep(c)
  \/ \E x \in Redactors : RedactStep(x)

Spec == Init /\ [][Next]_vars

-----------------------------------------------------------------------------
(* Properties. *)

Gateway == [seen: SUBSET DIDs, attribution: [DIDs -> Requesters \cup {Nobody}],
            txVersion: [Tx -> Versions]]

Gateways == 1 .. Len(gateways)

Authorization == [req: Requests, version: Versions, gw: Gateways]

RedactItem == [tx: Tx, version: Versions, did: DIDs]

(* Type correctness of the gateways, the calls and the redactors. *)
TypeOK ==
  /\ ledger \in [Tx -> Versions]
  /\ redactions \subseteq [tx: Tx, from: Versions, did: DIDs]
  /\ gateways \in Seq(Gateway) /\ Len(gateways) \in 1 .. MaxGateways
  /\ prepared \in [Requests -> Versions \cup {NotPrepared}]
  /\ todo \subseteq Requests
  /\ locked \in BOOLEAN
  /\ call \in [Callers -> {Idle} \cup
       [stage: {"arrived", "checked", "admitted"}, req: Requests, gw: Gateways, version: Versions]]
  /\ granted \subseteq Authorization
  /\ redact \in [Redactors -> {Idle} \cup
       [stage: {"collecting", "running", "telling", "told"}, gw: Gateways,
        auths: Seq(Authorization), items: Seq(RedactItem), k: Nat, version: Versions]]
  /\ \A x \in Redactors : redact[x].stage \in {"telling", "told"} =>
       redact[x].k \in 1 .. Len(redact[x].items)

(* Who holds an identifier of gateway g: callers whose verdict is out, and  *)
(* authorizations granted.                                                  *)
Holders(g, did) ==
  {c \in Callers : /\ call[c].stage = "admitted" /\ call[c].gw = g
                   /\ DIDOf(c) = did}
    \cup {a \in granted : a.gw = g /\ DedupID(a.req, a.version) = did}

(* A gateway holds an identifier for one request at a time, and lets go of  *)
(* it when, and only when, that request was refused: however callers        *)
(* overlap, no redaction is granted twice and no refused one stays blocked  *)
(* (gateway.go, Release: "could never retry that redaction").               *)
OneHolder ==
  \A g \in Gateways, did \in DIDs :
    Cardinality(Holders(g, did)) = IF did \in gateways[g].seen THEN 1 ELSE 0

(* The gateway that granted a redaction knows who asked for it: a duplicate *)
(* that is denied, or a later admission, does not take the place of the     *)
(* requester in the attribution.                                            *)
GrantAttributed ==
  \A a \in granted :
    gateways[a.gw].attribution[DedupID(a.req, a.version)] = a.req.by

(* The identifier under which the evidence of a redaction is stored names   *)
(* the version it was executed at, although itemFor recomputes it from      *)
(* whatever statement is prepared by then (redaction.go, didFor).           *)
DidNamesRedaction ==
  \A r \in redactions : r.did[1] = r.tx /\ r.did[2] = r.from

(* No gateway is ahead of the ledger, the one in force or an older one      *)
(* still in use, so no request is admitted at a version yet to come.        *)
GatewayNeverAhead ==
  \A g \in Gateways, t \in Tx : gateways[g].txVersion[t] <= ledger[t]

(* Whenever nobody redacts, the gateway in force is where the ledger is     *)
(* (redaction.go, "The gateway's view of ledger state must follow the       *)
(* ledger").  True when Redact never overlaps another Redact or a           *)
(* PrepareTrace, and no round fails.                                        *)
GatewayFollowsLedger ==
  (\A x \in Redactors : redact[x] = Idle) => gateways[Current].txVersion = ledger

-----------------------------------------------------------------------------
(* The inductive invariant behind GatewayNeverAhead and DidNamesRedaction:  *)
(* everything that carries a version carries one the ledger has reached.    *)
(* What was granted was prepared, so what is prepared now is not older, and *)
(* an item is executed only when both are what the ledger says.             *)
Reached(r, version) ==
  /\ version <= ledger[r.tx]
  /\ prepared[r] # NotPrepared => version <= prepared[r]

ItemReached(it) ==
  it.did[1] = it.tx /\ it.version <= it.did[2] /\ it.did[2] <= ledger[it.tx]

RoundReached(x) ==
  /\ \A k \in DOMAIN redact[x].auths : redact[x].auths[k] \in granted
  /\ \A k \in DOMAIN redact[x].items : ItemReached(redact[x].items[k])
  /\ redact[x].stage = "told" => redact[x].version <= ledger[ItemOf(x).tx]

VersionInv ==
  /\ GatewayNeverAhead
  /\ DidNamesRedaction
  /\ \A r \in Requests : prepared[r] <= ledger[r.tx]
  /\ \A c \in Callers : call[c] # Idle => Reached(call[c].req, call[c].version)
  /\ \A a \in granted : Reached(a.req, a.version)
  /\ \A x \in Redactors : redact[x] # Idle => RoundReached(x)

=============================================================================
