---------------------------- MODULE AccessControl ----------------------------
(***************************************************************************)
(* Identities, trusted issuers, cached DID documents and the authorization *)
(* of an action: identity.service.js, trust.service.js, vc.service.js,     *)
(* did-resolver.service.js, authorization.service.js and action.service.js *)
(* with their controllers.                                                 *)
(*                                                                         *)
(* All of it is one document of the collection IdentityStore.  An action   *)
(* is one database or RPC call of one request with what the process        *)
(* computes until the next, so requests interleave at every await.         *)
(***************************************************************************)
EXTENDS Naturals, Sequences, FiniteSets, Lists

CONSTANTS
    Handlers,            \* requests that may be in flight at once
    Operators, Machines, \* the DIDs registrations give out, by type
    Foreign,             \* operator DIDs of other factories, on chain only
    Issuers,             \* DIDs that sign permits
    ActionNames,         \* what a machine can be asked to do
    Attempts,            \* requests to perform an action, see Attempt
    Overlaps,            \* whether cacheDidDocument calls may overlap
    MaxKey,              \* bound: keys of an issuer
    MaxAttempts,         \* bound: requests to perform an action
    Posts,               \* rows POST /api/audit/event is asked to insert
    MaxPosts,            \* bound: events posted to the audit log
    MaxCrashes           \* bound: restarts of the server process

\* A permit without allowedActions decodes to undefined.
Undefined == {"undefined"}

Dids == Operators \cup Machines
Keys == 1 .. MaxKey
Permit == [ issuer: Issuers, key: Keys, genuine: BOOLEAN, holder: Operators \cup Foreign,
            machine: Machines, actions: SUBSET ActionNames \cup {Undefined} ]

\* A request to perform an action: a permit and what it is presented for.
Attempt == [permit: Permit, operator: Operators \cup Foreign, machine: Machines, action: ActionNames]

\* A row of the table events, and the source of one no attempt has led to.
Row == [operatorDid: Operators \cup Foreign, deviceDid: Machines, action: ActionNames]
Posted == << >>

ASSUME DidsAssumption == Operators \cap Machines = {}
ASSUME AttemptsAssumption == Attempts \subseteq Attempt /\ "undefined" \notin ActionNames
ASSUME PostsAssumption == Posts \subseteq Row
ASSUME OverlapsAssumption == Overlaps \subseteq BOOLEAN
ASSUME BoundsAssumption ==
    MaxKey \in Nat \ {0} /\ MaxAttempts \in Nat /\ MaxPosts \in Nat /\ MaxCrashes \in Nat

VARIABLES
    overlap,             \* whether cacheDidDocument calls overlap in this behaviour
    rpcUp,               \* whether the Sepolia RPC answers
    key,                 \* the current key of each issuer, on chain
    exists, version,     \* the document main_store and its __v
    pending, operators, machines,   \* its identity lists
    trusted,             \* its trustedIssuers, the DIDs
    cached,              \* its cachedDIDDocuments: by DID, the keys in list order
    events, denied,      \* SQLite tables events and denied_events (rows, row count)
    sources,             \* history: the attempt each event was recorded for, or Posted
    pc,                  \* the next await of each request
    request,             \* what each request is about
    read,                \* what approveIdentity has read
    document,            \* the key in the document cacheDidDocument has resolved
    before,              \* history: trust and cache when an attempt began
    created,             \* history: DIDs of the agent
    registered,          \* history: registrations answered with success
    refreshed,           \* history: key of the last caching that was answered
    gaps,                \* history: issuers whose caching stopped half-way
    attempts, crashes    \* counters for the bounds

identities == << exists, version, pending, operators, machines >>
trust == << trusted, cached >>
log == << events, denied, sources >>
chain == << overlap, rpcUp, key >>
locals == << request, read, document, before >>
history == << created, registered, refreshed, gaps >>
counters == << attempts, crashes >>
vars == << chain, identities, trust, log, pc, locals, history, counters >>

-----------------------------------------------------------------------------
(* State *)

NoRequest == << >>
NoRead == [version |-> 0, pending |-> << >>]
NotYet == [restricted |-> FALSE, floor |-> 0]

Steps == {"idle", "find", "create", "push", "save", "resolve", "$pull", "$push",
          "chain", "machine", "verify", "offline", "issuer", "grant", "deny"}

TypeOK ==
    /\ overlap \in Overlaps /\ rpcUp \in BOOLEAN
    /\ key \in [Issuers -> Keys]
    /\ exists \in BOOLEAN /\ version \in Nat
    /\ pending \in Seq(Dids) /\ operators \in Seq(Dids) /\ machines \in Seq(Dids)
    /\ trusted \subseteq Issuers
    /\ cached \in [Issuers -> Seq(Keys)]
    /\ events \in Seq(Row) /\ denied \in Nat
    /\ sources \in Seq(Attempts \cup {Posted}) /\ Len(sources) = Len(events)
    /\ pc \in [Handlers -> Steps]
    /\ request \in [Handlers -> {NoRequest} \cup Dids \cup Issuers \cup Attempts]
    /\ read \in [Handlers -> [version: Nat, pending: Seq(Dids)]]
    /\ document \in [Handlers -> Keys \cup {0}]
    /\ before \in [Handlers -> [restricted: BOOLEAN, floor: Keys \cup {0}]]
    /\ registered \subseteq created /\ created \subseteq Dids
    /\ refreshed \in [Issuers -> Keys \cup {0}]
    /\ gaps \subseteq Issuers
    /\ attempts \in Nat /\ crashes \in Nat

-----------------------------------------------------------------------------
(* Helpers *)

\* getCachedDIDDocument: find() gives the first entry of the DID.
CachedKey(issuer) == Head(cached[issuer])

Idle(h) == pc[h] = "idle"

Caching(h) == pc[h] \in {"resolve", "$pull", "$push"}

MayCache == overlap \/ \A h \in Handlers : ~Caching(h)

Goto(h, step) == pc' = [pc EXCEPT ![h] = step]

\* The handler answers; what it held is gone.
Answers(h) ==
    /\ Goto(h, "idle")
    /\ request' = [request EXCEPT ![h] = NoRequest]
    /\ read' = [read EXCEPT ![h] = NoRead]
    /\ document' = [document EXCEPT ![h] = 0]
    /\ before' = [before EXCEPT ![h] = NotYet]

Begins(h, what, step) ==
    /\ Idle(h)
    /\ Goto(h, step)
    /\ request' = [request EXCEPT ![h] = what]

-----------------------------------------------------------------------------

Init ==
    /\ overlap \in Overlaps /\ rpcUp = TRUE
    /\ key = [i \in Issuers |-> 1]
    /\ exists = FALSE /\ version = 0
    /\ pending = << >> /\ operators = << >> /\ machines = << >>
    /\ trusted = {} /\ cached = [i \in Issuers |-> << >>]
    /\ events = << >> /\ denied = 0 /\ sources = << >>
    /\ pc = [h \in Handlers |-> "idle"]
    /\ request = [h \in Handlers |-> NoRequest]
    /\ read = [h \in Handlers |-> NoRead]
    /\ document = [h \in Handlers |-> 0]
    /\ before = [h \in Handlers |-> NotYet]
    /\ created = {} /\ registered = {}
    /\ refreshed = [i \in Issuers |-> 0] /\ gaps = {}
    /\ attempts = 0 /\ crashes = 0

-----------------------------------------------------------------------------
(* registerIdentity and getAllIdentities *)

\* The agent creates a DID; it is in no list yet.
CreateDid(h, did) ==
    /\ did \notin created
    /\ Begins(h, did, "find")
    /\ created' = created \cup {did}
    /\ UNCHANGED << chain, identities, trust, log, read, document, before,
                    registered, refreshed, gaps, counters >>

\* A listing creates the document as well when there is none.
List(h) ==
    /\ ~exists
    /\ Begins(h, NoRequest, "create")
    /\ UNCHANGED << chain, identities, trust, log, read, document, before, history, counters >>

FindStore(h) ==
    /\ pc[h] = "find"
    /\ Goto(h, IF exists THEN "push" ELSE "create")
    /\ UNCHANGED << chain, identities, trust, log, locals, history, counters >>

\* Mutant of CreateStore: the listing goes on as a registration does.
CreateStoreForAll(h) ==
    /\ pc[h] = "create"
    /\ exists' = TRUE
    /\ IF exists THEN Answers(h) ELSE Goto(h, "push") /\ UNCHANGED locals
    /\ UNCHANGED << chain, version, pending, operators, machines, trust, log, history, counters >>

\* IdentityModel.create: the key is unique, a second document is refused.
CreateStore(h) ==
    /\ pc[h] = "create"
    /\ exists' = TRUE
    /\ IF exists \/ request[h] = NoRequest THEN Answers(h)
       ELSE Goto(h, "push") /\ UNCHANGED locals
    /\ UNCHANGED << chain, version, pending, operators, machines, trust, log, history, counters >>

\* save() of a push: Mongoose sends $push and $inc __v, whatever __v is.
PushPending(h) ==
    /\ pc[h] = "push"
    /\ pending' = Append(pending, request[h])
    /\ version' = version + 1
    /\ registered' = registered \cup {request[h]}
    /\ Answers(h)
    /\ UNCHANGED << chain, exists, operators, machines, trust, log, created, refreshed, gaps, counters >>

-----------------------------------------------------------------------------
(* approveIdentity *)

\* The document is read; a DID that is not pending is answered 500 at once.
FindPending(h, did) ==
    /\ did \in Elements(pending)
    /\ Begins(h, did, "save")
    /\ read' = [read EXCEPT ![h] = [version |-> version, pending |-> pending]]
    /\ UNCHANGED << chain, identities, trust, log, document, before, history, counters >>

\* Mutant of MoveToActive: splice(index), which removes all that follows.
MoveToActiveRestDropped(h) ==
    LET did == request[h]
        rest == SubSeq(read[h].pending, 1, IndexOf(read[h].pending, did) - 1)
    IN  /\ pending' = rest
        /\ operators' = IF did \in Operators THEN Append(operators, did) ELSE operators
        /\ machines' = IF did \in Machines THEN Append(machines, did) ELSE machines
        /\ version' = version + 1

\* $push to the list of its type, pending replaced by what was read less the DID.
MoveToActive(h) ==
    LET did == request[h]
        rest == Without(read[h].pending, IndexOf(read[h].pending, did))
    IN  /\ pending' = rest
        /\ operators' = IF did \in Operators THEN Append(operators, did) ELSE operators
        /\ machines' = IF did \in Machines THEN Append(machines, did) ELSE machines
        /\ version' = version + 1

\* Mutant of SaveApproval: the save is not conditioned on __v.
SaveApprovalAnyVersion(h) ==
    /\ pc[h] = "save"
    /\ MoveToActive(h)
    /\ Answers(h)
    /\ UNCHANGED << chain, exists, trust, log, history, counters >>

\* save() of a spliced array: where __v is what was read, else VersionError.
SaveApproval(h) ==
    /\ pc[h] = "save"
    /\ IF version = read[h].version THEN MoveToActive(h)
       ELSE UNCHANGED << version, pending, operators, machines >>
    /\ Answers(h)
    /\ UNCHANGED << chain, exists, trust, log, history, counters >>

-----------------------------------------------------------------------------
(* addTrustedIssuer and cacheDidDocument *)

\* Mutant of AddTrustedIssuer: $set instead of $addToSet.
AddTrustedIssuerReplaces(h, issuer, role) ==
    /\ Idle(h) /\ (role = "platformRoot" => MayCache)
    /\ trusted' = {issuer}
    /\ exists' = TRUE
    /\ IF role = "platformRoot" THEN Begins(h, issuer, "resolve") ELSE UNCHANGED << pc, request >>
    /\ UNCHANGED << chain, version, pending, operators, machines, cached, log,
                    read, document, before, history, counters >>

\* $addToSet with upsert; the document of a platform root is cached next, and
\* a failure of that is only logged.
AddTrustedIssuer(h, issuer, role) ==
    /\ Idle(h) /\ (role = "platformRoot" => MayCache)
    /\ trusted' = trusted \cup {issuer}
    /\ exists' = TRUE
    /\ IF role = "platformRoot" THEN Begins(h, issuer, "resolve") ELSE UNCHANGED << pc, request >>
    /\ UNCHANGED << chain, version, pending, operators, machines, cached, log,
                    read, document, before, history, counters >>

\* POST /cache-root-key: the same caching on its own.
CacheRootKey(h, issuer) ==
    /\ MayCache
    /\ Begins(h, issuer, "resolve")
    /\ UNCHANGED << chain, identities, trust, log, read, document, before, history, counters >>

\* resolveDid reads the current key from the chain; without RPC it throws.
ResolveDocument(h) ==
    /\ pc[h] = "resolve"
    /\ IF rpcUp
       THEN /\ document' = [document EXCEPT ![h] = key[request[h]]]
            /\ Goto(h, "$pull")
            /\ UNCHANGED << request, read, before >>
       ELSE Answers(h)
    /\ UNCHANGED << chain, identities, trust, log, history, counters >>

\* Mutant of PullDocument: the stale entry is left in the list.
PullNothing(h) ==
    /\ pc[h] = "$pull"
    /\ exists' = TRUE
    /\ Goto(h, "$push")
    /\ UNCHANGED << chain, version, pending, operators, machines, trust, log, locals,
                    history, counters >>

\* Mutant of PullDocument: every entry is pulled.
PullAll(h) ==
    /\ pc[h] = "$pull"
    /\ cached' = [i \in Issuers |-> << >>]
    /\ exists' = TRUE
    /\ Goto(h, "$push")
    /\ UNCHANGED << chain, version, pending, operators, machines, trusted, log, locals,
                    history, counters >>

\* The stale entries of the DID are removed ...
PullDocument(h) ==
    /\ pc[h] = "$pull"
    /\ cached' = [cached EXCEPT ![request[h]] = << >>]
    /\ exists' = TRUE
    /\ Goto(h, "$push")
    /\ UNCHANGED << chain, version, pending, operators, machines, trusted, log, locals,
                    history, counters >>

\* ... and the fresh one is appended by a second update.
PushDocument(h) ==
    /\ pc[h] = "$push"
    /\ cached' = [cached EXCEPT ![request[h]] = Append(@, document[h])]
    /\ refreshed' = [refreshed EXCEPT ![request[h]] = document[h]]
    /\ gaps' = gaps \ {request[h]}
    /\ Answers(h)
    /\ UNCHANGED << chain, identities, trusted, log, created, registered, counters >>

\* The second update fails: the DID has no entry left.
PushDocumentFails(h) ==
    /\ pc[h] = "$push"
    /\ gaps' = gaps \cup {request[h]}
    /\ Answers(h)
    /\ UNCHANGED << chain, identities, trust, log, created, registered, refreshed, counters >>

-----------------------------------------------------------------------------
(* performAction *)

Permitted(h) == request[h].permit

\* issuePermit signs with the key the issuer has: no permit of a later one.
Signed(permit) == permit.genuine => permit.key <= key[permit.issuer]

\* The operator is looked up in the local list, else on chain.
BeginAttempt(h, attempt) ==
    /\ attempts < MaxAttempts
    /\ Signed(attempt.permit)
    /\ Begins(h, attempt, IF attempt.operator \in Elements(operators) THEN "machine" ELSE "chain")
    /\ before' = [before EXCEPT ![h] =
          [restricted |-> trusted # {}, floor |-> refreshed[attempt.permit.issuer]]]
    /\ attempts' = attempts + 1
    /\ UNCHANGED << chain, identities, trust, log, read, document, history, crashes >>

\* resolveOperatorDid on chain: active when the RPC answers with a document
\* that is not deactivated.
ResolveOperator(h) ==
    /\ pc[h] = "chain"
    /\ \/ rpcUp /\ Goto(h, "machine")
       \/ Goto(h, "deny")
    /\ UNCHANGED << chain, identities, trust, log, locals, history, counters >>

\* A machine is looked up in the local list only.
CheckMachine(h) ==
    /\ pc[h] = "machine"
    /\ Goto(h, IF request[h].machine \in Elements(machines) THEN "verify" ELSE "deny")
    /\ UNCHANGED << chain, identities, trust, log, locals, history, counters >>

\* The agent verifies with the issuer's current key, and gives verified: false
\* when it cannot reach it.
VerifyCredential(h) ==
    LET permit == Permitted(h) IN
    /\ pc[h] = "verify"
    /\ Goto(h, IF rpcUp /\ permit.genuine /\ permit.key = key[permit.issuer]
               THEN "issuer" ELSE "offline")
    /\ UNCHANGED << chain, identities, trust, log, locals, history, counters >>

\* Mutant of VerifyCredentialOffline: the signature is not checked.
VerifyCredentialOfflineUnsigned(h) ==
    /\ pc[h] = "offline"
    /\ Goto(h, IF cached[Permitted(h).issuer] # << >> THEN "issuer" ELSE "deny")
    /\ UNCHANGED << chain, identities, trust, log, locals, history, counters >>

\* verifyCredentialOffline throws without a cached document of the issuer, and
\* when the signature is not of the key in it.
VerifyCredentialOffline(h) ==
    LET permit == Permitted(h) IN
    /\ pc[h] = "offline"
    /\ Goto(h, IF /\ permit.genuine
                  /\ cached[permit.issuer] # << >> /\ CachedKey(permit.issuer) = permit.key
               THEN "issuer" ELSE "deny")
    /\ UNCHANGED << chain, identities, trust, log, locals, history, counters >>

\* isIssuerTrusted: an empty list trusts everyone.
IsIssuerTrusted(issuer) == trusted = {} \/ issuer \in trusted


ClaimsMatch(h) ==
    /\ Permitted(h).holder = request[h].operator
    /\ Permitted(h).machine = request[h].machine
    /\ request[h].action \in Permitted(h).actions

\* allowedActions.includes is called on undefined: a TypeError, answered 500.
ClaimsThrow(h) ==
    /\ Permitted(h).holder = request[h].operator
    /\ Permitted(h).machine = request[h].machine
    /\ Permitted(h).actions = Undefined

\* The trusted issuers are read, and the rest of checkAuthorization follows.
CheckAuthorization(h) ==
    /\ pc[h] = "issuer"
    /\ IF IsIssuerTrusted(Permitted(h).issuer) /\ ClaimsThrow(h) THEN Answers(h)
       ELSE /\ Goto(h, IF IsIssuerTrusted(Permitted(h).issuer) /\ ClaimsMatch(h)
                       THEN "grant" ELSE "deny")
            /\ UNCHANGED locals
    /\ UNCHANGED << chain, identities, trust, log, history, counters >>

\* createAuditEvent: the row is inserted in one statement.
CreateAuditEvent(row, source) ==
    /\ events' = Append(events, row)
    /\ sources' = Append(sources, source)

Grant(h) ==
    /\ pc[h] = "grant"
    /\ CreateAuditEvent([ operatorDid |-> request[h].operator,
                          deviceDid |-> request[h].machine,
                          action |-> request[h].action ], request[h])
    /\ Answers(h)
    /\ UNCHANGED << chain, identities, trust, denied, history, counters >>

\* logDenied.
Deny(h) ==
    /\ pc[h] = "deny"
    /\ denied' = denied + 1
    /\ Answers(h)
    /\ UNCHANGED << chain, identities, trust, events, sources, history, counters >>

-----------------------------------------------------------------------------
(* createEvent *)

\* POST /api/audit/event inserts what its body says: no permit is presented, and
\* neither the operator nor the machine is looked up.
CreateEvent(row) ==
    /\ Cardinality({ i \in DOMAIN sources : sources[i] = Posted }) < MaxPosts
    /\ CreateAuditEvent(row, Posted)
    /\ UNCHANGED << chain, identities, trust, denied, pc, locals, history, counters >>

-----------------------------------------------------------------------------
(* Environment *)

RpcChange ==
    /\ rpcUp' = ~rpcUp
    /\ UNCHANGED << overlap, key, identities, trust, log, pc, locals, history, counters >>

RotateKey(issuer) ==
    /\ key[issuer] < MaxKey
    /\ key' = [key EXCEPT ![issuer] = @ + 1]
    /\ UNCHANGED << overlap, rpcUp, identities, trust, log, pc, locals, history, counters >>

\* The server stops and starts again: every request is cut where it was.
Crash ==
    /\ crashes < MaxCrashes
    /\ crashes' = crashes + 1
    /\ gaps' = gaps \cup { request[h] : h \in { g \in Handlers : pc[g] = "$push" } }
    /\ pc' = [h \in Handlers |-> "idle"]
    /\ request' = [h \in Handlers |-> NoRequest]
    /\ read' = [h \in Handlers |-> NoRead]
    /\ document' = [h \in Handlers |-> 0]
    /\ before' = [h \in Handlers |-> NotYet]
    /\ UNCHANGED << chain, identities, trust, log, created, registered, refreshed, attempts >>

-----------------------------------------------------------------------------

IdentityStep(h) ==
    \/ \E did \in Dids : CreateDid(h, did) \/ FindPending(h, did)
    \/ List(h) \/ FindStore(h) \/ CreateStore(h) \/ PushPending(h) \/ SaveApproval(h)

TrustStep(h) ==
    \/ \E issuer \in Issuers :
          \/ \E role \in {"localAdmin", "platformRoot"} : AddTrustedIssuer(h, issuer, role)
          \/ CacheRootKey(h, issuer)
    \/ ResolveDocument(h) \/ PullDocument(h) \/ PushDocument(h) \/ PushDocumentFails(h)

PerformStep(h) ==
    \/ \E attempt \in Attempts : BeginAttempt(h, attempt)
    \/ ResolveOperator(h) \/ CheckMachine(h)
    \/ VerifyCredential(h) \/ VerifyCredentialOffline(h)
    \/ CheckAuthorization(h) \/ Grant(h) \/ Deny(h)

Next ==
    \/ \E h \in Handlers : IdentityStep(h) \/ TrustStep(h) \/ PerformStep(h)
    \/ \E row \in Posts : CreateEvent(row)
    \/ RpcChange \/ Crash
    \/ \E issuer \in Issuers : RotateKey(issuer)

Spec == Init /\ [][Next]_vars

-----------------------------------------------------------------------------
(* Properties *)

Occurrences(did) ==
      Cardinality({ i \in DOMAIN pending : pending[i] = did })
    + Cardinality({ i \in DOMAIN operators : operators[i] = did })
    + Cardinality({ i \in DOMAIN machines : machines[i] = did })

\* Registrations and approvals may overlap, approvals of one DID too, and the
\* process may stop anywhere: a DID whose registration was answered is in one
\* list, once.  No approval writes back an older list (approveIdentity).
IdentityHeldOnce == \A did \in registered : Occurrences(did) = 1

StatusOf(did) ==
    IF did \in Elements(operators) \cup Elements(machines) THEN "ACTIVE"
    ELSE IF did \in Elements(pending) THEN "PENDING"
    ELSE "none"

Lifecycle == INSTANCE IdentityLifecycle WITH status <- [did \in Dids |-> StatusOf(did)]

\* The document of lists implements the life of each DID.
ImplementsLifecycle == Lifecycle!Spec

\* A cached DID document is there whenever it is looked for, but for the gap
\* between the two updates of a refresh and what a failure or a restart in
\* that gap leaves: cacheDidDocument removes before it adds.
CachedUnlessGap ==
    \A issuer \in Issuers :
        refreshed[issuer] # 0 =>
            \/ cached[issuer] # << >>
            \/ \E h \in Handlers : pc[h] = "$push" /\ request[h] = issuer
            \/ issuer \in gaps

\* Refreshes one at a time: no entry is older than the last refresh that was
\* answered, and an attempt that began after the cached key of an
\* issuer was refreshed is not granted for a permit signed with an older key,
\* whether it is verified live or offline ("when a Platform Root DID is rotated").
RefreshTakesEffect ==
    ~overlap =>
        /\ \A issuer \in Issuers : \A i \in DOMAIN cached[issuer] : cached[issuer][i] = refreshed[issuer]
        /\ \A h \in Handlers : pc[h] = "grant" => request[h].permit.key >= before[h].floor

\* An attempt that began when the list of trusted issuers was not empty is
\* granted for one of them only, however the list has grown meanwhile.
TrustedWhenRestricted ==
    \A h \in Handlers :
        pc[h] = "grant" /\ before[h].restricted => request[h].permit.issuer \in trusted

\* An event recorded by performAction is of an approved machine, and the permit
\* presented for it, and no other, is genuine and names its operator, its machine
\* and its action, whatever has changed between the checks of the attempt.
\* Nothing is said of the events createEvent inserts: that route checks nothing.
EventsPermitted ==
    \A i \in DOMAIN events : sources[i] # Posted =>
        LET permit == sources[i].permit IN
        /\ \E j \in DOMAIN machines : machines[j] = events[i].deviceDid
        /\ permit.genuine
        /\ permit.holder = events[i].operatorDid
        /\ permit.machine = events[i].deviceDid
        /\ events[i].action \in permit.actions

=============================================================================
