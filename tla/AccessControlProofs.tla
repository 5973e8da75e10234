------------------------- MODULE AccessControlProofs -------------------------
(***************************************************************************)
(* Theorems about AccessControl, for any sets of requests, DIDs, issuers   *)
(* and attempts and any bounds:                                            *)
(*   - the type invariant, with what each request is about;                *)
(*   - IdentityHeldOnce, and that the lists implement IdentityLifecycle;   *)
(*   - CachedUnlessGap, RefreshTakesEffect, TrustedWhenRestricted and      *)
(*     EventsPermitted.                                                    *)
(***************************************************************************)
EXTENDS AccessControl, OrderLemmas, FiniteSetTheorems, TLAPS

Performing(h) == pc[h] \in {"chain", "machine", "verify", "offline", "issuer", "grant", "deny"}

\* A request that will push its DID, unless it is answered before.
Registering(h) == pc[h] \in {"find", "push"} \/ (pc[h] = "create" /\ request[h] # NoRequest)

\* What a request is about, by the step it is at.
RequestTyped(h) ==
    /\ Registering(h) => request[h] \in created
    /\ pc[h] = "save" => request[h] \in Dids /\ request[h] \in Elements(read[h].pending)
    /\ Caching(h) => request[h] \in Issuers
    /\ pc[h] \in {"$pull", "$push"} => document[h] \in Keys
    /\ Performing(h) => request[h] \in Attempts

Typed == TypeOK /\ \A h \in Handlers : RequestTyped(h)

-----------------------------------------------------------------------------
(* Types *)

Requests == {NoRequest} \cup Dids \cup Issuers \cup Attempts
Reads == [version: Nat, pending: Seq(Dids)]
Befores == [restricted: BOOLEAN, floor: Keys \cup {0}]

\* The parts of the type invariant that belong to requests.
LocalsTyped ==
    /\ pc \in [Handlers -> Steps]
    /\ request \in [Handlers -> Requests]
    /\ read \in [Handlers -> Reads]
    /\ document \in [Handlers -> Keys \cup {0}]
    /\ before \in [Handlers -> Befores]

\* The rest of it.
StoreTyped ==
    /\ exists \in BOOLEAN /\ version \in Nat
    /\ pending \in Seq(Dids) /\ operators \in Seq(Dids) /\ machines \in Seq(Dids)
    /\ trusted \subseteq Issuers
    /\ cached \in [Issuers -> Seq(Keys)]
    /\ events \in Seq(Row) /\ denied \in Nat
    /\ sources \in Seq(Attempts \cup {Posted}) /\ Len(sources) = Len(events)
HistoryTyped ==
    /\ overlap \in Overlaps /\ rpcUp \in BOOLEAN
    /\ key \in [Issuers -> Keys]
    /\ registered \subseteq created /\ created \subseteq Dids
    /\ refreshed \in [Issuers -> Keys \cup {0}]
    /\ gaps \subseteq Issuers
    /\ attempts \in Nat /\ crashes \in Nat

LEMMA TypeParts == TypeOK <=> LocalsTyped /\ StoreTyped /\ HistoryTyped
  BY DEF TypeOK, LocalsTyped, StoreTyped, HistoryTyped, Requests, Reads, Befores

\* The parts after a step make the type invariant after it.
LEMMA TypeNext ==
    ASSUME LocalsTyped', StoreTyped', HistoryTyped', \A g \in Handlers : RequestTyped(g)'
    PROVE  Typed'
  BY DEF Typed, TypeOK, LocalsTyped, StoreTyped, HistoryTyped, Requests, Reads, Befores

\* What a request holds before it begins.
LEMMA NothingHeld == NoRequest \in Requests /\ NoRead \in Reads /\ NotYet \in Befores
  BY DEF NoRequest, Requests, NoRead, Reads, NotYet, Befores

\* The initial state is well typed.
LEMMA TypeInit == Init => Typed
<1> SUFFICES ASSUME Init PROVE Typed
  OBVIOUS
<1>1. LocalsTyped
  BY NothingHeld DEF Init, LocalsTyped, Steps
<1>2. StoreTyped
  <2>1. cached \in [Issuers -> Seq(Keys)]
    BY DEF Init
  <2>2. << >> \in Seq(Dids) /\ << >> \in Seq(Row)
    OBVIOUS
  <2>3. events = << >> /\ sources = << >> /\ pending = << >> /\ operators = << >> /\ machines = << >>
    BY DEF Init
  <2>4. exists \in BOOLEAN /\ version \in Nat /\ denied \in Nat /\ trusted \subseteq Issuers
    BY DEF Init
  <2> QED
    BY <2>1, <2>2, <2>3, <2>4 DEF StoreTyped
<1>3. HistoryTyped
  BY BoundsAssumption DEF Init, HistoryTyped, Keys
<1>4. \A h \in Handlers : RequestTyped(h)
  BY DEF Init, RequestTyped, Registering, Caching, Performing
<1> QED
  BY <1>1, <1>2, <1>3, <1>4, TypeParts DEF Typed

\* A request that has answered holds nothing.
LEMMA TypeAnswers ==
    ASSUME Typed, NEW h \in Handlers, Answers(h), created \subseteq created'
    PROVE  LocalsTyped' /\ \A g \in Handlers : RequestTyped(g)'
<1>1. LocalsTyped'
  <2>1. LocalsTyped
    BY TypeParts DEF Typed
  <2> QED
    BY <2>1, NothingHeld DEF Answers, Goto, LocalsTyped, Steps
<1>2. ASSUME NEW g \in Handlers PROVE RequestTyped(g)'
  <2>1. CASE g = h
    <3>1. pc'[h] = "idle"
      BY TypeParts DEF Answers, Goto, Typed, LocalsTyped
    <3> QED
      BY <2>1, <3>1 DEF RequestTyped, Registering, Caching, Performing
  <2>2. CASE g # h
    <3>1. pc'[g] = pc[g] /\ request'[g] = request[g] /\ read'[g] = read[g] /\ document'[g] = document[g]
      BY <2>2, TypeParts DEF Answers, Goto, Typed, LocalsTyped
    <3> QED
      BY <3>1 DEF Typed, RequestTyped, Registering, Caching, Performing
  <2> QED
    BY <2>1, <2>2
<1> QED
  BY <1>1, <1>2

\* A request that goes on, about the same, is typed when its next step is.
LEMMA TypeGoesOn ==
    ASSUME Typed, NEW h \in Handlers, NEW step \in Steps, Goto(h, step), UNCHANGED locals,
           created \subseteq created',
           step \in {"find", "push"} => Registering(h),
           step = "create" => Registering(h) \/ request[h] = NoRequest,
           step # "save" /\ step \notin {"resolve", "$pull"},
           step = "$push" => Caching(h) /\ document[h] \in Keys,
           step \in {"chain", "machine", "verify", "offline", "issuer", "grant", "deny"} => Performing(h)
    PROVE  LocalsTyped' /\ \A g \in Handlers : RequestTyped(g)'
<1>1. LocalsTyped /\ LocalsTyped'
  BY TypeParts DEF Typed, LocalsTyped, Goto, locals
<1>2. pc'[h] = step /\ UNCHANGED << request, read, document >>
  BY <1>1 DEF Goto, LocalsTyped, locals
<1>3. ASSUME NEW g \in Handlers PROVE RequestTyped(g)'
  <2>1. CASE g = h
    BY <2>1, <1>2 DEF Typed, RequestTyped, Registering, Caching, Performing
  <2>2. CASE g # h
    <3>1. pc'[g] = pc[g]
      BY <2>2, <1>1 DEF Goto, LocalsTyped
    <3> QED
      BY <1>2, <3>1 DEF Typed, RequestTyped, Registering, Caching, Performing
  <2> QED
    BY <2>1, <2>2
<1> QED
  BY <1>1, <1>3

\* A request that begins is typed when what it is about is.
LEMMA TypeBegins ==
    ASSUME Typed, NEW h \in Handlers, NEW what \in Requests, NEW step \in Steps, Begins(h, what, step),
           read' \in [Handlers -> Reads] /\ before' \in [Handlers -> Befores],
           \A g \in Handlers : g # h => read'[g] = read[g], document' = document,
           created \subseteq created',
           step \in {"find", "push"} => what \in created',
           step = "create" => what = NoRequest,
           step = "save" => what \in Dids /\ what \in Elements(read'[h].pending),
           step \notin {"$pull", "$push"},
           step = "resolve" => what \in Issuers,
           step \in {"chain", "machine", "verify", "offline", "issuer", "grant", "deny"} => what \in Attempts
    PROVE  LocalsTyped' /\ \A g \in Handlers : RequestTyped(g)'
<1>1. LocalsTyped /\ LocalsTyped'
  BY TypeParts DEF Typed, LocalsTyped, Begins, Goto
<1>2. pc'[h] = step /\ request'[h] = what
  BY <1>1 DEF Begins, Goto, LocalsTyped
<1>3. ASSUME NEW g \in Handlers PROVE RequestTyped(g)'
  <2>1. CASE g = h
    BY <2>1, <1>2 DEF RequestTyped, Registering, Caching, Performing
  <2>2. CASE g # h
    <3>1. pc'[g] = pc[g] /\ request'[g] = request[g] /\ read'[g] = read[g]
      BY <2>2, <1>1 DEF Begins, Goto, LocalsTyped
    <3> QED
      BY <3>1 DEF Typed, RequestTyped, Registering, Caching, Performing
  <2> QED
    BY <2>1, <2>2
<1> QED
  BY <1>1, <1>3

\* Registrations and listings.
LEMMA TypeCreateDid ==
    ASSUME Typed, NEW h \in Handlers, NEW did \in Dids, CreateDid(h, did)
    PROVE  Typed'
<1>1. StoreTyped' /\ HistoryTyped'
  BY TypeParts DEF Typed, StoreTyped, HistoryTyped, CreateDid, identities, trust, log, chain, counters
<1>2. did \in Requests /\ "find" \in Steps
  BY DEF Requests, Steps
<1>3. LocalsTyped' /\ \A g \in Handlers : RequestTyped(g)'
  BY <1>2, TypeBegins, TypeParts DEF Typed, LocalsTyped, CreateDid
<1> QED
  BY <1>1, <1>3, TypeNext

LEMMA TypeList ==
    ASSUME Typed, NEW h \in Handlers, List(h)
    PROVE  Typed'
<1>1. StoreTyped' /\ HistoryTyped'
  BY TypeParts
  DEF Typed, StoreTyped, HistoryTyped, List, identities, trust, log, chain, history, counters
<1>2. NoRequest \in Requests /\ "create" \in Steps
  BY DEF Requests, Steps
<1>3. LocalsTyped' /\ \A g \in Handlers : RequestTyped(g)'
  BY <1>2, TypeBegins, TypeParts DEF Typed, LocalsTyped, List, history
<1> QED
  BY <1>1, <1>3, TypeNext

LEMMA TypeFindStore ==
    ASSUME Typed, NEW h \in Handlers, FindStore(h)
    PROVE  Typed'
<1>1. StoreTyped' /\ HistoryTyped'
  BY TypeParts
  DEF Typed, StoreTyped, HistoryTyped, FindStore, identities, trust, log, chain, history, counters
<1>2. PICK step \in {"push", "create"} : Goto(h, step)
  BY DEF FindStore
<1>3. step \in Steps
  BY DEF Steps
<1>4. LocalsTyped' /\ \A g \in Handlers : RequestTyped(g)'
  BY <1>2, <1>3, TypeGoesOn DEF FindStore, history, Registering
<1> QED
  BY <1>1, <1>4, TypeNext

LEMMA TypeCreateStore ==
    ASSUME Typed, NEW h \in Handlers, CreateStore(h)
    PROVE  Typed'
<1>1. StoreTyped' /\ HistoryTyped'
  BY TypeParts
  DEF Typed, StoreTyped, HistoryTyped, CreateStore, trust, log, chain, history, counters
<1>2. created' = created
  BY DEF CreateStore, history
<1>3. LocalsTyped' /\ \A g \in Handlers : RequestTyped(g)'
  <2>1. CASE Answers(h)
    BY <2>1, <1>2, TypeAnswers
  <2>2. CASE ~Answers(h)
    <3>1. Goto(h, "push") /\ UNCHANGED locals /\ Registering(h)
      BY <2>2 DEF CreateStore, Registering
    <3>2. "push" \in Steps
      BY DEF Steps
    <3> QED
      BY <3>1, <3>2, <1>2, TypeGoesOn
  <2> QED
    BY <2>1, <2>2
<1> QED
  BY <1>1, <1>3, TypeNext

LEMMA TypePushPending ==
    ASSUME Typed, NEW h \in Handlers, PushPending(h)
    PROVE  Typed'
<1>1. request[h] \in created /\ created \subseteq Dids
  BY TypeParts DEF Typed, RequestTyped, Registering, PushPending, HistoryTyped
<1>2. pending' \in Seq(Dids)
  BY <1>1, AppendElements, TypeParts DEF PushPending, Typed, StoreTyped
<1>3. StoreTyped' /\ HistoryTyped'
  BY <1>1, <1>2, TypeParts
  DEF Typed, StoreTyped, HistoryTyped, PushPending, trust, log, chain, counters
<1>4. LocalsTyped' /\ \A g \in Handlers : RequestTyped(g)'
  BY TypeAnswers DEF PushPending
<1> QED
  BY <1>3, <1>4, TypeNext

\* Approvals.
LEMMA TypeFindPending ==
    ASSUME Typed, NEW h \in Handlers, NEW did \in Dids, FindPending(h, did)
    PROVE  Typed'
<1>1. StoreTyped' /\ HistoryTyped'
  BY TypeParts
  DEF Typed, StoreTyped, HistoryTyped, FindPending, identities, trust, log, chain, history, counters
<1>2. did \in Requests /\ "save" \in Steps
  BY DEF Requests, Steps
<1>3. [version |-> version, pending |-> pending] \in Reads
  BY TypeParts DEF Typed, StoreTyped, Reads
<1>4. read' \in [Handlers -> Reads] /\ \A g \in Handlers : g # h => read'[g] = read[g]
  BY <1>3, TypeParts DEF Typed, LocalsTyped, FindPending
<1>5. did \in Elements(read'[h].pending)
  BY TypeParts DEF Typed, LocalsTyped, FindPending
<1>6. before' = before /\ document' = document /\ created' = created /\ Begins(h, did, "save")
  BY DEF FindPending, history
<1>7. LocalsTyped' /\ \A g \in Handlers : RequestTyped(g)'
  BY <1>2, <1>4, <1>5, <1>6, TypeBegins, TypeParts DEF Typed, LocalsTyped
<1> QED
  BY <1>1, <1>7, TypeNext

\* What an approval takes out of the list it has read.
LEMMA ReadRest ==
    ASSUME Typed, NEW h \in Handlers, pc[h] = "save"
    PROVE  /\ request[h] \in Dids /\ read[h].pending \in Seq(Dids)
           /\ IndexOf(read[h].pending, request[h]) \in 1 .. Len(read[h].pending)
           /\ read[h].pending[IndexOf(read[h].pending, request[h])] = request[h]
<1>1. request[h] \in Elements(read[h].pending) /\ request[h] \in Dids
  BY DEF Typed, RequestTyped
<1>2. read[h].pending \in Seq(Dids)
  BY TypeParts DEF Typed, LocalsTyped, Reads
<1> QED
  BY <1>1, <1>2, IndexOfElement

LEMMA TypeSaveApproval ==
    ASSUME Typed, NEW h \in Handlers, SaveApproval(h)
    PROVE  Typed'
<1>1. /\ version' \in Nat /\ pending' \in Seq(Dids)
      /\ operators' \in Seq(Dids) /\ machines' \in Seq(Dids)
  <2>0. version \in Nat /\ pending \in Seq(Dids) /\ operators \in Seq(Dids) /\ machines \in Seq(Dids)
    BY TypeParts DEF Typed, StoreTyped
  <2>1. CASE version = read[h].version
    <3>1. request[h] \in Dids
          /\ Without(read[h].pending, IndexOf(read[h].pending, request[h])) \in Seq(Dids)
      BY ReadRest, WithoutList DEF SaveApproval
    <3>2. Append(operators, request[h]) \in Seq(Dids) /\ Append(machines, request[h]) \in Seq(Dids)
      BY <2>0, <3>1
    <3>3. MoveToActive(h)
      BY <2>1 DEF SaveApproval
    <3>4. pending' = Without(read[h].pending, IndexOf(read[h].pending, request[h]))
      BY <3>3 DEF MoveToActive
    <3>5. /\ operators' \in {operators, Append(operators, request[h])}
          /\ machines' \in {machines, Append(machines, request[h])}
          /\ version' = version + 1
      BY <3>3 DEF MoveToActive
    <3>6. pending' \in Seq(Dids) /\ version' \in Nat
      BY <2>0, <3>1, <3>4, <3>5
    <3>7. operators' \in Seq(Dids) /\ machines' \in Seq(Dids)
      BY <2>0, <3>2, <3>5
    <3> QED
      BY <3>6, <3>7
  <2>2. CASE version # read[h].version
    BY <2>0, <2>2 DEF SaveApproval
  <2> QED
    BY <2>1, <2>2
<1>2. StoreTyped' /\ HistoryTyped'
  BY <1>1, TypeParts DEF Typed, StoreTyped, HistoryTyped, SaveApproval, trust, log, chain, history, counters
<1>3. LocalsTyped' /\ \A g \in Handlers : RequestTyped(g)'
  BY TypeAnswers DEF SaveApproval, history
<1> QED
  BY <1>2, <1>3, TypeNext

\* Trusted issuers and cached documents.
LEMMA TypeAddTrustedIssuer ==
    ASSUME Typed, NEW h \in Handlers, NEW issuer \in Issuers, NEW role, AddTrustedIssuer(h, issuer, role)
    PROVE  Typed'
<1>1. StoreTyped' /\ HistoryTyped'
  BY TypeParts DEF Typed, StoreTyped, HistoryTyped, AddTrustedIssuer, log, chain, history, counters
<1>2. issuer \in Requests /\ "resolve" \in Steps
  BY DEF Requests, Steps
<1>3. UNCHANGED << read, document, before, created >>
  BY DEF AddTrustedIssuer, history
<1>4. LocalsTyped' /\ \A g \in Handlers : RequestTyped(g)'
  <2>1. CASE Begins(h, issuer, "resolve")
    BY <2>1, <1>2, <1>3, TypeBegins, TypeParts DEF Typed, LocalsTyped
  <2>2. CASE UNCHANGED << pc, request >>
    BY <2>2, <1>3, TypeParts DEF Typed, LocalsTyped, RequestTyped, Registering, Caching, Performing
  <2> QED
    BY <2>1, <2>2 DEF AddTrustedIssuer
<1> QED
  BY <1>1, <1>4, TypeNext

LEMMA TypeCacheRootKey ==
    ASSUME Typed, NEW h \in Handlers, NEW issuer \in Issuers, CacheRootKey(h, issuer)
    PROVE  Typed'
<1>1. StoreTyped' /\ HistoryTyped'
  BY TypeParts
  DEF Typed, StoreTyped, HistoryTyped, CacheRootKey, identities, trust, log, chain, history, counters
<1>2. issuer \in Requests /\ "resolve" \in Steps
  BY DEF Requests, Steps
<1>3. LocalsTyped' /\ \A g \in Handlers : RequestTyped(g)'
  BY <1>2, TypeBegins, TypeParts DEF Typed, LocalsTyped, CacheRootKey, history
<1> QED
  BY <1>1, <1>3, TypeNext

LEMMA TypeResolveDocument ==
    ASSUME Typed, NEW h \in Handlers, ResolveDocument(h)
    PROVE  Typed'
<1>1. StoreTyped' /\ HistoryTyped'
  BY TypeParts
  DEF Typed, StoreTyped, HistoryTyped, ResolveDocument, identities, trust, log, chain, history, counters
<1>2. created' = created
  BY DEF ResolveDocument, history
<1>3. LocalsTyped' /\ \A g \in Handlers : RequestTyped(g)'
  <2>1. CASE Answers(h)
    BY <2>1, <1>2, TypeAnswers
  <2>2. CASE ~Answers(h)
    <3>1. /\ document' = [document EXCEPT ![h] = key[request[h]]]
          /\ pc' = [pc EXCEPT ![h] = "$pull"] /\ UNCHANGED << request, read, before >>
      BY <2>2 DEF ResolveDocument, Goto
    <3>2. request[h] \in Issuers /\ key[request[h]] \in Keys
      BY TypeParts DEF ResolveDocument, Typed, RequestTyped, Caching, HistoryTyped
    <3>3. LocalsTyped'
      BY <3>1, <3>2, TypeParts DEF Typed, LocalsTyped, Steps
    <3>4. ASSUME NEW g \in Handlers PROVE RequestTyped(g)'
      <4>1. CASE g = h
        <5>1. pc'[h] = "$pull" /\ document'[h] \in Keys /\ request'[h] \in Issuers
          BY <3>1, <3>2, TypeParts DEF Typed, LocalsTyped
        <5> QED
          BY <4>1, <5>1 DEF RequestTyped, Registering, Caching, Performing
      <4>2. CASE g # h
        <5>1. pc'[g] = pc[g] /\ document'[g] = document[g]
          BY <4>2, <3>1, TypeParts DEF Typed, LocalsTyped
        <5> QED
          BY <5>1, <3>1, <1>2 DEF Typed, RequestTyped, Registering, Caching, Performing
      <4> QED
        BY <4>1, <4>2
    <3> QED
      BY <3>3, <3>4
  <2> QED
    BY <2>1, <2>2
<1> QED
  BY <1>1, <1>3, TypeNext

LEMMA TypePullDocument ==
    ASSUME Typed, NEW h \in Handlers, PullDocument(h)
    PROVE  Typed'
<1>1. cached' \in [Issuers -> Seq(Keys)]
  <2>1. cached \in [Issuers -> Seq(Keys)] /\ << >> \in Seq(Keys)
    BY TypeParts DEF Typed, StoreTyped
  <2> QED
    BY <2>1 DEF PullDocument
<1>2. StoreTyped' /\ HistoryTyped'
  BY <1>1, TypeParts
  DEF Typed, StoreTyped, HistoryTyped, PullDocument, log, chain, history, counters
<1>3. "$push" \in Steps /\ Caching(h) /\ document[h] \in Keys
  BY DEF Steps, PullDocument, Caching, Typed, RequestTyped
<1>4. LocalsTyped' /\ \A g \in Handlers : RequestTyped(g)'
  BY <1>3, TypeGoesOn DEF PullDocument, history
<1> QED
  BY <1>2, <1>4, TypeNext

LEMMA TypePushDocument ==
    ASSUME Typed, NEW h \in Handlers, PushDocument(h) \/ PushDocumentFails(h)
    PROVE  Typed'
<1>1. request[h] \in Issuers /\ document[h] \in Keys
  BY DEF PushDocument, PushDocumentFails, Caching, Typed, RequestTyped
<1>2. cached \in [Issuers -> Seq(Keys)] /\ refreshed \in [Issuers -> Keys \cup {0}] /\ gaps \subseteq Issuers
  BY TypeParts DEF Typed, StoreTyped, HistoryTyped
<1>3. cached[request[h]] \in Seq(Keys) /\ Append(cached[request[h]], document[h]) \in Seq(Keys)
  BY <1>1, <1>2
<1>4. cached' \in [Issuers -> Seq(Keys)]
  BY <1>2, <1>3 DEF PushDocument, PushDocumentFails, trust
<1>5. refreshed' \in [Issuers -> Keys \cup {0}] /\ gaps' \subseteq Issuers
  BY <1>1, <1>2 DEF PushDocument, PushDocumentFails
<1>6. StoreTyped' /\ HistoryTyped'
  BY <1>4, <1>5, TypeParts
  DEF Typed, StoreTyped, HistoryTyped, PushDocument, PushDocumentFails, identities, trust, log, chain, counters
<1>7. LocalsTyped' /\ \A g \in Handlers : RequestTyped(g)'
  BY TypeAnswers DEF PushDocument, PushDocumentFails
<1> QED
  BY <1>6, <1>7, TypeNext

\* The steps of an attempt, which change nothing else.
LEMMA TypeBeginAttempt ==
    ASSUME Typed, NEW h \in Handlers, NEW attempt \in Attempts, BeginAttempt(h, attempt)
    PROVE  Typed'
<1>1. StoreTyped' /\ HistoryTyped'
  BY TypeParts DEF Typed, StoreTyped, HistoryTyped, BeginAttempt, identities, trust, log, chain, history
<1>2. PICK step \in {"machine", "chain"} : Begins(h, attempt, step)
  BY DEF BeginAttempt
<1>3. attempt \in Requests /\ step \in Steps
  BY DEF Requests, Steps
<1>4. before' \in [Handlers -> Befores]
  <2>1. attempt.permit.issuer \in Issuers
    BY AttemptsAssumption DEF Attempt, Permit
  <2>2. [restricted |-> trusted # {}, floor |-> refreshed[attempt.permit.issuer]] \in Befores
    BY <2>1, TypeParts DEF Typed, HistoryTyped, Befores
  <2> QED
    BY <2>2, TypeParts DEF BeginAttempt, Typed, LocalsTyped
<1>5. UNCHANGED << read, document, created >>
  BY DEF BeginAttempt, history
<1>6. LocalsTyped' /\ \A g \in Handlers : RequestTyped(g)'
  BY <1>2, <1>3, <1>4, <1>5, TypeBegins, TypeParts DEF Typed, LocalsTyped
<1> QED
  BY <1>1, <1>6, TypeNext

LEMMA TypeChecks ==
    ASSUME Typed, NEW h \in Handlers,
           \/ ResolveOperator(h) \/ CheckMachine(h) \/ VerifyCredential(h)
           \/ VerifyCredentialOffline(h) \/ CheckAuthorization(h)
    PROVE  Typed'
<1>1. UNCHANGED << chain, identities, trust, log, history, counters >>
  BY DEF ResolveOperator, CheckMachine, VerifyCredential, VerifyCredentialOffline, CheckAuthorization
<1>2. StoreTyped' /\ HistoryTyped'
  BY <1>1, TypeParts
  DEF Typed, StoreTyped, HistoryTyped, identities, trust, log, chain, history, counters
<1>3. created' = created
  BY <1>1 DEF history
<1>4. LocalsTyped' /\ \A g \in Handlers : RequestTyped(g)'
  <2>1. CASE Answers(h)
    BY <2>1, <1>3, TypeAnswers
  <2>2. CASE ~Answers(h)
    <3>1. PICK step \in {"machine", "verify", "offline", "issuer", "grant", "deny"} :
              Goto(h, step) /\ UNCHANGED locals
      BY <2>2 DEF ResolveOperator, CheckMachine, VerifyCredential, VerifyCredentialOffline,
         CheckAuthorization
    <3>2. step \in Steps /\ Performing(h)
      BY DEF Steps, Performing, ResolveOperator, CheckMachine, VerifyCredential,
         VerifyCredentialOffline, CheckAuthorization
    <3> QED
      BY <3>1, <3>2, <1>3, TypeGoesOn
  <2> QED
    BY <2>1, <2>2
<1> QED
  BY <1>2, <1>4, TypeNext

\* The tables after a row is inserted, and its source.
LEMMA TypeCreateAuditEvent ==
    ASSUME Typed, NEW row \in Row, NEW source \in Attempts \cup {Posted},
           CreateAuditEvent(row, source)
    PROVE  events' \in Seq(Row) /\ sources' \in Seq(Attempts \cup {Posted}) /\ Len(sources') = Len(events')
<1>1. events \in Seq(Row) /\ sources \in Seq(Attempts \cup {Posted}) /\ Len(sources) = Len(events)
  BY TypeParts DEF Typed, StoreTyped
<1> QED
  BY <1>1 DEF CreateAuditEvent

\* The row performAction inserts.
RowOf(attempt) ==
    [operatorDid |-> attempt.operator, deviceDid |-> attempt.machine, action |-> attempt.action]

LEMMA GrantInserts ==
    ASSUME Typed, NEW h \in Handlers, Grant(h)
    PROVE  /\ request[h] \in Attempts /\ RowOf(request[h]) \in Row
           /\ CreateAuditEvent(RowOf(request[h]), request[h])
<1>1. request[h] \in Attempts
  BY DEF Typed, RequestTyped, Performing, Grant
<1>2. request[h] \in Attempt
  BY <1>1, AttemptsAssumption
<1>3. RowOf(request[h]) \in Row
  BY <1>2 DEF Attempt, Row, RowOf
<1> QED
  BY <1>1, <1>3 DEF Grant, RowOf

LEMMA TypeGrant ==
    ASSUME Typed, NEW h \in Handlers, Grant(h)
    PROVE  Typed'
<1>1. events' \in Seq(Row) /\ sources' \in Seq(Attempts \cup {Posted}) /\ Len(sources') = Len(events')
  BY GrantInserts, TypeCreateAuditEvent
<1>2. StoreTyped' /\ HistoryTyped'
  BY <1>1, TypeParts
  DEF Typed, StoreTyped, HistoryTyped, Grant, identities, trust, chain, history, counters
<1>3. LocalsTyped' /\ \A g \in Handlers : RequestTyped(g)'
  BY TypeAnswers DEF Grant, history
<1> QED
  BY <1>2, <1>3, TypeNext

LEMMA TypeDeny ==
    ASSUME Typed, NEW h \in Handlers, Deny(h)
    PROVE  Typed'
<1>1. StoreTyped' /\ HistoryTyped'
  BY TypeParts
  DEF Typed, StoreTyped, HistoryTyped, Deny, identities, trust, chain, history, counters
<1>2. LocalsTyped' /\ \A g \in Handlers : RequestTyped(g)'
  BY TypeAnswers DEF Deny, history
<1> QED
  BY <1>1, <1>2, TypeNext

LEMMA TypeCreateEvent ==
    ASSUME Typed, NEW row \in Posts, CreateEvent(row)
    PROVE  Typed'
<1>1. events' \in Seq(Row) /\ sources' \in Seq(Attempts \cup {Posted}) /\ Len(sources') = Len(events')
  BY PostsAssumption, TypeCreateAuditEvent DEF CreateEvent
<1>2. StoreTyped' /\ HistoryTyped' /\ LocalsTyped'
  BY <1>1, TypeParts
  DEF Typed, StoreTyped, HistoryTyped, LocalsTyped, CreateEvent, identities, trust, chain, locals,
      history, counters
<1>3. \A g \in Handlers : RequestTyped(g)'
  BY DEF CreateEvent, locals, history, Typed, RequestTyped, Registering, Caching, Performing
<1> QED
  BY <1>2, <1>3, TypeNext

\* The environment.
LEMMA TypeEnvironment ==
    ASSUME Typed, RpcChange \/ \E issuer \in Issuers : RotateKey(issuer)
    PROVE  Typed'
<1>1. key' \in [Issuers -> Keys] /\ rpcUp' \in BOOLEAN
  <2>1. key \in [Issuers -> Keys] /\ rpcUp \in BOOLEAN
    BY TypeParts DEF Typed, HistoryTyped
  <2>2. CASE RpcChange
    BY <2>1, <2>2 DEF RpcChange
  <2>3. ASSUME NEW issuer \in Issuers, RotateKey(issuer)
        PROVE  key' \in [Issuers -> Keys] /\ rpcUp' \in BOOLEAN
    BY <2>1, <2>3, BoundsAssumption DEF RotateKey, Keys
  <2> QED
    BY <2>2, <2>3
<1>2. UNCHANGED << overlap, identities, trust, log, pc, locals, history, counters >>
  BY DEF RpcChange, RotateKey
<1>3. StoreTyped' /\ HistoryTyped' /\ LocalsTyped'
  BY <1>1, <1>2, TypeParts
  DEF Typed, StoreTyped, HistoryTyped, LocalsTyped, identities, trust, log, locals, history, counters
<1>4. \A g \in Handlers : RequestTyped(g)'
  BY <1>2 DEF locals, history, Typed, RequestTyped, Registering, Caching, Performing
<1> QED
  BY <1>3, <1>4, TypeNext

LEMMA TypeCrash == ASSUME Typed, Crash PROVE Typed'
<1>1. gaps' \subseteq Issuers
  BY TypeParts DEF Crash, Typed, HistoryTyped, RequestTyped, Caching
<1>2. StoreTyped' /\ HistoryTyped'
  BY <1>1, TypeParts DEF Typed, StoreTyped, HistoryTyped, Crash, identities, trust, log, chain
<1>3. LocalsTyped'
  BY NothingHeld DEF Crash, LocalsTyped, Steps
<1>4. \A g \in Handlers : RequestTyped(g)'
  BY DEF Crash, RequestTyped, Registering, Caching, Performing
<1> QED
  BY <1>2, <1>3, <1>4, TypeNext

\* Every step keeps the types.
LEMMA TypeStep == Typed /\ [Next]_vars => Typed'
<1> SUFFICES ASSUME Typed, [Next]_vars PROVE Typed'
  OBVIOUS
<1>1. CASE UNCHANGED vars
  <2>1. StoreTyped' /\ HistoryTyped' /\ LocalsTyped'
    BY <1>1, TypeParts
    DEF vars, Typed, StoreTyped, HistoryTyped, LocalsTyped, identities, trust, log, chain, locals,
        history, counters
  <2>2. \A g \in Handlers : RequestTyped(g)'
    BY <1>1 DEF vars, locals, history, Typed, RequestTyped, Registering, Caching, Performing
  <2> QED
    BY <2>1, <2>2, TypeNext
<1>2. ASSUME NEW h \in Handlers, IdentityStep(h) PROVE Typed'
  BY <1>2, TypeCreateDid, TypeFindPending, TypeList, TypeFindStore, TypeCreateStore,
     TypePushPending, TypeSaveApproval DEF IdentityStep
<1>3. ASSUME NEW h \in Handlers, TrustStep(h) PROVE Typed'
  BY <1>3, TypeAddTrustedIssuer, TypeCacheRootKey, TypeResolveDocument, TypePullDocument,
     TypePushDocument DEF TrustStep
<1>4. ASSUME NEW h \in Handlers, PerformStep(h) PROVE Typed'
  BY <1>4, TypeBeginAttempt, TypeChecks, TypeGrant, TypeDeny DEF PerformStep
<1> QED
  BY <1>1, <1>2, <1>3, <1>4, TypeEnvironment, TypeCreateEvent, TypeCrash DEF Next

\* TypeOK holds of every reachable state.
THEOREM AccessTyped == Spec => []TypeOK
<1>1. Typed => TypeOK
  BY DEF Typed
<1> QED
  BY <1>1, TypeInit, TypeStep, PTL DEF Spec

-----------------------------------------------------------------------------
(* Identities *)

\* The lists share no DID and hold the registered ones; a DID is pushed by one
\* request only; and an approval that will be saved has read the list as it is.
Held ==
    /\ Distinct(pending) /\ Distinct(operators) /\ Distinct(machines)
    /\ Elements(operators) \subseteq Operators /\ Elements(machines) \subseteq Machines
    /\ Elements(pending) \cap (Elements(operators) \cup Elements(machines)) = {}
    /\ registered = Elements(pending) \cup Elements(operators) \cup Elements(machines)
    /\ \A h \in Handlers : Registering(h) => request[h] \notin registered
    /\ \A g, h \in Handlers : Registering(g) /\ Registering(h) /\ request[g] = request[h] => g = h
    /\ \A h \in Handlers : pc[h] = "save" =>
          /\ read[h].version <= version
          /\ read[h].version = version => read[h].pending = pending

\* Steps that leave the lists, and the requests that change them, alone.
Quiet ==
    /\ UNCHANGED << version, pending, operators, machines, registered >>
    /\ \A g \in Handlers : Registering(g)' => Registering(g) /\ request'[g] = request[g]
    /\ \A g \in Handlers : pc'[g] = "save" => pc[g] = "save" /\ read'[g] = read[g]

\* What a step of one request does to the others.
OthersKept(h) ==
    \A g \in Handlers : g # h =>
        pc'[g] = pc[g] /\ request'[g] = request[g] /\ read'[g] = read[g]
        /\ document'[g] = document[g] /\ before'[g] = before[g]

LEMMA AnswersKeepsOthers ==
    ASSUME Typed, NEW h \in Handlers, Answers(h)
    PROVE  OthersKept(h) /\ pc'[h] = "idle"
  BY TypeParts DEF Typed, LocalsTyped, Answers, Goto, OthersKept

LEMMA GotoKeepsOthers ==
    ASSUME Typed, NEW h \in Handlers, NEW step, Goto(h, step), UNCHANGED locals
    PROVE  OthersKept(h) /\ pc'[h] = step
  BY TypeParts DEF Typed, LocalsTyped, Goto, locals, OthersKept

LEMMA BeginsKeepsOthers ==
    ASSUME Typed, NEW h \in Handlers, NEW what, NEW step, Begins(h, what, step),
           \A g \in Handlers : g # h => read'[g] = read[g] /\ before'[g] = before[g],
           document' = document
    PROVE  OthersKept(h) /\ pc'[h] = step /\ request'[h] = what /\ pc[h] = "idle"
  BY TypeParts DEF Typed, LocalsTyped, Begins, Goto, Idle, OthersKept

\* A step of one request is quiet when that request is.
LEMMA QuietStep ==
    ASSUME NEW h \in Handlers, OthersKept(h),
           UNCHANGED << version, pending, operators, machines, registered >>,
           Registering(h)' => Registering(h) /\ request'[h] = request[h],
           pc'[h] # "save"
    PROVE  Quiet
<1>1. \A g \in Handlers : g # h => Registering(g)' = Registering(g) /\ request'[g] = request[g]
  BY DEF OthersKept, Registering
<1> QED
  BY <1>1 DEF Quiet, OthersKept

LEMMA HeldQuiet == ASSUME Held, Quiet PROVE Held'
<1>1. UNCHANGED << version, pending, operators, machines, registered >>
  BY DEF Quiet
<1>2. \A h \in Handlers : Registering(h)' => request'[h] \notin registered'
  BY DEF Quiet, Held
<1>3. \A g, h \in Handlers : Registering(g)' /\ Registering(h)' /\ request'[g] = request'[h] => g = h
  BY DEF Quiet, Held
<1>4. \A h \in Handlers : pc'[h] = "save" =>
          /\ read'[h].version <= version
          /\ read'[h].version = version => read'[h].pending = pending
  BY DEF Quiet, Held
<1> QED
  BY <1>1, <1>2, <1>3, <1>4 DEF Held

\* The rest of a registration or a listing.
LEMMA QuietIdentity ==
    ASSUME Typed, NEW h \in Handlers, List(h) \/ FindStore(h) \/ CreateStore(h)
    PROVE  Quiet
<1>1. UNCHANGED << version, pending, operators, machines, registered >>
  BY DEF List, FindStore, CreateStore, identities, history
<1>2. CASE List(h)
  <2>1. OthersKept(h) /\ pc'[h] = "create" /\ request'[h] = NoRequest
    BY <1>2, BeginsKeepsOthers DEF List
  <2> QED
    BY <1>1, <2>1, QuietStep DEF Registering
<1>3. CASE FindStore(h)
  <2>1. PICK step \in {"push", "create"} : Goto(h, step) /\ UNCHANGED locals
    BY <1>3 DEF FindStore
  <2>2. OthersKept(h) /\ pc'[h] = step /\ Registering(h) /\ request'[h] = request[h]
    BY <1>3, <2>1, GotoKeepsOthers DEF FindStore, Registering, locals
  <2> QED
    BY <1>1, <2>2, QuietStep
<1>4. CASE CreateStore(h) /\ Answers(h)
  BY <1>1, <1>4, AnswersKeepsOthers, QuietStep DEF Registering
<1>5. CASE CreateStore(h) /\ ~Answers(h)
  <2>1. Goto(h, "push") /\ UNCHANGED locals /\ Registering(h)
    BY <1>5 DEF CreateStore, Registering
  <2>2. OthersKept(h) /\ pc'[h] = "push" /\ request'[h] = request[h]
    BY <2>1, GotoKeepsOthers DEF locals
  <2> QED
    BY <1>1, <2>1, <2>2, QuietStep
<1> QED
  BY <1>2, <1>3, <1>4, <1>5

\* Issuers and cached documents.
LEMMA QuietTrust ==
    ASSUME Typed, NEW h \in Handlers, TrustStep(h)
    PROVE  Quiet
<1>1. UNCHANGED << version, pending, operators, machines, registered >>
  BY DEF TrustStep, AddTrustedIssuer, CacheRootKey, ResolveDocument, PullDocument, PushDocument,
     PushDocumentFails, identities, history
<1>2. ASSUME NEW issuer \in Issuers, NEW role, AddTrustedIssuer(h, issuer, role) PROVE Quiet
  <2>1. UNCHANGED << read, before, document >>
    BY <1>2 DEF AddTrustedIssuer
  <2>2. CASE Begins(h, issuer, "resolve")
    <3>1. OthersKept(h) /\ pc'[h] = "resolve"
      BY <2>1, <2>2, BeginsKeepsOthers
    <3> QED
      BY <1>1, <3>1, QuietStep DEF Registering
  <2>3. CASE UNCHANGED << pc, request >>
    BY <1>1, <2>1, <2>3 DEF Quiet, Registering
  <2> QED
    BY <1>2, <2>2, <2>3 DEF AddTrustedIssuer
<1>3. ASSUME NEW issuer \in Issuers, CacheRootKey(h, issuer) PROVE Quiet
  <2>1. OthersKept(h) /\ pc'[h] = "resolve"
    BY <1>3, BeginsKeepsOthers DEF CacheRootKey
  <2> QED
    BY <1>1, <2>1, QuietStep DEF Registering
<1>4. CASE PushDocument(h) \/ PushDocumentFails(h) \/ (ResolveDocument(h) /\ Answers(h))
  <2>1. Answers(h)
    BY <1>4 DEF PushDocument, PushDocumentFails
  <2> QED
    BY <1>1, <2>1, AnswersKeepsOthers, QuietStep DEF Registering
<1>5. CASE PullDocument(h)
  <2>1. OthersKept(h) /\ pc'[h] = "$push"
    BY <1>5, GotoKeepsOthers DEF PullDocument
  <2> QED
    BY <1>1, <2>1, QuietStep DEF Registering
<1>6. CASE ResolveDocument(h) /\ ~Answers(h)
  <2>1. /\ document' = [document EXCEPT ![h] = key[request[h]]]
        /\ pc' = [pc EXCEPT ![h] = "$pull"] /\ UNCHANGED << request, read, before >>
    BY <1>6 DEF ResolveDocument, Goto
  <2>2. OthersKept(h) /\ pc'[h] = "$pull"
    BY <2>1, TypeParts DEF Typed, LocalsTyped, OthersKept
  <2> QED
    BY <1>1, <2>2, QuietStep DEF Registering
<1> QED
  BY <1>2, <1>3, <1>4, <1>5, <1>6 DEF TrustStep

\* Attempts.
LEMMA QuietPerform ==
    ASSUME Typed, NEW h \in Handlers, PerformStep(h)
    PROVE  Quiet /\ OthersKept(h)
<1>1. UNCHANGED << version, pending, operators, machines, registered >>
  BY DEF PerformStep, BeginAttempt, ResolveOperator, CheckMachine, VerifyCredential,
     VerifyCredentialOffline, CheckAuthorization, Grant, Deny, identities, history
<1>2. ASSUME NEW attempt \in Attempts, BeginAttempt(h, attempt) PROVE Quiet /\ OthersKept(h)
  <2>1. PICK step \in {"machine", "chain"} : Begins(h, attempt, step)
    BY <1>2 DEF BeginAttempt
  <2>2. \A g \in Handlers : g # h => before'[g] = before[g]
    BY <1>2, TypeParts DEF BeginAttempt, Typed, LocalsTyped
  <2>3. OthersKept(h) /\ pc'[h] = step
    BY <1>2, <2>1, <2>2, BeginsKeepsOthers DEF BeginAttempt
  <2> QED
    BY <1>1, <2>3, QuietStep DEF Registering
<1>3. CASE Answers(h)
  BY <1>1, <1>3, AnswersKeepsOthers, QuietStep DEF Registering
<1>4. CASE ~(\E attempt \in Attempts : BeginAttempt(h, attempt)) /\ ~Answers(h)
  <2>1. PICK step \in {"machine", "verify", "offline", "issuer", "grant", "deny"} :
            Goto(h, step) /\ UNCHANGED locals
    BY <1>4 DEF PerformStep, ResolveOperator, CheckMachine, VerifyCredential,
       VerifyCredentialOffline, CheckAuthorization, Grant, Deny
  <2>2. OthersKept(h) /\ pc'[h] = step
    BY <2>1, GotoKeepsOthers
  <2> QED
    BY <1>1, <2>2, QuietStep DEF Registering
<1> QED
  BY <1>2, <1>3, <1>4

\* The environment, and a restart.
LEMMA QuietEnvironment ==
    ASSUME Typed,
           \/ RpcChange \/ Crash \/ (UNCHANGED vars) \/ \E issuer \in Issuers : RotateKey(issuer)
           \/ \E row \in Posts : CreateEvent(row)
    PROVE  Quiet
<1>1. CASE Crash
  <2>1. UNCHANGED << version, pending, operators, machines, registered >>
    BY <1>1 DEF Crash, identities
  <2>2. \A g \in Handlers : pc'[g] = "idle"
    BY <1>1 DEF Crash
  <2> QED
    BY <2>1, <2>2 DEF Quiet, Registering
<1>2. CASE ~Crash
  <2>1. UNCHANGED << identities, pc, locals, history >>
    BY <1>2 DEF RpcChange, RotateKey, CreateEvent, vars
  <2> QED
    BY <2>1 DEF identities, locals, history, Quiet, Registering
<1> QED
  BY <1>1, <1>2

\* A new DID is in no list, and no other request's.
LEMMA HeldCreateDid ==
    ASSUME Typed, Held, NEW h \in Handlers, NEW did \in Dids, CreateDid(h, did)
    PROVE  Held'
<1>1. UNCHANGED << version, pending, operators, machines, registered, read >>
  BY DEF CreateDid, identities
<1>2. OthersKept(h) /\ pc'[h] = "find" /\ request'[h] = did
  BY BeginsKeepsOthers DEF CreateDid
<1>3. did \notin created /\ registered \subseteq created
  BY TypeParts DEF CreateDid, Typed, HistoryTyped
<1>4. ASSUME NEW g \in Handlers, Registering(g)'
      PROVE  \/ g = h
             \/ Registering(g) /\ request'[g] = request[g] /\ request[g] # did
  <2>1. g # h => Registering(g) /\ request'[g] = request[g]
    BY <1>2, <1>4 DEF OthersKept, Registering
  <2> QED
    BY <1>3, <2>1 DEF Typed, RequestTyped
<1>5. \A g \in Handlers : Registering(g)' => request'[g] \notin registered
  BY <1>2, <1>3, <1>4 DEF Held
<1>6. \A f, g \in Handlers : Registering(f)' /\ Registering(g)' /\ request'[f] = request'[g] => f = g
  BY <1>2, <1>4 DEF Held
<1>7. \A g \in Handlers : pc'[g] = "save" => pc[g] = "save"
  BY <1>2 DEF OthersKept
<1> QED
  BY <1>1, <1>5, <1>6, <1>7 DEF Held

\* What is read is the list as it is.
LEMMA HeldFindPending ==
    ASSUME Typed, Held, NEW h \in Handlers, NEW did \in Dids, FindPending(h, did)
    PROVE  Held'
<1>1. UNCHANGED << version, pending, operators, machines, registered, document, before >>
  BY DEF FindPending, identities, history
<1>2. read' = [read EXCEPT ![h] = [version |-> version, pending |-> pending]]
  BY DEF FindPending
<1>3. /\ \A g \in Handlers : g # h => read'[g] = read[g] /\ before'[g] = before[g]
      /\ read'[h].version = version /\ read'[h].pending = pending
  BY <1>1, <1>2, TypeParts DEF Typed, LocalsTyped
<1>4. OthersKept(h) /\ pc'[h] = "save"
  BY <1>1, <1>3, BeginsKeepsOthers DEF FindPending
<1>5. \A g \in Handlers : Registering(g)' => Registering(g) /\ request'[g] = request[g]
  BY <1>4 DEF OthersKept, Registering
<1>6. \A g \in Handlers : pc'[g] = "save" =>
          read'[g].version <= version /\ (read'[g].version = version => read'[g].pending = pending)
  <2>1. version <= version
    BY TypeParts DEF Typed, StoreTyped
  <2> QED
    BY <1>3, <1>4, <2>1 DEF OthersKept, Held
<1> QED
  BY <1>1, <1>5, <1>6 DEF Held

\* A version that has been counted up is nobody's.
LEMMA VersionsPassed ==
    ASSUME Typed, Held, NEW h \in Handlers, Answers(h), version' = version + 1
    PROVE  \A g \in Handlers : pc'[g] = "save" =>
               read'[g].version <= version' /\ read'[g].version # version'
<1>1. \A g \in Handlers : read[g].version \in Nat
  BY TypeParts DEF Typed, LocalsTyped, Reads
<1>2. version \in Nat
  BY TypeParts DEF Typed, StoreTyped
<1>3. \A g \in Handlers : pc'[g] = "save" => pc[g] = "save" /\ read'[g] = read[g]
  BY AnswersKeepsOthers DEF OthersKept
<1> QED
  BY <1>1, <1>2, <1>3 DEF Held

LEMMA HeldPushPending ==
    ASSUME Typed, Held, NEW h \in Handlers, PushPending(h)
    PROVE  /\ Held'
           /\ request[h] \in Dids \ registered
           /\ Elements(pending') = Elements(pending) \cup {request[h]}
           /\ UNCHANGED << operators, machines >>
<1>1. /\ pending' = Append(pending, request[h]) /\ version' = version + 1
      /\ registered' = registered \cup {request[h]} /\ UNCHANGED << operators, machines >>
      /\ Answers(h) /\ Registering(h)
  BY DEF PushPending, Registering
<1>2. request[h] \in Dids \ registered
  BY <1>1, TypeParts DEF Typed, HistoryTyped, RequestTyped, Held
<1>3. Elements(pending') = Elements(pending) \cup {request[h]} /\ Distinct(pending')
  BY <1>1, <1>2, AppendElements, TypeParts DEF Typed, StoreTyped, Held
<1>4. OthersKept(h) /\ pc'[h] = "idle"
  BY <1>1, AnswersKeepsOthers
<1>5. \A g \in Handlers : Registering(g)' => g # h /\ Registering(g) /\ request'[g] = request[g]
  BY <1>4 DEF OthersKept, Registering
<1>6. \A g \in Handlers : Registering(g)' => request'[g] \notin registered'
  BY <1>1, <1>5 DEF Held
<1>7. \A f, g \in Handlers : Registering(f)' /\ Registering(g)' /\ request'[f] = request'[g] => f = g
  BY <1>5 DEF Held
<1>8. Held'
  BY <1>1, <1>2, <1>3, <1>6, <1>7, VersionsPassed DEF Held
<1> QED
  BY <1>1, <1>2, <1>3, <1>8

\* An approval that is saved moves its DID from the list to that of its type.
LEMMA HeldSaveApproval ==
    ASSUME Typed, Held, NEW h \in Handlers, SaveApproval(h), version = read[h].version
    PROVE  /\ Held'
           /\ request[h] \in Elements(pending) /\ request[h] \in Dids
           /\ Elements(pending') = Elements(pending) \ {request[h]}
           /\ Elements(operators') \cup Elements(machines') =
                Elements(operators) \cup Elements(machines) \cup {request[h]}
<1> DEFINE did == request[h]
           index == IndexOf(pending, did)
<1>1. MoveToActive(h) /\ Answers(h) /\ registered' = registered /\ pc[h] = "save"
  BY DEF SaveApproval, history
<1>2. pending \in Seq(Dids) /\ operators \in Seq(Dids) /\ machines \in Seq(Dids)
  BY TypeParts DEF Typed, StoreTyped
<1>3. read[h].pending = pending
  BY <1>1 DEF Held
<1>4. did \in Dids /\ index \in 1 .. Len(pending) /\ pending[index] = did
  BY <1>1, <1>3, ReadRest
<1>5. did \in Elements(pending)
  BY <1>2, <1>4 DEF Elements
<1>6. /\ pending' = Without(pending, index)
      /\ operators' = IF did \in Operators THEN Append(operators, did) ELSE operators
      /\ machines' = IF did \in Machines THEN Append(machines, did) ELSE machines
      /\ version' = version + 1
  BY <1>1, <1>3 DEF MoveToActive
<1>7. did \notin Elements(operators) /\ did \notin Elements(machines)
  BY <1>5 DEF Held
<1> HIDE DEF did, index
<1>8. Elements(pending') = Elements(pending) \ {did} /\ Distinct(pending')
  BY <1>2, <1>4, <1>6, WithoutDistinct DEF Held
<1>9. /\ Distinct(operators')
      /\ Elements(operators') = IF did \in Operators THEN Elements(operators) \cup {did}
                                ELSE Elements(operators)
  <2>1. Distinct(operators) /\ did \in Dids
    BY <1>4 DEF Held
  <2>2. /\ Elements(Append(operators, did)) = Elements(operators) \cup {did}
        /\ Distinct(Append(operators, did))
    BY <1>2, <1>7, <2>1, AppendElements
  <2>3. CASE did \in Operators
    BY <1>6, <2>2, <2>3
  <2>4. CASE did \notin Operators
    BY <1>6, <2>1, <2>4
  <2> QED
    BY <2>3, <2>4
<1>10. /\ Distinct(machines')
       /\ Elements(machines') = IF did \in Machines THEN Elements(machines) \cup {did}
                                ELSE Elements(machines)
  <2>1. Distinct(machines) /\ did \in Dids
    BY <1>4 DEF Held
  <2>2. /\ Elements(Append(machines, did)) = Elements(machines) \cup {did}
        /\ Distinct(Append(machines, did))
    BY <1>2, <1>7, <2>1, AppendElements
  <2>3. CASE did \in Machines
    BY <1>6, <2>2, <2>3
  <2>4. CASE did \notin Machines
    BY <1>6, <2>1, <2>4
  <2> QED
    BY <2>3, <2>4
<1>11. did \in Operators \/ did \in Machines
  BY <1>4 DEF Dids
<1>12. Elements(operators') \cup Elements(machines') = Elements(operators) \cup Elements(machines) \cup {did}
  BY <1>9, <1>10, <1>11
<1>13. OthersKept(h) /\ pc'[h] = "idle"
  BY <1>1, AnswersKeepsOthers
<1>14. \A g \in Handlers : Registering(g)' => Registering(g) /\ request'[g] = request[g]
  BY <1>13 DEF OthersKept, Registering
<1>15. /\ Elements(operators') \subseteq Operators /\ Elements(machines') \subseteq Machines
       /\ Elements(pending') \cap (Elements(operators') \cup Elements(machines')) = {}
       /\ registered' = Elements(pending') \cup Elements(operators') \cup Elements(machines')
  <2>1. Elements(operators') \subseteq Operators /\ Elements(machines') \subseteq Machines
    BY <1>9, <1>10 DEF Held
  <2>2. Elements(pending') \cap (Elements(operators') \cup Elements(machines')) = {}
    BY <1>8, <1>12 DEF Held
  <2>3. registered' = Elements(pending') \cup (Elements(operators') \cup Elements(machines'))
    BY <1>1, <1>5, <1>8, <1>12 DEF Held, did
  <2> QED
    BY <2>1, <2>2, <2>3
<1>16. /\ \A g \in Handlers : Registering(g)' => request'[g] \notin registered'
       /\ \A f, g \in Handlers : Registering(f)' /\ Registering(g)' /\ request'[f] = request'[g] => f = g
  BY <1>1, <1>14 DEF Held
<1>17. Held'
  BY <1>1, <1>6, <1>8, <1>9, <1>10, <1>15, <1>16, VersionsPassed DEF Held
<1> QED
  BY <1>4, <1>5, <1>8, <1>12, <1>17 DEF did

\* A save that finds another version changes nothing.
LEMMA QuietSaveApproval ==
    ASSUME Typed, NEW h \in Handlers, SaveApproval(h), version # read[h].version
    PROVE  Quiet
<1>1. UNCHANGED << version, pending, operators, machines, registered >>
  BY DEF SaveApproval, history
<1>2. OthersKept(h) /\ pc'[h] = "idle"
  BY AnswersKeepsOthers DEF SaveApproval
<1> QED
  BY <1>1, <1>2, QuietStep DEF Registering

\* Which steps change the lists.
LEMMA IdentityCases ==
    ASSUME Typed, [Next]_vars
    PROVE  \/ Quiet
           \/ \E h \in Handlers : \E did \in Dids : CreateDid(h, did) \/ FindPending(h, did)
           \/ \E h \in Handlers : PushPending(h)
           \/ \E h \in Handlers : SaveApproval(h) /\ version = read[h].version
<1>1. ASSUME NEW h \in Handlers, IdentityStep(h)
      PROVE  \/ Quiet
             \/ \E did \in Dids : CreateDid(h, did) \/ FindPending(h, did)
             \/ PushPending(h)
             \/ SaveApproval(h) /\ version = read[h].version
  BY <1>1, QuietIdentity, QuietSaveApproval DEF IdentityStep
<1>2. ASSUME NEW h \in Handlers, TrustStep(h) \/ PerformStep(h) PROVE Quiet
  BY <1>2, QuietTrust, QuietPerform
<1> QED
  BY <1>1, <1>2, QuietEnvironment DEF Next

LEMMA HeldInit == Init => Held
<1> SUFFICES ASSUME Init PROVE Held
  OBVIOUS
<1>1. /\ pending = << >> /\ operators = << >> /\ machines = << >> /\ registered = {}
      /\ \A h \in Handlers : pc[h] = "idle"
  BY DEF Init
<1>2. Elements(<< >>) = {} /\ Distinct(<< >>)
  BY DEF Elements, Distinct
<1> QED
  BY <1>1, <1>2 DEF Held, Registering

LEMMA HeldStep == Typed /\ Held /\ [Next]_vars => Held'
<1> SUFFICES ASSUME Typed, Held, [Next]_vars PROVE Held'
  OBVIOUS
<1> QED
  BY IdentityCases, HeldQuiet, HeldCreateDid, HeldFindPending, HeldPushPending, HeldSaveApproval

\* A list with no DID twice holds each of its DIDs once.
LEMMA OccursOnce ==
    ASSUME NEW T, NEW s \in Seq(T), Distinct(s), NEW did
    PROVE  /\ Cardinality({ i \in DOMAIN s : s[i] = did }) \in Nat
           /\ did \in Elements(s) => Cardinality({ i \in DOMAIN s : s[i] = did }) = 1
           /\ did \notin Elements(s) => Cardinality({ i \in DOMAIN s : s[i] = did }) = 0
<1> DEFINE places == { i \in DOMAIN s : s[i] = did }
<1>1. CASE did \in Elements(s)
  <2>1. PICK i \in DOMAIN s : s[i] = did
    BY <1>1 DEF Elements
  <2>2. places = {i}
    BY <2>1 DEF Distinct
  <2>3. Cardinality(places) = 1
    BY <2>2, FS_Singleton
  <2> QED
    BY <1>1, <2>3
<1>2. CASE did \notin Elements(s)
  <2>1. places = {}
    BY <1>2 DEF Elements
  <2>2. Cardinality(places) = 0
    BY <2>1, FS_EmptySet
  <2> QED
    BY <1>2, <2>2
<1> QED
  BY <1>1, <1>2

\* A DID whose registration was answered is in one list, once: for any overlap
\* of registrations and approvals and any restarts.
THEOREM IdentityAlwaysHeldOnce == Spec => []IdentityHeldOnce
<1>1. Init => Typed /\ Held
  BY TypeInit, HeldInit
<1>2. Typed /\ Held /\ [Next]_vars => Typed' /\ Held'
  BY TypeStep, HeldStep
<1>3. Typed /\ Held => IdentityHeldOnce
  <2> SUFFICES ASSUME Typed, Held, NEW did \in registered PROVE Occurrences(did) = 1
    BY DEF IdentityHeldOnce
  <2> DEFINE times(list) == Cardinality({ i \in DOMAIN list : list[i] = did })
  <2>1. pending \in Seq(Dids) /\ operators \in Seq(Dids) /\ machines \in Seq(Dids)
    BY TypeParts DEF Typed, StoreTyped
  <2>2. Distinct(pending) /\ Distinct(operators) /\ Distinct(machines)
    BY DEF Held
  <2>3. /\ times(pending) = IF did \in Elements(pending) THEN 1 ELSE 0
        /\ times(operators) = IF did \in Elements(operators) THEN 1 ELSE 0
        /\ times(machines) = IF did \in Elements(machines) THEN 1 ELSE 0
    BY <2>1, <2>2, OccursOnce
  <2>4. Occurrences(did) = times(pending) + times(operators) + times(machines)
    BY DEF Occurrences
  <2> HIDE DEF times
  <2>5. did \in Elements(pending) \/ did \in Elements(operators) \/ did \in Elements(machines)
    BY DEF Held
  <2>6. /\ ~(did \in Elements(pending) /\ did \in Elements(operators))
        /\ ~(did \in Elements(pending) /\ did \in Elements(machines))
        /\ ~(did \in Elements(operators) /\ did \in Elements(machines))
    BY DidsAssumption DEF Held
  <2> QED
    BY <2>3, <2>4, <2>5, <2>6
<1> QED
  BY <1>1, <1>2, <1>3, PTL DEF Spec

-----------------------------------------------------------------------------
(* The life of a DID *)

Status == [did \in Dids |-> StatusOf(did)]

\* Only the lists matter to the status of a DID.
LEMMA StatusUnchanged == ASSUME UNCHANGED << pending, operators, machines >> PROVE Status' = Status
  BY DEF Status, StatusOf

\* When the status of one DID changes, this is how the function does.
LEMMA StatusChanged ==
    ASSUME NEW did \in Dids, NEW value, StatusOf(did)' = value,
           \A d \in Dids : d # did => StatusOf(d)' = StatusOf(d)
    PROVE  Status' = [Status EXCEPT ![did] = value]
<1>1. Status' = [d \in Dids |-> StatusOf(d)']
  BY DEF Status
<1>2. \A d \in Dids : StatusOf(d)' = IF d = did THEN value ELSE Status[d]
  BY DEF Status
<1>3. [Status EXCEPT ![did] = value] = [d \in Dids |-> IF d = did THEN value ELSE Status[d]]
  BY DEF Status
<1> QED
  BY <1>1, <1>2, <1>3

\* No DID is in a list at first.
LEMMA LifecycleInit == Init => Lifecycle!Init
<1> SUFFICES ASSUME Init PROVE Lifecycle!Init
  OBVIOUS
<1>1. pending = << >> /\ operators = << >> /\ machines = << >>
  BY DEF Init
<1>2. Elements(<< >>) = {}
  BY DEF Elements
<1> QED
  BY <1>1, <1>2 DEF Lifecycle!Init, StatusOf

\* Every step leaves each DID where it is, registers one or approves one.
LEMMA LifecycleStep == Typed /\ Held /\ [Next]_vars => [Lifecycle!Next]_Status
<1> SUFFICES ASSUME Typed, Held, [Next]_vars PROVE [Lifecycle!Next]_Status
  OBVIOUS
<1>1. CASE Quiet
  BY <1>1, StatusUnchanged DEF Quiet
<1>2. ASSUME NEW h \in Handlers, NEW did \in Dids, CreateDid(h, did) \/ FindPending(h, did)
      PROVE  [Lifecycle!Next]_Status
  BY <1>2, StatusUnchanged DEF CreateDid, FindPending, identities
<1>3. ASSUME NEW h \in Handlers, PushPending(h) PROVE [Lifecycle!Next]_Status
  <2>1. PICK did \in Dids :
            /\ did \notin registered /\ Elements(pending') = Elements(pending) \cup {did}
            /\ operators' = operators /\ machines' = machines
    BY <1>3, HeldPushPending
  <2>0. did \notin Elements(pending) /\ did \notin Elements(operators) /\ did \notin Elements(machines)
    BY <2>1 DEF Held
  <2>2. StatusOf(did) = "none" /\ StatusOf(did)' = "PENDING"
    <3>1. did \in Elements(pending')
      BY <2>1
    <3> QED
      BY <2>0, <2>1, <3>1 DEF StatusOf
  <2>3. \A d \in Dids : d # did => StatusOf(d)' = StatusOf(d)
    BY <2>1 DEF StatusOf
  <2>4. Status' = [Status EXCEPT ![did] = "PENDING"] /\ Status[did] = "none"
    <3>1. did \in Dids /\ Status[did] = "none"
      BY <2>1, <2>2 DEF Status
    <3> QED
      BY <2>2, <2>3, <3>1, StatusChanged
  <2>5. Lifecycle!Register(did)
    BY <2>4 DEF Lifecycle!Register, Status
  <2> QED
    BY <2>1, <2>5 DEF Lifecycle!Next
<1>4. ASSUME NEW h \in Handlers, SaveApproval(h), version = read[h].version
      PROVE  [Lifecycle!Next]_Status
  <2>1. PICK did \in Dids :
            /\ did \in Elements(pending) /\ Elements(pending') = Elements(pending) \ {did}
            /\ Elements(operators') \cup Elements(machines') =
                 Elements(operators) \cup Elements(machines) \cup {did}
    BY <1>4, HeldSaveApproval
  <2>0. did \notin Elements(operators) \cup Elements(machines)
    BY <2>1 DEF Held
  <2>2. StatusOf(did) = "PENDING" /\ StatusOf(did)' = "ACTIVE"
    <3>1. did \in Elements(operators') \cup Elements(machines')
      BY <2>1
    <3> QED
      BY <2>0, <2>1, <3>1 DEF StatusOf
  <2>3. \A d \in Dids : d # did => StatusOf(d)' = StatusOf(d)
    BY <2>1 DEF StatusOf
  <2>4. Status' = [Status EXCEPT ![did] = "ACTIVE"] /\ Status[did] = "PENDING"
    <3>1. did \in Dids /\ Status[did] = "PENDING"
      BY <2>1, <2>2 DEF Status
    <3> QED
      BY <2>2, <2>3, <3>1, StatusChanged
  <2>5. Lifecycle!Approve(did)
    BY <2>4 DEF Lifecycle!Approve, Status
  <2> QED
    BY <2>1, <2>5 DEF Lifecycle!Next
<1> QED
  BY <1>1, <1>2, <1>3, <1>4, IdentityCases

\* The shared document of lists implements the life of each DID.
THEOREM LifecycleImplemented == Spec => ImplementsLifecycle
<1>1. Init => Typed /\ Held /\ Lifecycle!Init
  BY TypeInit, HeldInit, LifecycleInit
<1>2. Typed /\ Held /\ [Next]_vars => Typed' /\ Held' /\ [Lifecycle!Next]_Status
  BY TypeStep, HeldStep, LifecycleStep
<1> QED
  BY <1>1, <1>2, PTL DEF Spec, ImplementsLifecycle, Lifecycle!Spec, Status

-----------------------------------------------------------------------------
(* Cached documents *)

\* A step of one request leaves what the others hold.
LEMMA OneRequestSteps ==
    ASSUME Typed, NEW h \in Handlers, IdentityStep(h) \/ TrustStep(h) \/ PerformStep(h)
    PROVE  OthersKept(h)
<1>1. CASE IdentityStep(h)
  <2>1. ASSUME NEW did \in Dids, CreateDid(h, did) PROVE OthersKept(h)
    BY <2>1, BeginsKeepsOthers DEF CreateDid
  <2>2. ASSUME NEW did \in Dids, FindPending(h, did) PROVE OthersKept(h)
    <3>1. \A g \in Handlers : g # h => read'[g] = read[g]
      BY <2>2, TypeParts DEF FindPending, Typed, LocalsTyped
    <3> QED
      BY <2>2, <3>1, BeginsKeepsOthers DEF FindPending
  <2>3. CASE List(h)
    BY <2>3, BeginsKeepsOthers DEF List
  <2>4. CASE FindStore(h) \/ (CreateStore(h) /\ ~Answers(h))
    <3>1. PICK step \in {"push", "create"} : Goto(h, step) /\ UNCHANGED locals
      BY <2>4 DEF FindStore, CreateStore
    <3> QED
      BY <3>1, GotoKeepsOthers
  <2>5. CASE PushPending(h) \/ SaveApproval(h) \/ (CreateStore(h) /\ Answers(h))
    BY <2>5, AnswersKeepsOthers DEF PushPending, SaveApproval
  <2> QED
    BY <1>1, <2>1, <2>2, <2>3, <2>4, <2>5 DEF IdentityStep
<1>2. CASE TrustStep(h)
  <2>1. ASSUME NEW issuer \in Issuers, NEW role, AddTrustedIssuer(h, issuer, role) PROVE OthersKept(h)
    <3>1. UNCHANGED << read, before, document >>
      BY <2>1 DEF AddTrustedIssuer
    <3>2. CASE Begins(h, issuer, "resolve")
      BY <3>1, <3>2, BeginsKeepsOthers
    <3>3. CASE UNCHANGED << pc, request >>
      BY <3>1, <3>3 DEF OthersKept
    <3> QED
      BY <2>1, <3>2, <3>3 DEF AddTrustedIssuer
  <2>2. ASSUME NEW issuer \in Issuers, CacheRootKey(h, issuer) PROVE OthersKept(h)
    BY <2>2, BeginsKeepsOthers DEF CacheRootKey
  <2>3. CASE PushDocument(h) \/ PushDocumentFails(h) \/ (ResolveDocument(h) /\ Answers(h))
    BY <2>3, AnswersKeepsOthers DEF PushDocument, PushDocumentFails
  <2>4. CASE PullDocument(h)
    BY <2>4, GotoKeepsOthers DEF PullDocument
  <2>5. CASE ResolveDocument(h) /\ ~Answers(h)
    <3>1. /\ document' = [document EXCEPT ![h] = key[request[h]]]
          /\ pc' = [pc EXCEPT ![h] = "$pull"] /\ UNCHANGED << request, read, before >>
      BY <2>5 DEF ResolveDocument, Goto
    <3> QED
      BY <3>1, TypeParts DEF Typed, LocalsTyped, OthersKept
  <2> QED
    BY <1>2, <2>1, <2>2, <2>3, <2>4, <2>5 DEF TrustStep
<1> QED
  BY <1>1, <1>2, QuietPerform

\* Steps that leave the cache and who refreshes it alone.
CacheQuiet ==
    /\ UNCHANGED << overlap, key, cached, refreshed, gaps >>
    /\ \A g \in Handlers : Caching(g) \/ Caching(g)' =>
          pc'[g] = pc[g] /\ request'[g] = request[g] /\ document'[g] = document[g]

LEMMA CacheQuietSteps ==
    ASSUME Typed, NEW h \in Handlers,
           \/ IdentityStep(h) \/ PerformStep(h)
           \/ \E issuer \in Issuers, role \in {"localAdmin"} : AddTrustedIssuer(h, issuer, role)
    PROVE  CacheQuiet
<1>1. UNCHANGED << overlap, key, cached, refreshed, gaps >>
  BY DEF IdentityStep, CreateDid, FindPending, List, FindStore, CreateStore, PushPending,
     SaveApproval, PerformStep, BeginAttempt, ResolveOperator, CheckMachine, VerifyCredential,
     VerifyCredentialOffline, CheckAuthorization, Grant, Deny, AddTrustedIssuer, chain, trust, history
<1>2. OthersKept(h)
  BY OneRequestSteps DEF TrustStep
<1>3. CASE \E issuer \in Issuers, role \in {"localAdmin"} : AddTrustedIssuer(h, issuer, role)
  <2>1. UNCHANGED << pc, request, document >>
    BY <1>3 DEF AddTrustedIssuer
  <2> QED
    BY <1>1, <2>1 DEF CacheQuiet
<1>4. ASSUME IdentityStep(h) \/ PerformStep(h) PROVE ~Caching(h) /\ ~Caching(h)'
  <2>1. ~Caching(h)
    BY <1>4 DEF IdentityStep, CreateDid, FindPending, List, FindStore, CreateStore, PushPending,
       SaveApproval, PerformStep, BeginAttempt, ResolveOperator, CheckMachine, VerifyCredential,
       VerifyCredentialOffline, CheckAuthorization, Grant, Deny, Begins, Idle, Caching
  <2>2. \E step \in {"idle", "find", "create", "push", "save", "chain", "machine", "verify", "offline",
                     "issuer", "grant", "deny"} : Goto(h, step)
    BY <1>4 DEF IdentityStep, CreateDid, FindPending, List, FindStore, CreateStore, PushPending,
       SaveApproval, PerformStep, BeginAttempt, ResolveOperator, CheckMachine, VerifyCredential,
       VerifyCredentialOffline, CheckAuthorization, Grant, Deny, Begins, Answers
  <2> QED
    BY <2>1, <2>2, TypeParts DEF Typed, LocalsTyped, Goto, Caching
<1> QED
  BY <1>1, <1>2, <1>3, <1>4 DEF CacheQuiet, OthersKept, Caching

\* A refresh begins, alone unless refreshes overlap, or gets the document.
CacheBegins(h) ==
    /\ UNCHANGED << overlap, key, cached, refreshed, gaps >>
    /\ OthersKept(h)
    /\ pc[h] = "idle" /\ pc'[h] = "resolve" /\ MayCache

LEMMA CacheBeginsSteps ==
    ASSUME Typed, NEW h \in Handlers, NEW issuer \in Issuers,
           AddTrustedIssuer(h, issuer, "platformRoot") \/ CacheRootKey(h, issuer)
    PROVE  CacheBegins(h)
<1>1. UNCHANGED << overlap, key, cached, refreshed, gaps, read, before, document >>
  BY DEF AddTrustedIssuer, CacheRootKey, chain, trust, history
<1>2. Begins(h, issuer, "resolve") /\ MayCache
  BY DEF AddTrustedIssuer, CacheRootKey
<1> QED
  BY <1>1, <1>2, BeginsKeepsOthers DEF CacheBegins

CacheResolves(h) ==
    /\ UNCHANGED << overlap, key, cached, refreshed, gaps >>
    /\ OthersKept(h) /\ pc[h] = "resolve" /\ request[h] \in Issuers
    /\ \/ pc'[h] = "idle"
       \/ pc'[h] = "$pull" /\ request'[h] = request[h] /\ document'[h] = key[request[h]]

LEMMA CacheResolvesSteps ==
    ASSUME Typed, NEW h \in Handlers, ResolveDocument(h)
    PROVE  CacheResolves(h)
<1>1. UNCHANGED << overlap, key, cached, refreshed, gaps >> /\ pc[h] = "resolve"
  BY DEF ResolveDocument, chain, trust, history
<1>2. OthersKept(h)
  BY OneRequestSteps DEF TrustStep
<1>3. request[h] \in Issuers
  BY <1>1 DEF Typed, RequestTyped, Caching
<1>4. CASE Answers(h)
  BY <1>1, <1>2, <1>3, <1>4, AnswersKeepsOthers DEF CacheResolves
<1>5. CASE ~Answers(h)
  <2>1. /\ document' = [document EXCEPT ![h] = key[request[h]]]
        /\ pc' = [pc EXCEPT ![h] = "$pull"] /\ UNCHANGED << request, read, before >>
    BY <1>5 DEF ResolveDocument, Goto
  <2>2. document'[h] = key[request[h]] /\ pc'[h] = "$pull" /\ request'[h] = request[h]
    BY <2>1, TypeParts DEF Typed, LocalsTyped
  <2> QED
    BY <1>1, <1>2, <1>3, <2>2 DEF CacheResolves
<1> QED
  BY <1>4, <1>5

\* The two updates.
CachePulls(h) ==
    /\ UNCHANGED << overlap, key, refreshed, gaps >>
    /\ OthersKept(h) /\ pc[h] = "$pull" /\ request[h] \in Issuers
    /\ pc'[h] = "$push" /\ request'[h] = request[h] /\ document'[h] = document[h]
    /\ cached'[request[h]] = << >>
    /\ \A issuer \in Issuers : issuer # request[h] => cached'[issuer] = cached[issuer]

CachePushes(h) ==
    /\ UNCHANGED << overlap, key >>
    /\ OthersKept(h) /\ pc[h] = "$push" /\ pc'[h] = "idle"
    /\ request[h] \in Issuers /\ document[h] \in Keys /\ cached[request[h]] \in Seq(Keys)
    /\ cached'[request[h]] = Append(cached[request[h]], document[h])
    /\ refreshed'[request[h]] = document[h] /\ gaps' = gaps \ {request[h]}
    /\ \A issuer \in Issuers : issuer # request[h] =>
          cached'[issuer] = cached[issuer] /\ refreshed'[issuer] = refreshed[issuer]

CacheFails(h) ==
    /\ UNCHANGED << overlap, key, cached, refreshed >>
    /\ OthersKept(h) /\ pc[h] = "$push" /\ pc'[h] = "idle"
    /\ gaps' = gaps \cup {request[h]}

LEMMA CacheUpdates ==
    ASSUME Typed, NEW h \in Handlers
    PROVE  /\ PullDocument(h) => CachePulls(h)
           /\ PushDocument(h) => CachePushes(h)
           /\ PushDocumentFails(h) => CacheFails(h)
<1>0. cached \in [Issuers -> Seq(Keys)] /\ refreshed \in [Issuers -> Keys \cup {0}]
  BY TypeParts DEF Typed, StoreTyped, HistoryTyped
<1>1. ASSUME PullDocument(h) PROVE CachePulls(h)
  <2>1. UNCHANGED << overlap, key, refreshed, gaps, request, document >> /\ pc[h] = "$pull"
    BY <1>1 DEF PullDocument, chain, history, locals
  <2>2. OthersKept(h) /\ pc'[h] = "$push"
    BY <1>1, GotoKeepsOthers DEF PullDocument
  <2>3. request[h] \in Issuers
    BY <2>1 DEF Typed, RequestTyped, Caching
  <2>4. /\ cached'[request[h]] = << >>
        /\ \A issuer \in Issuers : issuer # request[h] => cached'[issuer] = cached[issuer]
    BY <1>0, <1>1, <2>3 DEF PullDocument
  <2> QED
    BY <2>1, <2>2, <2>3, <2>4 DEF CachePulls
<1>2. ASSUME PushDocument(h) PROVE CachePushes(h)
  <2>1. UNCHANGED << overlap, key >> /\ pc[h] = "$push" /\ gaps' = gaps \ {request[h]}
    BY <1>2 DEF PushDocument, chain
  <2>2. OthersKept(h) /\ pc'[h] = "idle"
    BY <1>2, AnswersKeepsOthers DEF PushDocument
  <2>3. request[h] \in Issuers /\ document[h] \in Keys
    BY <2>1 DEF Typed, RequestTyped, Caching
  <2>4. /\ cached'[request[h]] = Append(cached[request[h]], document[h])
        /\ refreshed'[request[h]] = document[h]
        /\ \A issuer \in Issuers : issuer # request[h] =>
              cached'[issuer] = cached[issuer] /\ refreshed'[issuer] = refreshed[issuer]
    BY <1>0, <1>2, <2>3 DEF PushDocument
  <2> QED
    BY <1>0, <2>1, <2>2, <2>3, <2>4 DEF CachePushes
<1>3. ASSUME PushDocumentFails(h) PROVE CacheFails(h)
  <2>1. UNCHANGED << overlap, key, cached, refreshed >> /\ pc[h] = "$push"
        /\ gaps' = gaps \cup {request[h]}
    BY <1>3 DEF PushDocumentFails, chain, trust
  <2>2. OthersKept(h) /\ pc'[h] = "idle"
    BY <1>3, AnswersKeepsOthers DEF PushDocumentFails
  <2> QED
    BY <2>1, <2>2 DEF CacheFails
<1> QED
  BY <1>1, <1>2, <1>3

CacheCuts ==
    /\ UNCHANGED << overlap, key, cached, refreshed >>
    /\ gaps' = gaps \cup { request[h] : h \in { g \in Handlers : pc[g] = "$push" } }
    /\ \A g \in Handlers : pc'[g] = "idle"

CacheRotates ==
    /\ UNCHANGED << overlap, cached, refreshed, gaps, pc, request, document >>
    /\ \A issuer \in Issuers : key[issuer] <= key'[issuer]

\* Every step is one of these for the cache.
LEMMA CacheCases ==
    ASSUME Typed, [Next]_vars
    PROVE  \/ CacheQuiet \/ CacheCuts \/ CacheRotates
           \/ \E h \in Handlers : \/ CacheBegins(h) \/ CacheResolves(h) \/ CachePulls(h)
                                  \/ CachePushes(h) \/ CacheFails(h)
<1>1. CASE UNCHANGED vars
  BY <1>1 DEF vars, chain, trust, history, locals, CacheQuiet
<1>2. CASE RpcChange \/ \E row \in Posts : CreateEvent(row)
  BY <1>2 DEF RpcChange, CreateEvent, chain, trust, history, locals, CacheQuiet
<1>3. CASE Crash
  BY <1>3 DEF Crash, chain, trust, CacheCuts
<1>4. ASSUME NEW issuer \in Issuers, RotateKey(issuer) PROVE CacheRotates
  <2>1. UNCHANGED << overlap, cached, refreshed, gaps, pc, request, document >>
    BY <1>4 DEF RotateKey, trust, history, locals
  <2>2. key \in [Issuers -> Keys]
    BY TypeParts DEF Typed, HistoryTyped
  <2>3. \A other \in Issuers : key[other] <= key'[other]
    BY <1>4, <2>2, BoundsAssumption DEF RotateKey, Keys
  <2> QED
    BY <2>1, <2>3 DEF CacheRotates
<1>5. ASSUME NEW h \in Handlers, IdentityStep(h) \/ PerformStep(h) PROVE CacheQuiet
  BY <1>5, CacheQuietSteps
<1>6. ASSUME NEW h \in Handlers, TrustStep(h)
      PROVE  \/ CacheQuiet \/ CacheBegins(h) \/ CacheResolves(h) \/ CachePulls(h)
             \/ CachePushes(h) \/ CacheFails(h)
  BY <1>6, CacheQuietSteps, CacheBeginsSteps, CacheResolvesSteps, CacheUpdates DEF TrustStep
<1> QED
  BY <1>1, <1>2, <1>3, <1>4, <1>5, <1>6 DEF Next

LEMMA CachedInit == Init => CachedUnlessGap
  BY DEF Init, CachedUnlessGap

LEMMA CachedStep == Typed /\ CachedUnlessGap /\ [Next]_vars => CachedUnlessGap'
<1> SUFFICES ASSUME Typed, CachedUnlessGap, [Next]_vars, NEW issuer \in Issuers, refreshed'[issuer] # 0
             PROVE  \/ cached'[issuer] # << >>
                    \/ \E h \in Handlers : pc'[h] = "$push" /\ request'[h] = issuer
                    \/ issuer \in gaps'
  BY DEF CachedUnlessGap
<1>1. CASE CacheQuiet
  BY <1>1 DEF CacheQuiet, CachedUnlessGap, Caching
<1>2. CASE CacheCuts
  BY <1>2 DEF CacheCuts, CachedUnlessGap
<1>3. CASE CacheRotates
  BY <1>3 DEF CacheRotates, CachedUnlessGap
<1>4. ASSUME NEW h \in Handlers, CacheBegins(h) \/ CacheResolves(h)
      PROVE  \/ cached'[issuer] # << >>
             \/ \E g \in Handlers : pc'[g] = "$push" /\ request'[g] = issuer
             \/ issuer \in gaps'
  BY <1>4 DEF CacheBegins, CacheResolves, OthersKept, CachedUnlessGap
<1>5. ASSUME NEW h \in Handlers, CachePulls(h)
      PROVE  \/ cached'[issuer] # << >>
             \/ \E g \in Handlers : pc'[g] = "$push" /\ request'[g] = issuer
             \/ issuer \in gaps'
  BY <1>5 DEF CachePulls, OthersKept, CachedUnlessGap
<1>6. ASSUME NEW h \in Handlers, CachePushes(h)
      PROVE  \/ cached'[issuer] # << >>
             \/ \E g \in Handlers : pc'[g] = "$push" /\ request'[g] = issuer
             \/ issuer \in gaps'
  <2>1. CASE issuer = request[h]
    BY <1>6, <2>1 DEF CachePushes
  <2>2. CASE issuer # request[h]
    BY <1>6, <2>2 DEF CachePushes, OthersKept, CachedUnlessGap
  <2> QED
    BY <2>1, <2>2
<1>7. ASSUME NEW h \in Handlers, CacheFails(h)
      PROVE  \/ cached'[issuer] # << >>
             \/ \E g \in Handlers : pc'[g] = "$push" /\ request'[g] = issuer
             \/ issuer \in gaps'
  BY <1>7 DEF CacheFails, OthersKept, CachedUnlessGap
<1> QED
  BY <1>1, <1>2, <1>3, <1>4, <1>5, <1>6, <1>7, CacheCases

\* An issuer that has been cached has an entry, but for a refresh under way or
\* one that stopped half-way: for any overlap of refreshes.
THEOREM AlwaysCachedUnlessGap == Spec => []CachedUnlessGap
<1>1. Init => Typed /\ CachedUnlessGap
  BY TypeInit, CachedInit
<1>2. Typed /\ CachedUnlessGap /\ [Next]_vars => Typed' /\ CachedUnlessGap'
  BY TypeStep, CachedStep
<1> QED
  BY <1>1, <1>2, PTL DEF Spec

\* Refreshes one at a time: entries are those of the last refresh, which is not
\* older than any before nor newer than the chain.
FreshCache ==
    /\ \A g, h \in Handlers : Caching(g) /\ Caching(h) => g = h
    /\ \A issuer \in Issuers :
          /\ refreshed[issuer] <= key[issuer]
          /\ \A i \in DOMAIN cached[issuer] : cached[issuer][i] = refreshed[issuer]
    /\ \A h \in Handlers : pc[h] = "$push" => cached[request[h]] = << >>
    /\ \A h \in Handlers : pc[h] \in {"$pull", "$push"} =>
          refreshed[request[h]] <= document[h] /\ document[h] <= key[request[h]]

Fresh == ~overlap => FreshCache

LEMMA FreshInit == Init => Fresh
<1> SUFFICES ASSUME Init PROVE FreshCache
  BY DEF Fresh
<1>1. \A h \in Handlers : pc[h] = "idle"
  BY DEF Init
<1>2. \A issuer \in Issuers : refreshed[issuer] = 0 /\ key[issuer] = 1 /\ cached[issuer] = << >>
  BY DEF Init
<1> QED
  BY <1>1, <1>2 DEF FreshCache, Caching

LEMMA FreshStep == Typed /\ Fresh /\ [Next]_vars => Fresh'
<1> SUFFICES ASSUME Typed, FreshCache, ~overlap, [Next]_vars, overlap' = overlap PROVE FreshCache'
  <2>1. ASSUME Typed, [Next]_vars PROVE overlap' = overlap
    BY <2>1, CacheCases
    DEF CacheQuiet, CacheCuts, CacheRotates, CacheBegins, CacheResolves, CachePulls, CachePushes,
        CacheFails
  <2> QED
    BY <2>1 DEF Fresh
<1>0. /\ key \in [Issuers -> Keys] /\ refreshed \in [Issuers -> Keys \cup {0}]
      /\ \A h \in Handlers : pc[h] \in {"$pull", "$push"} => request[h] \in Issuers /\ document[h] \in Keys
  BY TypeParts DEF Typed, HistoryTyped, RequestTyped, Caching
<1>1. CASE CacheQuiet
  <2>1. \A g \in Handlers : Caching(g)' => Caching(g)
    BY <1>1 DEF CacheQuiet, Caching
  <2>2. \A g \in Handlers : pc'[g] \in {"$pull", "$push"} =>
            pc'[g] = pc[g] /\ request'[g] = request[g] /\ document'[g] = document[g]
    BY <1>1 DEF CacheQuiet, Caching
  <2> QED
    BY <1>1, <2>1, <2>2 DEF CacheQuiet, FreshCache
<1>2. CASE CacheCuts
  BY <1>2 DEF CacheCuts, FreshCache, Caching
<1>3. CASE CacheRotates
  <2>1. key' \in [Issuers -> Keys]
    <3>1. Typed'
      BY TypeStep
    <3> QED
      BY <3>1 DEF Typed, TypeOK
  <2>2. \A issuer \in Issuers : refreshed[issuer] <= key'[issuer]
    BY <1>0, <1>3, <2>1 DEF CacheRotates, FreshCache, Keys
  <2>3. \A h \in Handlers : pc[h] \in {"$pull", "$push"} => document[h] <= key'[request[h]]
    BY <1>0, <1>3, <2>1 DEF CacheRotates, FreshCache, Keys
  <2> QED
    BY <1>3, <2>2, <2>3 DEF CacheRotates, FreshCache, Caching
<1>4. ASSUME NEW h \in Handlers, CacheBegins(h) PROVE FreshCache'
  <2>1. \A g \in Handlers : Caching(g)' => g = h
    BY <1>4 DEF CacheBegins, MayCache, OthersKept, Caching
  <2>2. \A g \in Handlers : pc'[g] \notin {"$pull", "$push"}
    BY <1>4, <2>1 DEF CacheBegins, Caching
  <2> QED
    BY <1>4, <2>1, <2>2 DEF CacheBegins, FreshCache
<1>5. ASSUME NEW h \in Handlers, CacheResolves(h) \/ CachePulls(h) \/ CachePushes(h) \/ CacheFails(h)
      PROVE  \A g \in Handlers : Caching(g)' => g = h
  BY <1>5 DEF CacheResolves, CachePulls, CachePushes, CacheFails, OthersKept, FreshCache, Caching
<1>6. ASSUME NEW h \in Handlers, CacheResolves(h) PROVE FreshCache'
  <2>1. refreshed[request[h]] <= key[request[h]] /\ key[request[h]] <= key[request[h]]
    BY <1>0, <1>6 DEF CacheResolves, FreshCache, Keys
  <2>2. \A g \in Handlers : pc'[g] \in {"$pull", "$push"} =>
            g = h /\ pc'[g] = "$pull" /\ request'[g] = request[h] /\ document'[g] = key[request[h]]
    BY <1>5, <1>6 DEF CacheResolves, Caching
  <2> QED
    BY <1>5, <1>6, <2>1, <2>2 DEF CacheResolves, FreshCache
<1>7. ASSUME NEW h \in Handlers, CachePulls(h) PROVE FreshCache'
  <2>1. \A g \in Handlers : pc'[g] \in {"$pull", "$push"} =>
            g = h /\ request'[g] = request[h] /\ document'[g] = document[h]
    BY <1>5, <1>7 DEF CachePulls, Caching
  <2>2. \A issuer \in Issuers : \A i \in DOMAIN cached'[issuer] : cached'[issuer][i] = refreshed[issuer]
    BY <1>7 DEF CachePulls, FreshCache
  <2> QED
    BY <1>5, <1>7, <2>1, <2>2 DEF CachePulls, FreshCache
<1>8. ASSUME NEW h \in Handlers, CachePushes(h) PROVE FreshCache'
  <2>1. \A g \in Handlers : pc'[g] \notin {"$pull", "$push"}
    BY <1>5, <1>8 DEF CachePushes, Caching
  <2>2. cached'[request[h]] = << document[h] >>
    <3>1. cached[request[h]] = << >>
      BY <1>8 DEF CachePushes, FreshCache
    <3>2. cached'[request[h]] = Append(<< >>, document[h])
      BY <1>8, <3>1 DEF CachePushes
    <3>3. Append(<< >>, document[h]) = << document[h] >>
      OBVIOUS
    <3> QED
      BY <3>2, <3>3
  <2>3. \A issuer \in Issuers : \A i \in DOMAIN cached'[issuer] : cached'[issuer][i] = refreshed'[issuer]
    BY <1>8, <2>2 DEF CachePushes, FreshCache
  <2>4. \A issuer \in Issuers : refreshed'[issuer] <= key[issuer]
    BY <1>8 DEF CachePushes, FreshCache
  <2> QED
    BY <1>5, <1>8, <2>1, <2>3, <2>4 DEF CachePushes, FreshCache
<1>9. ASSUME NEW h \in Handlers, CacheFails(h) PROVE FreshCache'
  <2>1. \A g \in Handlers : pc'[g] \notin {"$pull", "$push"}
    BY <1>5, <1>9 DEF CacheFails, Caching
  <2> QED
    BY <1>5, <1>9, <2>1 DEF CacheFails, FreshCache
<1> QED
  BY <1>1, <1>2, <1>3, <1>4, <1>6, <1>7, <1>8, <1>9, CacheCases

\* A refresh that is answered never takes an issuer back to an older key.
LEMMA RefreshGrows ==
    ASSUME Typed, FreshCache, [Next]_vars, NEW issuer \in Issuers
    PROVE  refreshed[issuer] <= refreshed'[issuer]
<1>0. refreshed[issuer] \in Nat
  BY TypeParts DEF Typed, HistoryTyped, Keys
<1>1. ASSUME NEW h \in Handlers, CachePushes(h) PROVE refreshed[issuer] <= refreshed'[issuer]
  BY <1>0, <1>1 DEF CachePushes, FreshCache
<1> QED
  BY <1>0, <1>1, CacheCases
  DEF CacheQuiet, CacheCuts, CacheRotates, CacheBegins, CacheResolves, CachePulls, CacheFails

-----------------------------------------------------------------------------
(* Attempts *)

\* What an attempt has shown by the step it is at.
Earned(h) ==
    /\ pc[h] \in {"verify", "offline", "issuer", "grant"} => request[h].machine \in Elements(machines)
    /\ pc[h] \in {"issuer", "grant"} => request[h].permit.genuine
    /\ pc[h] = "grant" => ClaimsMatch(h)
    /\ Performing(h) /\ before[h].restricted => trusted # {}
    /\ pc[h] = "grant" /\ before[h].restricted => request[h].permit.issuer \in trusted

\* The keys of an attempt, while refreshes are one at a time.
KeyFresh(h) ==
    /\ Performing(h) => before[h].floor <= refreshed[request[h].permit.issuer]
    /\ pc[h] \in {"issuer", "grant"} => before[h].floor <= request[h].permit.key

Earns == EventsPermitted /\ \A h \in Handlers : Earned(h)

KeysFresh == ~overlap => FreshCache /\ \A h \in Handlers : KeyFresh(h)

\* The machines and the trusted issuers only grow.
LEMMA MachinesGrow ==
    ASSUME Typed, Held, [Next]_vars
    PROVE  Elements(machines) \subseteq Elements(machines')
<1>1. ASSUME NEW h \in Handlers, SaveApproval(h), version = read[h].version
      PROVE  Elements(machines) \subseteq Elements(machines')
  <2>1. machines \in Seq(Dids) /\ request[h] \in Dids
    BY <1>1, ReadRest, TypeParts DEF SaveApproval, Typed, StoreTyped
  <2>2. Elements(Append(machines, request[h])) = Elements(machines) \cup {request[h]}
    BY <2>1, AppendElements
  <2> QED
    BY <1>1, <2>2 DEF SaveApproval, MoveToActive
<1> QED
  BY <1>1, IdentityCases DEF Quiet, CreateDid, FindPending, PushPending, identities

LEMMA TrustedGrow == ASSUME [Next]_vars PROVE trusted \subseteq trusted'
<1>1. ASSUME NEW h \in Handlers, IdentityStep(h) PROVE trusted \subseteq trusted'
  BY <1>1 DEF IdentityStep, CreateDid, FindPending, List, FindStore, CreateStore, PushPending,
     SaveApproval, trust
<1>2. ASSUME NEW h \in Handlers, TrustStep(h) PROVE trusted \subseteq trusted'
  BY <1>2 DEF TrustStep, AddTrustedIssuer, CacheRootKey, ResolveDocument, PullDocument,
     PushDocument, PushDocumentFails, trust
<1>3. ASSUME NEW h \in Handlers, PerformStep(h) PROVE trusted \subseteq trusted'
  BY <1>3 DEF PerformStep, BeginAttempt, ResolveOperator, CheckMachine, VerifyCredential,
     VerifyCredentialOffline, CheckAuthorization, Grant, Deny, trust
<1>4. CASE \/ RpcChange \/ Crash \/ (UNCHANGED vars) \/ \E issuer \in Issuers : RotateKey(issuer)
           \/ \E row \in Posts : CreateEvent(row)
  BY <1>4 DEF RpcChange, RotateKey, CreateEvent, Crash, vars, trust
<1> QED
  BY <1>1, <1>2, <1>3, <1>4 DEF Next

\* Whoever performs after a step of another kind did before, at the same step.
LEMMA PerformingKept ==
    ASSUME Typed, [Next]_vars, \A h \in Handlers : ~PerformStep(h)
    PROVE  /\ (UNCHANGED << events, sources >>) \/ \E row \in Posts : CreateEvent(row)
           /\ \A g \in Handlers : Performing(g)' =>
                 pc'[g] = pc[g] /\ request'[g] = request[g] /\ before'[g] = before[g]
<1>1. ASSUME NEW h \in Handlers, IdentityStep(h) \/ TrustStep(h)
      PROVE  /\ UNCHANGED << events, sources >>
             /\ \A g \in Handlers : Performing(g)' =>
                   pc'[g] = pc[g] /\ request'[g] = request[g] /\ before'[g] = before[g]
  <2>1. UNCHANGED << events, sources >>
    BY <1>1 DEF IdentityStep, TrustStep, CreateDid, FindPending, List, FindStore,
       CreateStore, PushPending, SaveApproval, AddTrustedIssuer, CacheRootKey, ResolveDocument,
       PullDocument, PushDocument, PushDocumentFails, log
  <2>2. \/ \E step \in {"idle", "find", "create", "push", "save", "resolve", "$pull", "$push"} : Goto(h, step)
        \/ UNCHANGED << pc, request, before >>
    BY <1>1 DEF IdentityStep, TrustStep, CreateDid, FindPending, List, FindStore,
       CreateStore, PushPending, SaveApproval, AddTrustedIssuer, CacheRootKey, ResolveDocument,
       PullDocument, PushDocument, PushDocumentFails, Begins, Answers
  <2>3. OthersKept(h)
    BY <1>1, OneRequestSteps
  <2>4. CASE UNCHANGED << pc, request, before >>
    BY <2>1, <2>4
  <2>5. ASSUME NEW step \in {"idle", "find", "create", "push", "save", "resolve", "$pull", "$push"},
               Goto(h, step)
        PROVE  ~Performing(h)'
    BY <2>5, TypeParts DEF Typed, LocalsTyped, Goto, Performing
  <2> QED
    BY <2>1, <2>2, <2>3, <2>4, <2>5 DEF OthersKept
<1>2. CASE Crash
  BY <1>2 DEF Crash, log, Performing
<1>3. CASE \/ RpcChange \/ (UNCHANGED vars) \/ \E issuer \in Issuers : RotateKey(issuer)
           \/ \E row \in Posts : CreateEvent(row)
  BY <1>3 DEF RpcChange, RotateKey, CreateEvent, vars, log, locals
<1> QED
  BY <1>1, <1>2, <1>3 DEF Next

\* What a step of an attempt leaves alone.
LEMMA PerformLeaves ==
    ASSUME Typed, NEW h \in Handlers, PerformStep(h)
    PROVE  /\ UNCHANGED << machines, trusted, refreshed, cached, key, overlap >>
           /\ OthersKept(h)
           /\ ~Grant(h) => UNCHANGED << events, sources >>
<1>1. UNCHANGED << machines, trusted, refreshed, cached, key, overlap >>
  BY DEF PerformStep, BeginAttempt, ResolveOperator, CheckMachine, VerifyCredential,
     VerifyCredentialOffline, CheckAuthorization, Grant, Deny, identities, trust, history, chain
<1>2. ~Grant(h) => UNCHANGED << events, sources >>
  BY DEF PerformStep, BeginAttempt, ResolveOperator, CheckMachine, VerifyCredential,
     VerifyCredentialOffline, CheckAuthorization, Deny, log
<1> QED
  BY <1>1, <1>2, QuietPerform

\* Each check of an attempt that goes on.
LEMMA EarnedPerform ==
    ASSUME Typed, NEW h \in Handlers, PerformStep(h), Earned(h)
    PROVE  Earned(h)'
<1>1. UNCHANGED << machines, trusted >>
  BY PerformLeaves
<1>2. CASE Answers(h)
  BY <1>2, AnswersKeepsOthers DEF Earned, Performing
<1>3. ASSUME NEW attempt \in Attempts, BeginAttempt(h, attempt) PROVE Earned(h)'
  <2>1. pc'[h] \in {"machine", "chain"}
    BY <1>3, TypeParts DEF BeginAttempt, Begins, Goto, Typed, LocalsTyped
  <2>2. before'[h].restricted = (trusted # {})
    BY <1>3, TypeParts DEF BeginAttempt, Typed, LocalsTyped
  <2> QED
    BY <1>1, <2>1, <2>2 DEF Earned
<1>4. ASSUME NEW step, Goto(h, step), UNCHANGED locals
      PROVE  pc'[h] = step /\ request'[h] = request[h] /\ before'[h] = before[h]
  BY <1>4, GotoKeepsOthers DEF locals
<1>5. CASE ~Answers(h) /\ (ResolveOperator(h) \/ CheckMachine(h))
  <2>1. pc'[h] \in {"machine", "verify", "deny"} /\ request'[h] = request[h] /\ before'[h] = before[h]
    BY <1>4, <1>5 DEF ResolveOperator, CheckMachine
  <2>2. pc'[h] = "verify" => request[h].machine \in Elements(machines)
    BY <1>4, <1>5 DEF ResolveOperator, CheckMachine
  <2>3. Performing(h)
    BY <1>5 DEF ResolveOperator, CheckMachine, Performing
  <2> QED
    BY <1>1, <2>1, <2>2, <2>3 DEF Earned
<1>6. CASE ~Answers(h) /\ (VerifyCredential(h) \/ VerifyCredentialOffline(h))
  <2>1. pc'[h] \in {"offline", "issuer", "deny"} /\ request'[h] = request[h] /\ before'[h] = before[h]
    BY <1>4, <1>6 DEF VerifyCredential, VerifyCredentialOffline
  <2>2. pc'[h] = "issuer" => request[h].permit.genuine
    BY <1>4, <1>6 DEF VerifyCredential, VerifyCredentialOffline, Permitted
  <2>3. Performing(h) /\ pc[h] \in {"verify", "offline"}
    BY <1>6 DEF VerifyCredential, VerifyCredentialOffline, Performing
  <2> QED
    BY <1>1, <2>1, <2>2, <2>3 DEF Earned
<1>7. CASE ~Answers(h) /\ CheckAuthorization(h)
  <2>1. pc'[h] \in {"grant", "deny"} /\ request'[h] = request[h] /\ before'[h] = before[h]
    BY <1>4, <1>7 DEF CheckAuthorization
  <2>2. pc'[h] = "grant" => IsIssuerTrusted(request[h].permit.issuer) /\ ClaimsMatch(h)
    BY <1>4, <1>7 DEF CheckAuthorization, Permitted
  <2>3. ClaimsMatch(h)' <=> ClaimsMatch(h)
    BY <2>1 DEF ClaimsMatch, Permitted
  <2>4. Performing(h) /\ pc[h] = "issuer"
    BY <1>7 DEF CheckAuthorization, Performing
  <2> QED
    BY <1>1, <2>1, <2>2, <2>3, <2>4 DEF Earned, IsIssuerTrusted
<1> QED
  BY <1>2, <1>3, <1>5, <1>6, <1>7 DEF PerformStep, Grant, Deny

\* What an event must be when an attempt has led to it.
Allowed(event, source) ==
    /\ event.deviceDid \in Elements(machines)
    /\ source.permit.genuine
    /\ source.permit.holder = event.operatorDid
    /\ source.permit.machine = event.deviceDid
    /\ event.action \in source.permit.actions

LEMMA EventsAllowed ==
    EventsPermitted <=> \A i \in DOMAIN events : sources[i] # Posted => Allowed(events[i], sources[i])
  BY DEF EventsPermitted, Allowed, Elements

\* An insertion of a row that is allowed, or posted, leaves the others.
LEMMA AuditEventPermitted ==
    ASSUME Typed, EventsPermitted, NEW row \in Row, NEW source \in Attempts \cup {Posted},
           CreateAuditEvent(row, source), source # Posted => Allowed(row, source),
           UNCHANGED machines
    PROVE  EventsPermitted'
<1>1. events \in Seq(Row) /\ sources \in Seq(Attempts \cup {Posted}) /\ Len(sources) = Len(events)
  BY TypeParts DEF Typed, StoreTyped
<1>2. ASSUME NEW i \in DOMAIN events', sources'[i] # Posted
      PROVE  Allowed(events'[i], sources'[i])
  <2>1. CASE i \in DOMAIN events
    <3>1. events'[i] = events[i] /\ sources'[i] = sources[i]
      BY <1>1, <2>1 DEF CreateAuditEvent
    <3> QED
      BY <1>2, <2>1, <3>1, EventsAllowed
  <2>2. CASE i \notin DOMAIN events
    <3>1. events'[i] = row /\ sources'[i] = source
      BY <1>1, <2>2 DEF CreateAuditEvent
    <3> QED
      BY <1>2, <3>1
  <2> QED
    BY <2>1, <2>2
<1>3. \A i \in DOMAIN events' : sources'[i] # Posted =>
          /\ \E j \in DOMAIN machines : machines[j] = events'[i].deviceDid
          /\ sources'[i].permit.genuine
          /\ sources'[i].permit.holder = events'[i].operatorDid
          /\ sources'[i].permit.machine = events'[i].deviceDid
          /\ events'[i].action \in sources'[i].permit.actions
  BY <1>2 DEF Allowed, Elements
<1> QED
  BY <1>3 DEF EventsPermitted

\* What an attempt that has passed every check inserts is allowed.
LEMMA GrantPermitted ==
    ASSUME Typed, EventsPermitted, NEW h \in Handlers, Grant(h), Earned(h)
    PROVE  EventsPermitted'
<1>1. Allowed(RowOf(request[h]), request[h])
  <2>1. /\ request[h].machine \in Elements(machines) /\ request[h].permit.genuine
        /\ request[h].permit.holder = request[h].operator
        /\ request[h].permit.machine = request[h].machine
        /\ request[h].action \in request[h].permit.actions
    BY DEF Grant, Earned, ClaimsMatch, Permitted
  <2> QED
    BY <2>1 DEF Allowed, RowOf
<1>2. UNCHANGED machines
  BY DEF Grant, identities
<1> QED
  BY <1>1, <1>2, GrantInserts, AuditEventPermitted

LEMMA CreateEventPermitted ==
    ASSUME Typed, EventsPermitted, NEW row \in Posts, CreateEvent(row)
    PROVE  EventsPermitted'
<1>1. row \in Row /\ CreateAuditEvent(row, Posted) /\ UNCHANGED machines
  BY PostsAssumption DEF CreateEvent, identities
<1> QED
  BY <1>1, AuditEventPermitted

LEMMA EarnsInit == Init => Earns
  BY DEF Init, Earns, EventsPermitted, Earned, Performing

LEMMA EarnsStep == Typed /\ Held /\ Earns /\ [Next]_vars => Earns'
<1> SUFFICES ASSUME Typed, Held, Earns, [Next]_vars PROVE Earns'
  OBVIOUS
<1>0. Elements(machines) \subseteq Elements(machines') /\ trusted \subseteq trusted'
  BY MachinesGrow, TrustedGrow
<1>1. ASSUME UNCHANGED << events, sources >> PROVE EventsPermitted'
  <2>1. \A i \in DOMAIN events : sources[i] # Posted => events[i].deviceDid \in Elements(machines)
    BY DEF Earns, EventsPermitted, Elements
  <2>2. \A i \in DOMAIN events : sources[i] # Posted => events[i].deviceDid \in Elements(machines')
    BY <1>0, <2>1
  <2>3. \A i \in DOMAIN events : sources[i] # Posted =>
            \E j \in DOMAIN machines' : machines'[j] = events[i].deviceDid
    BY <2>2 DEF Elements
  <2> QED
    BY <1>1, <2>3 DEF Earns, EventsPermitted
<1>2. ASSUME NEW g \in Handlers, pc'[g] = pc[g], request'[g] = request[g], before'[g] = before[g]
      PROVE  Earned(g)'
  <2>1. Earned(g)
    BY DEF Earns
  <2>2. Performing(g)' <=> Performing(g)
    BY <1>2 DEF Performing
  <2>3. ClaimsMatch(g)' <=> ClaimsMatch(g)
    BY <1>2 DEF ClaimsMatch, Permitted
  <2> QED
    BY <1>0, <1>2, <2>1, <2>2, <2>3 DEF Earned
<1>3. CASE \A h \in Handlers : ~PerformStep(h)
  <2>1. EventsPermitted'
    BY <1>1, <1>3, PerformingKept, CreateEventPermitted DEF Earns
  <2>2. ASSUME NEW g \in Handlers PROVE Earned(g)'
    <3>1. CASE Performing(g)'
      BY <1>2, <1>3, <3>1, PerformingKept
    <3>2. CASE ~Performing(g)'
      BY <3>2 DEF Earned, Performing
    <3> QED
      BY <3>1, <3>2
  <2> QED
    BY <2>1, <2>2 DEF Earns
<1>4. ASSUME NEW h \in Handlers, PerformStep(h) PROVE Earns'
  <2>1. EventsPermitted'
    BY <1>1, <1>4, PerformLeaves, GrantPermitted DEF Earns
  <2>2. ASSUME NEW g \in Handlers PROVE Earned(g)'
    <3>1. CASE g = h
      BY <1>4, <3>1, EarnedPerform DEF Earns
    <3>2. CASE g # h
      BY <1>2, <1>4, <3>2, PerformLeaves DEF OthersKept
    <3> QED
      BY <3>1, <3>2
  <2> QED
    BY <2>1, <2>2 DEF Earns
<1> QED
  BY <1>3, <1>4

\* Every event performAction records is of an approved machine, and the permit
\* presented for it is genuine and names its operator, machine and action,
\* whatever changes while the attempt is under way and whatever is posted to the
\* audit log beside it.
THEOREM EventsAlwaysPermitted == Spec => []EventsPermitted
<1>1. Init => Typed /\ Held /\ Earns
  BY TypeInit, HeldInit, EarnsInit
<1>2. Typed /\ Held /\ Earns /\ [Next]_vars => Typed' /\ Held' /\ Earns'
  BY TypeStep, HeldStep, EarnsStep
<1>3. Earns => EventsPermitted
  BY DEF Earns
<1> QED
  BY <1>1, <1>2, <1>3, PTL DEF Spec

\* An attempt that began under a list of trusted issuers is granted for one of
\* them only.
THEOREM AlwaysTrustedWhenRestricted == Spec => []TrustedWhenRestricted
<1>1. Init => Typed /\ Held /\ Earns
  BY TypeInit, HeldInit, EarnsInit
<1>2. Typed /\ Held /\ Earns /\ [Next]_vars => Typed' /\ Held' /\ Earns'
  BY TypeStep, HeldStep, EarnsStep
<1>3. Earns => TrustedWhenRestricted
  BY DEF Earns, Earned, TrustedWhenRestricted
<1> QED
  BY <1>1, <1>2, <1>3, PTL DEF Spec

\* An attempt compares its permit with the chain, or with the cache.
LEMMA KeyFreshPerform ==
    ASSUME Typed, FreshCache, NEW h \in Handlers, PerformStep(h), KeyFresh(h)
    PROVE  KeyFresh(h)'
<1>0. UNCHANGED << refreshed, cached, key >>
  BY PerformLeaves
<1>1. /\ key \in [Issuers -> Keys] /\ refreshed \in [Issuers -> Keys \cup {0}]
      /\ cached \in [Issuers -> Seq(Keys)]
      /\ before \in [Handlers -> Befores]
  BY TypeParts DEF Typed, HistoryTyped, StoreTyped, LocalsTyped
<1>2. CASE Answers(h)
  BY <1>2, AnswersKeepsOthers DEF KeyFresh, Performing
<1>3. ASSUME NEW attempt \in Attempts, BeginAttempt(h, attempt) PROVE KeyFresh(h)'
  <2>1. pc'[h] \in {"machine", "chain"} /\ request'[h] = attempt
    BY <1>3, TypeParts DEF BeginAttempt, Begins, Goto, Typed, LocalsTyped
  <2>2. before'[h].floor = refreshed[attempt.permit.issuer]
    BY <1>1, <1>3 DEF BeginAttempt
  <2>3. attempt.permit.issuer \in Issuers
    BY AttemptsAssumption DEF Attempt, Permit
  <2>4. refreshed[attempt.permit.issuer] <= refreshed[attempt.permit.issuer]
    <3>1. refreshed[attempt.permit.issuer] \in Keys \cup {0}
      BY <1>1, <2>3
    <3> QED
      BY <3>1 DEF Keys
  <2> QED
    BY <1>0, <2>1, <2>2, <2>4 DEF KeyFresh
<1>4. CASE ~Answers(h) /\ ~\E attempt \in Attempts : BeginAttempt(h, attempt)
  <2>1. PICK step \in {"machine", "verify", "offline", "issuer", "grant", "deny"} :
            Goto(h, step) /\ UNCHANGED locals
    BY <1>4 DEF PerformStep, ResolveOperator, CheckMachine, VerifyCredential,
       VerifyCredentialOffline, CheckAuthorization, Grant, Deny
  <2>2. pc'[h] = step /\ request'[h] = request[h] /\ before'[h] = before[h]
    BY <2>1, GotoKeepsOthers DEF locals
  <2>3. Performing(h)
    BY <1>4 DEF PerformStep, ResolveOperator, CheckMachine, VerifyCredential,
       VerifyCredentialOffline, CheckAuthorization, Grant, Deny, Performing
  <2> DEFINE permit == request[h].permit
  <2>4. permit.issuer \in Issuers /\ permit.key \in Keys
    <3>1. request[h] \in Attempt
      BY <2>3, AttemptsAssumption DEF Typed, RequestTyped
    <3> QED
      BY <3>1 DEF Attempt, Permit
  <2>5. before[h].floor <= refreshed[permit.issuer] /\ refreshed[permit.issuer] <= key[permit.issuer]
    BY <2>3, <2>4 DEF KeyFresh, FreshCache
  <2>6. /\ before[h].floor \in Nat /\ refreshed[permit.issuer] \in Nat /\ key[permit.issuer] \in Nat
        /\ permit.key \in Nat
    <3>1. before[h] \in Befores /\ refreshed[permit.issuer] \in Keys \cup {0}
          /\ key[permit.issuer] \in Keys
      BY <1>1, <2>4
    <3>2. before[h].floor \in Keys \cup {0}
      BY <3>1 DEF Befores
    <3> QED
      BY <2>4, <3>1, <3>2 DEF Keys
  <2>7. step \in {"issuer", "grant"} =>
            \/ pc[h] \in {"issuer", "grant"}
            \/ permit.key = key[permit.issuer]
            \/ cached[permit.issuer] # << >> /\ CachedKey(permit.issuer) = permit.key
    <3>1. CASE VerifyCredential(h)
      BY <2>2, <3>1, TypeParts DEF VerifyCredential, Permitted, Goto, Typed, LocalsTyped
    <3>2. CASE VerifyCredentialOffline(h)
      BY <2>2, <3>2, TypeParts DEF VerifyCredentialOffline, Permitted, Goto, Typed, LocalsTyped
    <3>3. CASE CheckAuthorization(h)
      BY <3>3 DEF CheckAuthorization
    <3>4. CASE ResolveOperator(h) \/ CheckMachine(h)
      BY <2>2, <3>4, TypeParts DEF ResolveOperator, CheckMachine, Goto, Typed, LocalsTyped
    <3> QED
      BY <1>4, <3>1, <3>2, <3>3, <3>4 DEF PerformStep, Grant, Deny
  <2>8. cached[permit.issuer] # << >> => CachedKey(permit.issuer) = refreshed[permit.issuer]
    <3>1. cached[permit.issuer] \in Seq(Keys)
      BY <1>1, <2>4
    <3>2. \A i \in DOMAIN cached[permit.issuer] : cached[permit.issuer][i] = refreshed[permit.issuer]
      BY <2>4 DEF FreshCache
    <3>3. cached[permit.issuer] # << >> =>
              1 \in DOMAIN cached[permit.issuer] /\ Head(cached[permit.issuer]) = cached[permit.issuer][1]
      BY <3>1
    <3> QED
      BY <3>2, <3>3 DEF CachedKey
  <2> HIDE DEF permit
  <2>9. step \in {"issuer", "grant"} => before[h].floor <= permit.key
    <3>1. CASE pc[h] \in {"issuer", "grant"}
      BY <3>1 DEF KeyFresh, permit
    <3>2. CASE permit.key = key[permit.issuer]
      BY <2>5, <2>6, <3>2
    <3>3. CASE cached[permit.issuer] # << >> /\ CachedKey(permit.issuer) = permit.key
      BY <2>5, <2>6, <2>8, <3>3
    <3> QED
      BY <2>7, <3>1, <3>2, <3>3
  <2> QED
    BY <1>0, <2>2, <2>5, <2>9 DEF KeyFresh, permit
<1> QED
  BY <1>2, <1>3, <1>4

LEMMA KeysFreshInit == Init => KeysFresh
<1>1. Init => \A h \in Handlers : KeyFresh(h)
  BY DEF Init, KeyFresh, Performing
<1> QED
  BY <1>1, FreshInit DEF KeysFresh, Fresh

LEMMA KeysFreshStep == Typed /\ KeysFresh /\ [Next]_vars => KeysFresh'
<1> SUFFICES ASSUME Typed, KeysFresh, [Next]_vars, ~overlap' PROVE FreshCache' /\ \A g \in Handlers : KeyFresh(g)'
  BY DEF KeysFresh
<1>1. ~overlap
  BY CacheCases
  DEF CacheQuiet, CacheCuts, CacheRotates, CacheBegins, CacheResolves, CachePulls, CachePushes,
      CacheFails
<1>2. FreshCache /\ \A g \in Handlers : KeyFresh(g)
  BY <1>1 DEF KeysFresh
<1>3. FreshCache'
  BY <1>1, <1>2, FreshStep DEF Fresh
<1>4. ASSUME NEW g \in Handlers, Performing(g)',
             pc'[g] = pc[g], request'[g] = request[g], before'[g] = before[g]
      PROVE  KeyFresh(g)'
  <2> DEFINE issuer == request[g].permit.issuer
  <2>1. Performing(g)
    BY <1>4 DEF Performing
  <2>2. issuer \in Issuers
    BY <2>1, AttemptsAssumption DEF Typed, RequestTyped, Attempt, Permit
  <2>3. before[g].floor <= refreshed[issuer] /\ refreshed[issuer] <= refreshed'[issuer]
    BY <1>2, <2>1, <2>2, RefreshGrows DEF KeyFresh
  <2>4. before[g].floor \in Nat /\ refreshed[issuer] \in Nat /\ refreshed'[issuer] \in Nat
    <3>1. before[g] \in Befores /\ refreshed \in [Issuers -> Keys \cup {0}]
      BY TypeParts DEF Typed, LocalsTyped, HistoryTyped
    <3>2. refreshed' \in [Issuers -> Keys \cup {0}]
      BY TypeStep DEF Typed, TypeOK
    <3> QED
      BY <2>2, <3>1, <3>2 DEF Befores, Keys
  <2>5. before[g].floor <= refreshed'[issuer]
    <3> HIDE DEF issuer
    <3> QED
      BY <2>3, <2>4
  <2> QED
    BY <1>2, <1>4, <2>5 DEF KeyFresh
<1>5. ASSUME NEW g \in Handlers, ~Performing(g)' PROVE KeyFresh(g)'
  BY <1>5 DEF KeyFresh, Performing
<1>6. CASE \A h \in Handlers : ~PerformStep(h)
  BY <1>3, <1>4, <1>5, <1>6, PerformingKept
<1>7. ASSUME NEW h \in Handlers, PerformStep(h), NEW g \in Handlers PROVE KeyFresh(g)'
  <2>1. CASE g = h
    BY <1>2, <1>7, <2>1, KeyFreshPerform
  <2>2. CASE g # h
    BY <1>4, <1>5, <1>7, <2>2, PerformLeaves DEF OthersKept
  <2> QED
    BY <2>1, <2>2
<1> QED
  BY <1>3, <1>6, <1>7

\* Refreshes one at a time: once the refresh of an issuer was answered, no
\* attempt that begins is granted for an older key, live or offline.
THEOREM RefreshAlwaysTakesEffect == Spec => []RefreshTakesEffect
<1>1. Init => Typed /\ KeysFresh
  BY TypeInit, KeysFreshInit
<1>2. Typed /\ KeysFresh /\ [Next]_vars => Typed' /\ KeysFresh'
  BY TypeStep, KeysFreshStep
<1>3. Typed /\ KeysFresh => RefreshTakesEffect
  <2> SUFFICES ASSUME Typed, FreshCache, \A h \in Handlers : KeyFresh(h), NEW h \in Handlers,
                      pc[h] = "grant"
               PROVE  request[h].permit.key >= before[h].floor
    BY DEF KeysFresh, FreshCache, RefreshTakesEffect
  <2>1. request[h] \in Attempt
    BY AttemptsAssumption DEF Typed, RequestTyped, Performing
  <2>2. request[h].permit.key \in Nat
    BY <2>1 DEF Attempt, Permit, Keys
  <2>3. before[h].floor \in Nat
    BY TypeParts DEF Typed, LocalsTyped, Befores, Keys
  <2>4. before[h].floor <= request[h].permit.key
    BY DEF KeyFresh
  <2> QED
    BY <2>2, <2>3, <2>4
<1> QED
  BY <1>1, <1>2, <1>3, PTL DEF Spec

=============================================================================
