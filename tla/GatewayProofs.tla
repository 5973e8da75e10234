---------------------------- MODULE GatewayProofs ----------------------------
(***************************************************************************)
(* Theorems about Gateway, for any sets of requests and DIDs, any batch    *)
(* size and any number of actions and restarts:                            *)
(*   - the type invariant, with what each request is about;                *)
(*   - ListedAreActive, for requests that overlap in any way;              *)
(*   - SendFlagOwned and ActionsSentInOrder;                               *)
(*   - IdentityKept, for identity requests that wait for each other.       *)
(***************************************************************************)
EXTENDS Gateway, OrderLemmas, SequenceTheorems, TLAPS

\* What a request is about, by the step it is at.
AboutTyped ==
    /\ \A h \in Handlers : pc[h] \in {"register", "state", "mirror"} => about[h] \in Dids
    /\ \A h \in Handlers : pc[h] = "permit" => about[h] \in Operators \X Machines

\* Actions in the buffer and in a batch are among those accepted.
Numbered ==
    /\ Elements(buffer) \subseteq 1 .. accepted
    /\ \A h \in Handlers : Elements(flight[h]) \subseteq 1 .. accepted

Typed == TypeOK /\ AboutTyped /\ Numbered

-----------------------------------------------------------------------------
(* The lists *)

\* A registration makes a database of the same type with the same lists.
LEMMA PendingLists ==
    ASSUME NEW did \in Dids, db \in DB
    PROVE  WithPending(did) \in DB /\ Listed(WithPending(did)) = Listed(db)
<1>1. /\ db.operators \in Seq(Dids) /\ db.machines \in Seq(Dids) /\ db.pending \in Seq(Dids)
  BY DEF DB
<1>2. Append(db.pending, did) \in Seq(Dids)
  BY <1>1
<1>3. WithPending(did) \in DB
  BY <1>1, <1>2 DEF WithPending, DB
<1>4. WithPending(did).operators = db.operators /\ WithPending(did).machines = db.machines
  BY DEF WithPending, DB
<1> QED
  BY <1>3, <1>4 DEF Listed

\* An approval makes a database of the same type and adds only its DID.
LEMMA MovedLists ==
    ASSUME db \in DB, NEW did \in Dids, did \in Elements(db.pending)
    PROVE  Moved(did) \in DB /\ Listed(Moved(did)) \subseteq Listed(db) \cup {did}
<1> DEFINE rest == Without(db.pending, IndexOf(db.pending, did))
           ops == IF did \in Operators THEN Append(db.operators, did) ELSE db.operators
           macs == IF did \in Machines THEN Append(db.machines, did) ELSE db.machines
<1>1. db.operators \in Seq(Dids) /\ db.machines \in Seq(Dids) /\ db.pending \in Seq(Dids)
  BY DEF DB
<1>2. IndexOf(db.pending, did) \in 1 .. Len(db.pending)
  BY <1>1, IndexOfElement
<1>3. rest \in Seq(Dids)
  BY <1>1, <1>2, WithoutList
<1>4. ops \in Seq(Dids) /\ Elements(ops) \subseteq Elements(db.operators) \cup {did}
  BY <1>1, AppendElements
<1>5. macs \in Seq(Dids) /\ Elements(macs) \subseteq Elements(db.machines) \cup {did}
  BY <1>1, AppendElements
<1>6. Moved(did) = [db EXCEPT !.pending = rest, !.operators = ops, !.machines = macs]
  BY DEF Moved
<1> HIDE DEF ops, macs, rest
<1>7. Moved(did) \in DB
  BY <1>1, <1>3, <1>4, <1>5, <1>6 DEF DB
<1>8. Moved(did).operators = ops /\ Moved(did).machines = macs
  BY <1>6 DEF DB
<1> QED
  BY <1>4, <1>5, <1>7, <1>8 DEF Listed

\* Empty lists have a type and list nobody.
LEMMA EmptyLists == NoDB \in DB /\ Listed(NoDB) = {} /\ NotHeld \in [db: DB, active: SUBSET Dids]
<1>1. NoDB \in DB
  BY DEF NoDB, DB
<1>2. Listed(NoDB) = {}
  BY DEF NoDB, Listed, Elements
<1> QED
  BY <1>1, <1>2 DEF NotHeld

-----------------------------------------------------------------------------
(* Types *)

\* The initial state is well typed.
LEMMA TypeInit == Init => Typed
<1> SUFFICES ASSUME Init PROVE Typed
  OBVIOUS
<1>1. TypeOK
  <2>1. db \in DB /\ mirrorDB \in DB
    BY EmptyLists DEF Init
  <2>2. held \in [Handlers -> [db: DB, active: SUBSET Dids]]
    BY EmptyLists DEF Init
  <2>3. /\ pc \in [Handlers -> {"idle", "register", "state", "mirror", "permit", "send", "wait"}]
        /\ about \in [Handlers -> {NotAbout} \cup Dids \cup (Operators \X Machines)]
        /\ flight \in [Handlers -> Seq(Nat)]
        /\ buffer \in Seq(Nat) /\ onChain \in Seq(Nat)
    BY DEF Init
  <2> QED
    BY <2>1, <2>2, <2>3 DEF Init, TypeOK
<1>2. AboutTyped
  BY DEF Init, AboutTyped
<1>3. Numbered
  BY DEF Init, Numbered, Elements
<1> QED
  BY <1>1, <1>2, <1>3 DEF Typed

\* Answering keeps the types of what a request holds.
LEMMA TypeAnswers ==
    ASSUME Typed, NEW h \in Handlers, Answers(h)
    PROVE  /\ pc' \in [Handlers -> {"idle", "register", "state", "mirror", "permit", "send", "wait"}]
           /\ about' \in [Handlers -> {NotAbout} \cup Dids \cup (Operators \X Machines)]
           /\ held' \in [Handlers -> [db: DB, active: SUBSET Dids]]
           /\ AboutTyped'
<1>1. pc' = [pc EXCEPT ![h] = "idle"]
  BY DEF Answers, Goto
<1>2. pc' \in [Handlers -> {"idle", "register", "state", "mirror", "permit", "send", "wait"}]
  BY <1>1 DEF Typed, TypeOK
<1>3. about' \in [Handlers -> {NotAbout} \cup Dids \cup (Operators \X Machines)]
  BY DEF Answers, Typed, TypeOK
<1>4. held' \in [Handlers -> [db: DB, active: SUBSET Dids]]
  BY EmptyLists DEF Answers, Typed, TypeOK
<1>5. AboutTyped'
  BY <1>1 DEF Answers, Typed, TypeOK, AboutTyped
<1> QED
  BY <1>2, <1>3, <1>4, <1>5

LEMMA TypeCreateDid ==
    ASSUME Typed, NEW h \in Handlers, NEW did \in Dids, CreateDid(h, did)
    PROVE  Typed'
<1>1. TypeOK'
  BY DEF Typed, TypeOK, CreateDid, Goto, files, mirrors, sending
<1>2. AboutTyped'
  BY DEF Typed, TypeOK, AboutTyped, CreateDid, Goto
<1>3. Numbered'
  BY DEF Typed, Numbered, CreateDid, sending
<1> QED
  BY <1>1, <1>2, <1>3 DEF Typed

LEMMA TypeSaveRegistration ==
    ASSUME Typed, NEW h \in Handlers, SaveRegistration(h)
    PROVE  Typed'
<1>1. about[h] \in Dids
  BY DEF Typed, AboutTyped, SaveRegistration
<1>2. db' \in DB
  BY <1>1, PendingLists DEF Typed, TypeOK, SaveRegistration
<1>3. TypeOK'
  BY <1>2 DEF Typed, TypeOK, SaveRegistration, Goto, mirrors, sending, dids
<1>4. AboutTyped'
  BY <1>1 DEF Typed, TypeOK, AboutTyped, SaveRegistration, Goto
<1>5. Numbered'
  BY DEF Typed, Numbered, SaveRegistration, sending
<1> QED
  BY <1>3, <1>4, <1>5 DEF Typed

LEMMA TypeMirrorAndAnswer ==
    ASSUME Typed, NEW h \in Handlers, MirrorAndAnswer(h)
    PROVE  Typed'
<1>1. held[h].db \in DB
  BY DEF Typed, TypeOK
<1>2. Answers(h)
  BY DEF MirrorAndAnswer
<1>3. mirrorDB' \in DB /\ missed' \in BOOLEAN
  BY <1>1 DEF Typed, TypeOK, MirrorAndAnswer
<1>4. registered' \subseteq Dids /\ approved' \subseteq Dids
  BY DEF Typed, TypeOK, AboutTyped, MirrorAndAnswer
<1>5. TypeOK'
  BY <1>2, <1>3, <1>4, TypeAnswers DEF Typed, TypeOK, MirrorAndAnswer, files, sending
<1>6. Numbered'
  BY DEF Typed, Numbered, MirrorAndAnswer, sending
<1> QED
  BY <1>2, <1>5, <1>6, TypeAnswers DEF Typed

LEMMA TypeApprove ==
    ASSUME Typed, NEW h \in Handlers, NEW did \in Dids, Approve(h, did)
    PROVE  Typed'
<1>1. Moved(did) \in DB
  BY MovedLists DEF Typed, TypeOK, Approve
<1>2. db' \in DB
  BY <1>1 DEF Typed, TypeOK, Approve, ApproveNew, ApproveAgain
<1>3. activeDids' \subseteq Dids /\ stateFile' \subseteq Dids
  BY DEF Typed, TypeOK, Approve, ApproveNew, ApproveAgain
<1>4. held' \in [Handlers -> [db: DB, active: SUBSET Dids]]
  <2>1. CASE ApproveNew(h, did)
    <3>1. [db |-> Moved(did), active |-> activeDids'] \in [db: DB, active: SUBSET Dids]
      BY <1>1, <1>3
    <3> QED
      BY <2>1, <3>1 DEF ApproveNew, Typed, TypeOK
  <2>2. CASE ApproveAgain(h, did)
    BY <2>2, <1>2 DEF ApproveAgain, Typed, TypeOK
  <2> QED
    BY <2>1, <2>2 DEF Approve
<1>5. pc' = [pc EXCEPT ![h] = "state"] \/ pc' = [pc EXCEPT ![h] = "mirror"]
  BY DEF Approve, ApproveNew, ApproveAgain, Goto
<1>6. pc' \in [Handlers -> {"idle", "register", "state", "mirror", "permit", "send", "wait"}]
  BY <1>5 DEF Typed, TypeOK
<1>7. TypeOK'
  BY <1>2, <1>3, <1>4, <1>6 DEF Typed, TypeOK, Approve, mirrors, sending, dids
<1>8. AboutTyped'
  BY <1>5 DEF Typed, TypeOK, AboutTyped, Approve
<1>9. Numbered'
  BY DEF Typed, Numbered, Approve, sending
<1> QED
  BY <1>7, <1>8, <1>9 DEF Typed

LEMMA TypeSaveApproval ==
    ASSUME Typed, NEW h \in Handlers, SaveApproval(h)
    PROVE  Typed'
<1>1. held[h].db \in DB /\ held[h].active \subseteq Dids
  BY DEF Typed, TypeOK
<1>2. TypeOK'
  BY <1>1 DEF Typed, TypeOK, SaveApproval, Goto, sending, dids
<1>3. AboutTyped'
  BY DEF Typed, TypeOK, AboutTyped, SaveApproval, Goto
<1>4. Numbered'
  BY DEF Typed, Numbered, SaveApproval, sending
<1> QED
  BY <1>2, <1>3, <1>4 DEF Typed

LEMMA TypeIssuePermit ==
    ASSUME Typed, NEW h \in Handlers, NEW operator \in Operators, NEW machine \in Machines,
           IssuePermit(h, operator, machine)
    PROVE  Typed'
<1>1. TypeOK'
  BY DEF Typed, TypeOK, IssuePermit, Goto, files, mirrors, sending, dids
<1>2. AboutTyped'
  BY DEF Typed, TypeOK, AboutTyped, IssuePermit, Goto
<1>3. Numbered'
  BY DEF Typed, Numbered, IssuePermit, sending
<1> QED
  BY <1>1, <1>2, <1>3 DEF Typed

LEMMA TypeSavePermit ==
    ASSUME Typed, NEW h \in Handlers, SavePermit(h)
    PROVE  Typed'
<1>1. Answers(h)
  BY DEF SavePermit
<1>2. permits' \subseteq Operators \X Machines
  BY DEF Typed, TypeOK, AboutTyped, SavePermit
<1>3. TypeOK'
  BY <1>1, <1>2, TypeAnswers DEF Typed, TypeOK, SavePermit, files, mirrors, sending, dids
<1>4. Numbered'
  BY DEF Typed, Numbered, SavePermit, sending
<1> QED
  BY <1>1, <1>3, <1>4, TypeAnswers DEF Typed

LEMMA TypeBatch == ASSUME Typed, Batch PROVE Typed'
<1>1. accepted' = accepted + 1 /\ accepted' \in Nat /\ 1 .. accepted \subseteq 1 .. accepted'
  BY DEF Typed, TypeOK, Batch
<1>2. buffer' \in Seq(Nat) /\ Elements(buffer') = Elements(buffer) \cup {accepted'}
  <2>1. buffer \in Seq(Nat)
    BY DEF Typed, TypeOK
  <2>2. buffer' = Append(buffer, accepted')
    BY DEF Batch
  <2> QED
    BY <1>1, <2>1, <2>2, AppendElements
<1>3. TypeOK'
  BY <1>1, <1>2 DEF Typed, TypeOK, Batch, files, mirrors, dids
<1>4. AboutTyped'
  BY DEF Typed, AboutTyped, Batch
<1>5. Numbered'
  <2>1. Elements(buffer') \subseteq 1 .. accepted'
    BY <1>1, <1>2 DEF Typed, TypeOK, Numbered
  <2>2. \A h \in Handlers : Elements(flight[h]) \subseteq 1 .. accepted'
    BY <1>1 DEF Typed, Numbered
  <2>3. flight' = flight
    BY DEF Batch
  <2> QED
    BY <2>1, <2>2, <2>3 DEF Numbered
<1> QED
  BY <1>3, <1>4, <1>5 DEF Typed

LEMMA TypeStartSending ==
    ASSUME Typed, NEW h \in Handlers, StartSending(h)
    PROVE  Typed'
<1>1. TypeOK'
  BY DEF Typed, TypeOK, StartSending, Goto, files, mirrors, dids
<1>2. AboutTyped'
  BY DEF Typed, TypeOK, AboutTyped, StartSending, Goto
<1>3. Numbered'
  <2>1. Elements(buffer') = {}
    BY DEF StartSending, Elements
  <2>2. \A g \in Handlers : flight'[g] = flight[g] \/ flight'[g] = buffer
    BY DEF Typed, TypeOK, StartSending
  <2>3. accepted' = accepted
    BY DEF StartSending
  <2>4. ASSUME NEW g \in Handlers PROVE Elements(flight'[g]) \subseteq 1 .. accepted
    BY <2>2 DEF Typed, Numbered
  <2> QED
    BY <2>1, <2>3, <2>4 DEF Numbered
<1> QED
  BY <1>1, <1>2, <1>3 DEF Typed

LEMMA TypeAccepted ==
    ASSUME Typed, NEW h \in Handlers, Accepted(h)
    PROVE  Typed'
<1>1. TypeOK'
  BY DEF Typed, TypeOK, Accepted, Goto, files, mirrors, sending, dids
<1>2. AboutTyped'
  BY DEF Typed, TypeOK, AboutTyped, Accepted, Goto
<1>3. Numbered'
  BY DEF Typed, Numbered, Accepted, sending
<1> QED
  BY <1>1, <1>2, <1>3 DEF Typed

\* The batch of a request that has stopped sending is empty.
LEMMA StoppedFlight ==
    ASSUME Typed, NEW h \in Handlers, StopsSending(h)
    PROVE  /\ flight' \in [Handlers -> Seq(Nat)]
           /\ Elements(flight'[h]) = {}
           /\ \A g \in Handlers : g # h => flight'[g] = flight[g]
<1>1. flight' = [flight EXCEPT ![h] = << >>]
  BY DEF StopsSending
<1> QED
  BY <1>1 DEF Typed, TypeOK, Elements

LEMMA TypeConfirmed ==
    ASSUME Typed, NEW h \in Handlers, Confirmed(h)
    PROVE  Typed'
<1>1. StopsSending(h) /\ Answers(h)
  BY DEF Confirmed, StopsSending
<1>2. onChain' \in Seq(Nat)
  BY ConcatElements DEF Typed, TypeOK, Confirmed
<1>3. TypeOK'
  BY <1>1, <1>2, TypeAnswers, StoppedFlight
  DEF Typed, TypeOK, Confirmed, StopsSending, files, mirrors, dids
<1>4. Numbered'
  BY <1>1, StoppedFlight DEF Typed, Numbered, Confirmed
<1> QED
  BY <1>1, <1>3, <1>4, TypeAnswers DEF Typed

LEMMA TypeSendFails ==
    ASSUME Typed, NEW h \in Handlers, SendFails(h)
    PROVE  Typed'
<1>1. StopsSending(h) /\ Answers(h)
  BY DEF SendFails, StopsSending
<1>2. lost' \subseteq 1 .. accepted
  BY DEF Typed, TypeOK, Numbered, SendFails
<1>3. TypeOK'
  BY <1>1, <1>2, TypeAnswers, StoppedFlight
  DEF Typed, TypeOK, SendFails, StopsSending, files, mirrors, dids
<1>4. Numbered'
  BY <1>1, StoppedFlight DEF Typed, Numbered, SendFails
<1> QED
  BY <1>1, <1>3, <1>4, TypeAnswers DEF Typed

LEMMA TypeCrash == ASSUME Typed, Crash PROVE Typed'
<1>1. lost' \subseteq 1 .. accepted /\ onChain' \in Seq(Nat)
  <2>1. CASE NothingMined
    <3>1. lost \subseteq 1 .. accepted /\ onChain \in Seq(Nat)
      BY DEF Typed, TypeOK
    <3>2. UNION { Elements(flight[h]) : h \in Handlers } \subseteq 1 .. accepted
      BY DEF Typed, Numbered
    <3>3. Elements(buffer) \subseteq 1 .. accepted
      BY DEF Typed, Numbered
    <3>4. lost' = lost \cup Elements(buffer) \cup UNION { Elements(flight[h]) : h \in Handlers }
          /\ onChain' = onChain
      BY <2>1 DEF NothingMined
    <3> QED
      BY <3>1, <3>2, <3>3, <3>4
  <2>2. ASSUME NEW h \in Handlers, MinedAnyway(h)
        PROVE  lost' \subseteq 1 .. accepted /\ onChain' \in Seq(Nat)
    <3>1. flight[h] \in Seq(Nat) /\ onChain \in Seq(Nat)
      BY DEF Typed, TypeOK
    <3>2. onChain' \in Seq(Nat)
      BY <2>2, <3>1, ConcatElements DEF MinedAnyway
    <3> QED
      BY <2>2, <3>2 DEF Typed, TypeOK, Numbered, MinedAnyway
  <2> QED
    BY <2>1, <2>2 DEF Crash
<1>3. held' \in [Handlers -> [db: DB, active: SUBSET Dids]]
  BY EmptyLists DEF Crash
<1>4. /\ pc' \in [Handlers -> {"idle", "register", "state", "mirror", "permit", "send", "wait"}]
      /\ about' \in [Handlers -> {NotAbout} \cup Dids \cup (Operators \X Machines)]
      /\ flight' \in [Handlers -> Seq(Nat)] /\ buffer' \in Seq(Nat)
      /\ missed' \in BOOLEAN
  BY DEF Crash, Typed, TypeOK
<1>5. TypeOK'
  <2>1. /\ overlap' = overlap /\ db' = db /\ stateFile' = stateFile /\ mirrorDB' = mirrorDB
        /\ mirrorState' = mirrorState /\ permits' = permits /\ accepted' = accepted
        /\ created' = created /\ registered' = registered /\ approved' = approved
        /\ activeDids' = stateFile /\ isSending' = FALSE /\ crashes' = crashes + 1
    BY DEF Crash, files, dids
  <2>2. lost' \subseteq 1 .. accepted' /\ accepted' \in Nat /\ crashes' \in Nat
    BY <1>1, <2>1 DEF Typed, TypeOK
  <2>3. activeDids' \subseteq Dids /\ stateFile' \subseteq Dids /\ mirrorState' \subseteq Dids
    BY <2>1 DEF Typed, TypeOK
  <2>4. db' \in DB /\ mirrorDB' \in DB /\ overlap' \in Overlaps /\ permits' \subseteq Operators \X Machines
    BY <2>1 DEF Typed, TypeOK
  <2>5. created' \subseteq Dids /\ registered' \subseteq Dids /\ approved' \subseteq Dids
    BY <2>1 DEF Typed, TypeOK
  <2> QED
    BY <1>1, <1>3, <1>4, <2>1, <2>2, <2>3, <2>4, <2>5 DEF TypeOK
<1>6. AboutTyped'
  BY DEF Typed, AboutTyped, Crash
<1>7. Numbered'
  BY DEF Typed, Numbered, Crash, Elements
<1> QED
  BY <1>5, <1>6, <1>7 DEF Typed

LEMMA TypeStep == Typed /\ [Next]_vars => Typed'
<1> SUFFICES ASSUME Typed, [Next]_vars PROVE Typed'
  OBVIOUS
<1>1. CASE UNCHANGED vars
  BY <1>1 DEF vars, files, mirrors, sending, dids, Typed, TypeOK, AboutTyped, Numbered
<1>2. CASE Next
  BY <1>2, TypeCreateDid, TypeApprove, TypeSaveRegistration, TypeSaveApproval,
     TypeMirrorAndAnswer, TypeIssuePermit, TypeSavePermit, TypeStartSending, TypeAccepted,
     TypeConfirmed, TypeSendFails, TypeBatch, TypeCrash DEF Next
<1> QED
  BY <1>1, <1>2

\* Every reachable state is well typed.
THEOREM GatewayTyped == Spec => []TypeOK
<1>1. Typed => TypeOK
  BY DEF Typed
<1> QED
  BY <1>1, TypeInit, TypeStep, PTL DEF Spec

-----------------------------------------------------------------------------
(* The lists and the active DIDs *)

\* What makes ListedAreActive inductive: the state file is never behind the
\* memory, and the copies that requests hold list active DIDs only, so it does
\* not matter which of them is written last.
Secured ==
    /\ stateFile = activeDids
    /\ Listed(db) \subseteq activeDids
    /\ \A h \in Handlers : Listed(held[h].db) \subseteq activeDids
    /\ \A h \in Handlers : pc[h] = "permit" => about[h][1] \in activeDids /\ about[h][2] \in activeDids
    /\ \A permit \in permits : permit[1] \in activeDids /\ permit[2] \in activeDids

LEMMA SecuredInit == Init => Secured
  BY EmptyLists DEF Init, Secured, NotHeld

\* A request that answers holds nothing.
LEMMA SecuredAnswers ==
    ASSUME Typed, Secured, NEW h \in Handlers, Answers(h)
    PROVE  /\ \A g \in Handlers : Listed(held'[g].db) \subseteq activeDids
           /\ \A g \in Handlers : pc'[g] = "permit" => about'[g][1] \in activeDids /\ about'[g][2] \in activeDids
<1>1. held' = [held EXCEPT ![h] = NotHeld] /\ pc' = [pc EXCEPT ![h] = "idle"]
  BY DEF Answers, Goto
<1>2. about' = [about EXCEPT ![h] = NotAbout]
  BY DEF Answers
<1>3. Listed(NotHeld.db) = {}
  BY EmptyLists DEF NotHeld
<1>4. \A g \in Handlers : held'[g] = held[g] \/ held'[g] = NotHeld
  BY <1>1 DEF Typed, TypeOK
<1>5. \A g \in Handlers : pc'[g] = "permit" => pc[g] = "permit" /\ about'[g] = about[g]
  BY <1>1, <1>2 DEF Typed, TypeOK
<1>6. ASSUME NEW g \in Handlers PROVE Listed(held'[g].db) \subseteq activeDids
  BY <1>3, <1>4 DEF Secured
<1> QED
  BY <1>5, <1>6 DEF Secured

LEMMA SecuredSaveRegistration ==
    ASSUME Typed, Secured, NEW h \in Handlers, SaveRegistration(h)
    PROVE  Secured'
<1>1. db \in DB /\ about[h] \in Dids
  BY DEF Typed, TypeOK, AboutTyped, SaveRegistration
<1>2. Listed(db') \subseteq activeDids
  BY <1>1, PendingLists DEF Secured, SaveRegistration
<1>3. \A g \in Handlers : held'[g] = held[g] \/ held'[g].db = db'
  BY DEF Typed, TypeOK, SaveRegistration
<1>4. ASSUME NEW g \in Handlers PROVE Listed(held'[g].db) \subseteq activeDids
  BY <1>2, <1>3 DEF Secured
<1>5. \A g \in Handlers : pc'[g] = "permit" => pc[g] = "permit"
  BY DEF Typed, TypeOK, SaveRegistration, Goto
<1>6. about' = about /\ permits' = permits /\ stateFile' = stateFile /\ activeDids' = activeDids
  BY DEF SaveRegistration
<1> QED
  BY <1>2, <1>4, <1>5, <1>6 DEF Secured

LEMMA SecuredMirrorAndAnswer ==
    ASSUME Typed, Secured, NEW h \in Handlers, MirrorAndAnswer(h)
    PROVE  Secured'
<1>1. Answers(h) /\ db' = db /\ stateFile' = stateFile /\ activeDids' = activeDids /\ permits' = permits
  BY DEF MirrorAndAnswer, files
<1> QED
  BY <1>1, SecuredAnswers DEF Secured

\* An approval makes its DID active before any list has it.
LEMMA SecuredApprove ==
    ASSUME Typed, Secured, NEW h \in Handlers, NEW did \in Dids, Approve(h, did)
    PROVE  Secured'
<1>1. Listed(Moved(did)) \subseteq Listed(db) \cup {did}
  BY MovedLists DEF Typed, TypeOK, Approve
<1>2. activeDids \cup {did} = activeDids' /\ stateFile' = activeDids'
  BY DEF Secured, Approve, ApproveNew, ApproveAgain
<1>3. Listed(db') \subseteq activeDids'
  BY <1>1, <1>2 DEF Secured, Approve, ApproveNew, ApproveAgain
<1>4. \A g \in Handlers : held'[g] = held[g] \/ held'[g].db = Moved(did)
  BY DEF Typed, TypeOK, Approve, ApproveNew, ApproveAgain
<1>5. ASSUME NEW g \in Handlers PROVE Listed(held'[g].db) \subseteq activeDids'
  BY <1>1, <1>2, <1>4 DEF Secured
<1>6. \A g \in Handlers : pc'[g] = "permit" => pc[g] = "permit" /\ about'[g] = about[g]
  BY DEF Typed, TypeOK, Approve, ApproveNew, ApproveAgain, Goto
<1>7. permits' = permits
  BY DEF Approve
<1> QED
  BY <1>2, <1>3, <1>5, <1>6, <1>7 DEF Secured

LEMMA SecuredSaveApproval ==
    ASSUME Typed, Secured, NEW h \in Handlers, SaveApproval(h)
    PROVE  Secured'
<1>1. Listed(db') \subseteq activeDids
  BY DEF Secured, SaveApproval
<1>2. \A g \in Handlers : pc'[g] = "permit" => pc[g] = "permit"
  BY DEF Typed, TypeOK, SaveApproval, Goto
<1>3. /\ about' = about /\ permits' = permits /\ stateFile' = stateFile
      /\ activeDids' = activeDids /\ held' = held
  BY DEF SaveApproval
<1> QED
  BY <1>1, <1>2, <1>3 DEF Secured

LEMMA SecuredIssuePermit ==
    ASSUME Typed, Secured, NEW h \in Handlers, NEW operator \in Operators, NEW machine \in Machines,
           IssuePermit(h, operator, machine)
    PROVE  Secured'
<1>1. operator \in activeDids /\ machine \in activeDids
  BY DEF Secured, IssuePermit, Listed
<1>2. about' = [about EXCEPT ![h] = << operator, machine >>] /\ pc' = [pc EXCEPT ![h] = "permit"]
  BY DEF IssuePermit, Goto
<1>3. \A g \in Handlers : pc'[g] = "permit" =>
          (pc[g] = "permit" /\ about'[g] = about[g]) \/ about'[g] = << operator, machine >>
  BY <1>2 DEF Typed, TypeOK
<1>4. \A g \in Handlers : pc'[g] = "permit" => about'[g][1] \in activeDids /\ about'[g][2] \in activeDids
  BY <1>1, <1>3 DEF Secured
<1>5. /\ db' = db /\ permits' = permits /\ stateFile' = stateFile
      /\ activeDids' = activeDids /\ held' = held
  BY DEF IssuePermit, files
<1> QED
  BY <1>4, <1>5 DEF Secured

LEMMA SecuredSavePermit ==
    ASSUME Typed, Secured, NEW h \in Handlers, SavePermit(h)
    PROVE  Secured'
<1>1. \A permit \in permits' : permit \in permits \/ permit = about[h]
  BY DEF SavePermit
<1>2. \A permit \in permits' : permit[1] \in activeDids /\ permit[2] \in activeDids
  BY <1>1 DEF Secured, SavePermit
<1>3. Answers(h) /\ db' = db /\ stateFile' = stateFile /\ activeDids' = activeDids
  BY DEF SavePermit, files
<1> QED
  BY <1>2, <1>3, SecuredAnswers DEF Secured

\* Sending touches neither lists nor permits.
LEMMA SecuredSending ==
    ASSUME Typed, Secured, NEW h \in Handlers,
           \/ \E did \in Dids : CreateDid(h, did)
           \/ StartSending(h) \/ Accepted(h) \/ Confirmed(h) \/ SendFails(h)
    PROVE  Secured'
<1>1. db' = db /\ stateFile' = stateFile /\ activeDids' = activeDids /\ permits' = permits
  BY DEF CreateDid, StartSending, Accepted, Confirmed, SendFails, files
<1>2. CASE Confirmed(h) \/ SendFails(h)
  <2>1. Answers(h)
    BY <1>2 DEF Confirmed, SendFails, StopsSending
  <2> QED
    BY <1>1, <2>1, SecuredAnswers DEF Secured
<1>3. CASE StartSending(h) \/ Accepted(h) \/ \E did \in Dids : CreateDid(h, did)
  <2>1. held' = held
    BY <1>3 DEF StartSending, Accepted, CreateDid
  <2>2. \A g \in Handlers : pc'[g] = "permit" => pc[g] = "permit" /\ about'[g] = about[g]
    BY <1>3 DEF Typed, TypeOK, StartSending, Accepted, CreateDid, Goto
  <2> QED
    BY <1>1, <2>1, <2>2 DEF Secured
<1> QED
  BY <1>2, <1>3

LEMMA SecuredCrash == ASSUME Typed, Secured, Crash PROVE Secured'
<1>1. \A g \in Handlers : held'[g] = NotHeld /\ pc'[g] = "idle"
  BY DEF Crash
<1>2. activeDids' = activeDids /\ stateFile' = stateFile /\ db' = db /\ permits' = permits
  BY DEF Crash, Secured, files
<1>3. Listed(NotHeld.db) = {}
  BY EmptyLists DEF NotHeld
<1>4. ASSUME NEW g \in Handlers PROVE Listed(held'[g].db) \subseteq activeDids
  BY <1>1, <1>3
<1> QED
  BY <1>1, <1>2, <1>4 DEF Secured

LEMMA SecuredStep == Typed /\ Secured /\ [Next]_vars => Secured'
<1> SUFFICES ASSUME Typed, Secured, [Next]_vars PROVE Secured'
  OBVIOUS
<1>1. CASE UNCHANGED vars
  BY <1>1 DEF vars, files, Secured
<1>2. CASE Batch
  BY <1>2 DEF Batch, files, Secured
<1>3. CASE Next /\ ~Batch
  BY <1>3, SecuredApprove, SecuredSaveRegistration, SecuredSaveApproval, SecuredMirrorAndAnswer,
     SecuredIssuePermit, SecuredSavePermit, SecuredSending, SecuredCrash DEF Next
<1> QED
  BY <1>1, <1>2, <1>3

\* Whoever is listed as an operator or a machine, or named by a permit, is an
\* active DID, in memory and on disk: for any overlap of requests and any restarts.
THEOREM ListedAlwaysActive == Spec => []ListedAreActive
<1>1. Init => Typed /\ Secured
  BY TypeInit, SecuredInit
<1>2. Typed /\ Secured /\ [Next]_vars => Typed' /\ Secured'
  BY TypeStep, SecuredStep
<1>3. Secured => ListedAreActive
  BY DEF Secured, ListedAreActive
<1> QED
  BY <1>1, <1>2, <1>3, PTL DEF Spec

-----------------------------------------------------------------------------
(* Sending *)

\* SendFlagOwned, with nothing left in the batch of a request that is not sending.
Flagged ==
    /\ SendFlagOwned
    /\ \A h \in Handlers : ~Sending(h) => flight[h] = << >>

\* What ActionsSentInOrder says of one sequence of actions.
InOrder(queue) == Increasing(queue) /\ \A n \in 1 .. accepted : n \in lost <=> n \notin Elements(queue)

Queue(h) == onChain \o flight[h] \o buffer

Ordered ==
    /\ Elements(onChain) \subseteq 1 .. accepted
    /\ \A h \in Handlers : Sending(h) \/ ~isSending => InOrder(Queue(h))

\* Steps of the identity routes, which leave the buffer and its senders alone.
Elsewhere ==
    /\ UNCHANGED << buffer, isSending, onChain, flight, accepted, lost >>
    /\ \A h \in Handlers : Sending(h)' <=> Sending(h)

LEMMA IdentityElsewhere ==
    ASSUME Typed, NEW h \in Handlers,
           \/ \E did \in Dids : CreateDid(h, did) \/ Approve(h, did)
           \/ SaveRegistration(h) \/ SaveApproval(h) \/ MirrorAndAnswer(h)
           \/ \E operator \in Operators, machine \in Machines : IssuePermit(h, operator, machine)
           \/ SavePermit(h)
    PROVE  Elsewhere
<1>1. UNCHANGED << buffer, isSending, onChain, flight, accepted, lost >>
  BY DEF CreateDid, Approve, SaveRegistration, SaveApproval, MirrorAndAnswer, IssuePermit,
     SavePermit, sending
<1>2. pc[h] \notin {"send", "wait"}
  BY DEF CreateDid, Approve, SaveRegistration, SaveApproval, MirrorAndAnswer, IssuePermit,
     SavePermit, MayStart, Idle
<1>3. \E step \in {"idle", "register", "state", "mirror", "permit"} : pc' = [pc EXCEPT ![h] = step]
  BY DEF CreateDid, Approve, ApproveNew, ApproveAgain, SaveRegistration, SaveApproval,
     MirrorAndAnswer, IssuePermit, SavePermit, Answers, Goto
<1>4. \A g \in Handlers : Sending(g)' <=> Sending(g)
  BY <1>2, <1>3 DEF Typed, TypeOK, Sending
<1> QED
  BY <1>1, <1>4 DEF Elsewhere

LEMMA FlaggedInit == Init => Flagged
  BY DEF Init, Flagged, SendFlagOwned, Sending

LEMMA FlaggedStep == Typed /\ Flagged /\ [Next]_vars => Flagged'
<1> SUFFICES ASSUME Typed, Flagged, [Next]_vars PROVE Flagged'
  OBVIOUS
<1>1. CASE UNCHANGED vars
  BY <1>1 DEF vars, sending, Flagged, SendFlagOwned, Sending
<1>2. CASE Elsewhere
  BY <1>2 DEF Elsewhere, Flagged, SendFlagOwned
<1>3. CASE Batch
  BY <1>3 DEF Batch, Flagged, SendFlagOwned, Sending
<1>4. ASSUME NEW h \in Handlers, StartSending(h) PROVE Flagged'
  <2>1. isSending' = TRUE /\ ~isSending
    BY <1>4 DEF StartSending
  <2>2. \A g \in Handlers : Sending(g)' <=> g = h
    BY <1>4, <2>1 DEF StartSending, Goto, Typed, TypeOK, Flagged, SendFlagOwned, Sending
  <2>3. \A g \in Handlers : g # h => flight'[g] = flight[g]
    BY <1>4 DEF StartSending, Typed, TypeOK
  <2> QED
    BY <2>1, <2>2, <2>3 DEF Flagged, SendFlagOwned
<1>5. ASSUME NEW h \in Handlers, Accepted(h) PROVE Flagged'
  <2>1. \A g \in Handlers : Sending(g)' <=> Sending(g)
    BY <1>5 DEF Accepted, Goto, Typed, TypeOK, Sending
  <2>2. isSending' = isSending /\ flight' = flight
    BY <1>5 DEF Accepted, sending
  <2> QED
    BY <2>1, <2>2 DEF Flagged, SendFlagOwned
<1>6. ASSUME NEW h \in Handlers, Confirmed(h) \/ SendFails(h) PROVE Flagged'
  <2>1. isSending' = FALSE /\ flight' = [flight EXCEPT ![h] = << >>] /\ pc' = [pc EXCEPT ![h] = "idle"]
    BY <1>6 DEF Confirmed, SendFails, StopsSending, Answers, Goto
  <2>2. \A g \in Handlers : ~Sending(g)'
    BY <1>6, <2>1 DEF Confirmed, SendFails, Typed, TypeOK, Flagged, SendFlagOwned, Sending
  <2>3. \A g \in Handlers : flight'[g] = << >>
    BY <1>6, <2>1 DEF Confirmed, SendFails, Typed, TypeOK, Flagged, SendFlagOwned, Sending
  <2> QED
    BY <2>1, <2>2, <2>3 DEF Flagged, SendFlagOwned
<1>7. CASE Crash
  <2>1. isSending' = FALSE /\ \A g \in Handlers : flight'[g] = << >> /\ pc'[g] = "idle"
    BY <1>7 DEF Crash
  <2> QED
    BY <2>1 DEF Flagged, SendFlagOwned, Sending
<1>8. CASE Next
  BY <1>2, <1>3, <1>4, <1>5, <1>6, <1>7, <1>8, IdentityElsewhere DEF Next
<1> QED
  BY <1>1, <1>8

\* One request sends at a time and the flag is its own, whatever fails.
THEOREM SendFlagAlwaysOwned == Spec => []SendFlagOwned
<1>1. Init => Typed /\ Flagged
  BY TypeInit, FlaggedInit
<1>2. Typed /\ Flagged /\ [Next]_vars => Typed' /\ Flagged'
  BY TypeStep, FlaggedStep
<1>3. Flagged => SendFlagOwned
  BY DEF Flagged
<1> QED
  BY <1>1, <1>2, <1>3, PTL DEF Spec

\* The queue of a request is a sequence of numbers with the elements of its parts.
LEMMA QueueElements ==
    ASSUME Typed, NEW h \in Handlers
    PROVE  /\ Queue(h) \in Seq(Nat) /\ onChain \o flight[h] \in Seq(Nat)
           /\ Elements(onChain \o flight[h]) = Elements(onChain) \cup Elements(flight[h])
           /\ Elements(Queue(h)) = Elements(onChain) \cup Elements(flight[h]) \cup Elements(buffer)
<1>1. onChain \in Seq(Nat) /\ flight[h] \in Seq(Nat) /\ buffer \in Seq(Nat)
  BY DEF Typed, TypeOK
<1>2. onChain \o flight[h] \in Seq(Nat)
      /\ Elements(onChain \o flight[h]) = Elements(onChain) \cup Elements(flight[h])
  BY <1>1, ConcatElements
<1>3. Queue(h) \in Seq(Nat)
      /\ Elements(Queue(h)) = Elements(onChain \o flight[h]) \cup Elements(buffer)
  <2> DEFINE front == onChain \o flight[h]
  <2>1. front \in Seq(Nat) /\ Queue(h) = front \o buffer
    BY <1>2 DEF Queue
  <2> HIDE DEF front
  <2>2. front \o buffer \in Seq(Nat) /\ Elements(front \o buffer) = Elements(front) \cup Elements(buffer)
    BY <1>1, <2>1, ConcatElements
  <2> QED
    BY <2>1, <2>2 DEF front
<1> QED
  BY <1>2, <1>3

\* An action that is answered BATCHED comes last.
LEMMA OrderedBatch ==
    ASSUME Typed, Ordered, Batch
    PROVE  Ordered'
<1> DEFINE n == accepted + 1
<1>1. accepted' = n /\ buffer' = Append(buffer, n) /\ n \in Nat /\ 1 .. accepted' = (1 .. accepted) \cup {n}
  BY DEF Batch, Typed, TypeOK
<1>2. onChain' = onChain /\ flight' = flight /\ lost' = lost /\ isSending' = isSending /\ pc' = pc
  BY DEF Batch
<1>3. n \notin lost /\ \A x \in 1 .. accepted : x < n
  BY DEF Typed, TypeOK
<1>4. ASSUME NEW h \in Handlers, Sending(h) \/ ~isSending PROVE InOrder(Queue(h))'
  <2> DEFINE front == onChain \o flight[h]
  <2>1. front \in Seq(Nat) /\ buffer \in Seq(Nat)
    BY QueueElements DEF Typed, TypeOK
  <2>2. Elements(front) \subseteq 1 .. accepted /\ Elements(buffer) \subseteq 1 .. accepted
    BY QueueElements DEF Typed, Numbered, Ordered
  <2>3. /\ Elements(Queue(h)) = Elements(front) \cup Elements(buffer)
        /\ InOrder(Queue(h))
    BY <1>4, QueueElements DEF Ordered
  <2>4. Queue(h) = front \o buffer /\ Queue(h)' = front \o Append(buffer, n)
    BY <1>1, <1>2 DEF Queue
  <2> HIDE DEF front, n
  <2>5. Increasing(front) /\ Increasing(buffer) /\ Below(front, buffer)
    BY <2>1, <2>3, <2>4, ConcatIncreasing DEF InOrder
  <2>6. Append(buffer, n) \in Seq(Nat) /\ Elements(Append(buffer, n)) = Elements(buffer) \cup {n}
    BY <1>1, <2>1, AppendElements
  <2>7. Increasing(Append(buffer, n))
    <3>1. << n >> \in Seq(Nat) /\ Append(buffer, n) = buffer \o << n >>
      BY <1>1, <2>1, AppendIsConcat
    <3>2. Increasing(<< n >>) /\ Elements(<< n >>) = {n}
      BY DEF Increasing, Elements
    <3>3. Below(buffer, << n >>)
      BY <1>3, <2>2, <3>2 DEF Below
    <3> QED
      <4>1. Increasing(buffer \o << n >>)
        BY <2>1, <2>5, <3>1, <3>2, <3>3, ConcatIncreasing
      <4> QED
        BY <3>1, <4>1
  <2>8. Below(front, Append(buffer, n))
    <3>1. \A x \in Elements(front) : x < n
      BY <1>3, <2>2
    <3>2. \A x \in Elements(front), y \in Elements(buffer) : x < y
      BY <2>5 DEF Below
    <3> QED
      BY <2>6, <3>1, <3>2 DEF Below
  <2>9. Increasing(Queue(h)')
    <3>1. Increasing(front \o Append(buffer, n))
      BY <2>1, <2>5, <2>6, <2>7, <2>8, ConcatIncreasing
    <3> QED
      BY <2>4, <3>1
  <2>10. Elements(Queue(h)') = Elements(Queue(h)) \cup {n}
    <3>1. Elements(front \o Append(buffer, n)) = Elements(front) \cup Elements(Append(buffer, n))
      BY <2>1, <2>6, ConcatElements, ZenonT(40)
    <3>2. Elements(Queue(h)') = Elements(front \o Append(buffer, n))
      BY <2>4
    <3>3. Elements(Append(buffer, n)) = Elements(buffer) \cup {n}
      BY <2>6
    <3>4. Elements(Queue(h)) = Elements(front) \cup Elements(buffer)
      BY <2>3
    <3> QED
      BY <3>1, <3>2, <3>3, <3>4, Zenon
  <2>11. \A x \in 1 .. accepted' : x \in lost' <=> x \notin Elements(Queue(h)')
    BY <1>1, <1>2, <1>3, <2>3, <2>10 DEF InOrder, n
  <2> QED
    BY <2>9, <2>11 DEF InOrder
<1>5. Elements(onChain') \subseteq 1 .. accepted'
  BY <1>1, <1>2 DEF Ordered
<1>6. \A h \in Handlers : (Sending(h) \/ ~isSending)' => Sending(h) \/ ~isSending
  BY <1>2 DEF Sending
<1> QED
  BY <1>4, <1>5, <1>6 DEF Ordered

\* The buffer becomes a batch: the same actions in the same order.
LEMMA OrderedStartSending ==
    ASSUME Typed, Flagged, Ordered, NEW h \in Handlers, StartSending(h)
    PROVE  Ordered'
<1>1. ~isSending /\ isSending' = TRUE /\ onChain' = onChain /\ lost' = lost /\ accepted' = accepted
  BY DEF StartSending
<1>2. flight[h] = << >> /\ flight'[h] = buffer /\ buffer' = << >>
  BY DEF StartSending, Flagged, Sending, Idle, Typed, TypeOK
<1>3. \A g \in Handlers : Sending(g)' => g = h
  BY <1>1 DEF StartSending, Goto, Typed, TypeOK, Flagged, SendFlagOwned, Sending
<1>4. onChain \in Seq(Nat) /\ buffer \in Seq(Nat)
  BY DEF Typed, TypeOK
<1>5. Queue(h) = onChain \o buffer /\ Queue(h)' = onChain \o buffer
  <2>1. onChain \o << >> = onChain /\ (onChain \o buffer) \o << >> = onChain \o buffer
    BY <1>4, ConcatEmptySeq, ConcatElements
  <2> QED
    BY <1>1, <1>2, <2>1 DEF Queue
<1>6. InOrder(Queue(h))
  BY <1>1 DEF Ordered
<1>7. InOrder(Queue(h))'
  BY <1>1, <1>5, <1>6 DEF InOrder
<1> QED
  BY <1>1, <1>3, <1>7 DEF Ordered

\* A batch that is mined leaves the queue as it is.
LEMMA OrderedConfirmed ==
    ASSUME Typed, Flagged, Ordered, NEW h \in Handlers, Confirmed(h)
    PROVE  Ordered'
<1>1. onChain' = onChain \o flight[h] /\ buffer' = buffer /\ lost' = lost /\ accepted' = accepted
  BY DEF Confirmed
<1>2. Sending(h) /\ InOrder(Queue(h))
  BY DEF Confirmed, Sending, Ordered
<1>3. \A g \in Handlers : flight'[g] = << >>
  BY <1>2 DEF Confirmed, StopsSending, Typed, TypeOK, Flagged, SendFlagOwned
<1>4. onChain \o flight[h] \in Seq(Nat) /\ Elements(onChain') \subseteq 1 .. accepted
  BY <1>1, QueueElements DEF Typed, Numbered, Ordered
<1>5. ASSUME NEW g \in Handlers PROVE InOrder(Queue(g))'
  <2>1. Queue(g)' = Queue(h)
    <3>1. (onChain \o flight[h]) \o << >> = onChain \o flight[h]
      BY <1>4, ConcatEmptySeq
    <3> QED
      BY <1>1, <1>3, <3>1 DEF Queue
  <2> QED
    BY <1>1, <1>2, <2>1 DEF InOrder
<1> QED
  BY <1>1, <1>4, <1>5 DEF Ordered

\* Leaving out the batch in the middle, or everything after it, keeps the
\* order; what is left out is given up.
LEMMA InOrderWithout ==
    ASSUME NEW a \in Seq(Nat), NEW b \in Seq(Nat), NEW c \in Seq(Nat),
           Increasing(a \o b \o c)
    PROVE  /\ Increasing(a) /\ Increasing(a \o b) /\ Increasing(a \o c)
           /\ Elements(a) \cap Elements(b) = {}
           /\ Elements(a) \cap Elements(c) = {}
           /\ Elements(b) \cap Elements(c) = {}
<1>1. a \o b \in Seq(Nat) /\ Elements(a \o b) = Elements(a) \cup Elements(b)
  BY ConcatElements
<1>2. Increasing(a \o b) /\ Increasing(c) /\ Below(a \o b, c)
  BY <1>1, ConcatIncreasing
<1>3. Increasing(a) /\ Below(a, b)
  BY <1>2, ConcatIncreasing
<1>4. Below(a, c) /\ Below(b, c)
  BY <1>1, <1>2 DEF Below
<1>5. Increasing(a \o c)
  BY <1>2, <1>3, <1>4, ConcatIncreasing
<1>6. Elements(a) \subseteq Nat /\ Elements(b) \subseteq Nat /\ Elements(c) \subseteq Nat
  BY DEF Elements
<1> QED
  BY <1>2, <1>3, <1>4, <1>5, <1>6 DEF Below

LEMMA OrderedSendFails ==
    ASSUME Typed, Flagged, Ordered, NEW h \in Handlers, SendFails(h)
    PROVE  Ordered'
<1>1. /\ onChain' = onChain /\ buffer' = buffer /\ accepted' = accepted
      /\ lost' = lost \cup Elements(flight[h])
  BY DEF SendFails
<1>2. Sending(h) /\ InOrder(Queue(h))
  BY DEF SendFails, Ordered
<1>3. \A g \in Handlers : flight'[g] = << >>
  BY <1>2 DEF SendFails, StopsSending, Typed, TypeOK, Flagged, SendFlagOwned
<1>4. onChain \in Seq(Nat) /\ flight[h] \in Seq(Nat) /\ buffer \in Seq(Nat)
  BY DEF Typed, TypeOK
<1>5. /\ Increasing(onChain \o buffer)
      /\ Elements(flight[h]) \cap Elements(onChain) = {}
      /\ Elements(flight[h]) \cap Elements(buffer) = {}
  BY <1>2, <1>4, InOrderWithout DEF InOrder, Queue
<1>6. Elements(onChain \o buffer) = Elements(onChain) \cup Elements(buffer)
  BY <1>4, ConcatElements
<1>7. \A n \in 1 .. accepted : n \in lost' <=> n \notin Elements(onChain \o buffer)
  BY <1>1, <1>2, <1>5, <1>6, QueueElements DEF InOrder
<1>8. ASSUME NEW g \in Handlers PROVE InOrder(Queue(g))'
  <2>1. Queue(g)' = onChain \o buffer
    <3>1. onChain \o << >> = onChain
      BY <1>4, ConcatEmptySeq
    <3> QED
      BY <1>1, <1>3, <3>1 DEF Queue
  <2> QED
    BY <1>1, <1>5, <1>7, <2>1 DEF InOrder
<1> QED
  BY <1>1, <1>8 DEF Ordered

\* A restart gives up what is not on chain by then.
LEMMA OrderedCrash ==
    ASSUME Typed, Flagged, Ordered, Crash
    PROVE  Ordered'
<1>1. /\ accepted' = accepted /\ buffer' = << >>
      /\ \A h \in Handlers : flight'[h] = << >>
  BY DEF Crash
<1>2. onChain \in Seq(Nat) /\ buffer \in Seq(Nat) /\ \A h \in Handlers : flight[h] \in Seq(Nat)
  BY DEF Typed, TypeOK
<1>0. CASE Handlers = {}
  BY <1>0, <1>1 DEF Crash, NothingMined, Ordered
<1> SUFFICES ASSUME Handlers # {} PROVE Ordered'
  BY <1>0
<1>3. PICK g \in Handlers : Sending(g) \/ ~isSending
  BY DEF Flagged, SendFlagOwned
<1> DEFINE others == UNION { Elements(flight[h]) : h \in Handlers }
<1>4. others = Elements(flight[g])
  <2>1. ASSUME NEW h \in Handlers, h # g PROVE Elements(flight[h]) = {}
    <3>1. flight[h] = << >>
      BY <1>3, <2>1 DEF Flagged, SendFlagOwned
    <3> QED
      BY <3>1 DEF Elements
  <2> QED
    BY <2>1
<1>5. InOrder(Queue(g))
  BY <1>3 DEF Ordered
<1>6. /\ Increasing(onChain) /\ Increasing(onChain \o flight[g])
      /\ Elements(onChain) \cap Elements(flight[g]) = {}
      /\ Elements(onChain) \cap Elements(buffer) = {}
      /\ Elements(flight[g]) \cap Elements(buffer) = {}
  BY <1>2, <1>5, InOrderWithout DEF InOrder, Queue
<1>7. \A n \in 1 .. accepted :
          n \in lost <=> n \notin Elements(onChain) \cup Elements(flight[g]) \cup Elements(buffer)
  BY <1>5, QueueElements DEF InOrder
<1>8. onChain' \in Seq(Nat) /\ InOrder(onChain)' /\ Elements(onChain') \subseteq 1 .. accepted
  <2>1. CASE NothingMined
    <3>1. onChain' = onChain /\ lost' = lost \cup Elements(buffer) \cup others
      BY <2>1 DEF NothingMined
    <3>2. \A n \in 1 .. accepted : n \in lost' <=> n \notin Elements(onChain)
      BY <1>4, <1>6, <1>7, <3>1
    <3> QED
      BY <1>1, <1>2, <1>6, <3>1, <3>2 DEF InOrder, Ordered
  <2>2. ASSUME NEW h \in Handlers, MinedAnyway(h)
        PROVE  onChain' \in Seq(Nat) /\ InOrder(onChain)' /\ Elements(onChain') \subseteq 1 .. accepted
    <3>1. h = g
      BY <1>3, <2>2 DEF MinedAnyway, Flagged, SendFlagOwned, Sending
    <3>2. onChain' = onChain \o flight[g] /\ lost' = lost \cup Elements(buffer)
      BY <2>2, <3>1 DEF MinedAnyway
    <3>3. onChain' \in Seq(Nat) /\ Elements(onChain') = Elements(onChain) \cup Elements(flight[g])
      BY <3>2, QueueElements
    <3>4. \A n \in 1 .. accepted : n \in lost' <=> n \notin Elements(onChain')
      BY <1>6, <1>7, <3>2, <3>3
    <3>5. Increasing(onChain')
      BY <1>6, <3>2
    <3>6. Elements(onChain') \subseteq 1 .. accepted
      BY <3>3 DEF Typed, Numbered, Ordered
    <3> QED
      BY <1>1, <3>3, <3>4, <3>5, <3>6 DEF InOrder
  <2> QED
    BY <2>1, <2>2 DEF Crash
<1>9. ASSUME NEW h \in Handlers PROVE InOrder(Queue(h))'
  <2>1. Queue(h)' = onChain'
    <3>1. onChain' \o << >> = onChain'
      BY <1>8, ConcatEmptySeq
    <3> QED
      BY <1>1, <3>1 DEF Queue
  <2> QED
    BY <1>8, <2>1 DEF InOrder
<1> QED
  BY <1>1, <1>8, <1>9 DEF Ordered

\* Nothing is on chain, in flight or buffered at first.
LEMMA OrderedInit == Init => Ordered
<1> SUFFICES ASSUME Init PROVE Ordered
  OBVIOUS
<1>1. onChain = << >> /\ buffer = << >> /\ accepted = 0 /\ \A h \in Handlers : flight[h] = << >>
  BY DEF Init
<1>2. << >> \o << >> = << >> /\ DOMAIN << >> = {}
  OBVIOUS
<1>3. \A h \in Handlers : Queue(h) = << >>
  BY <1>1, <1>2 DEF Queue
<1> QED
  BY <1>1, <1>2, <1>3 DEF Ordered, InOrder, Increasing, Elements

\* Every other step leaves the queues alone.
LEMMA OrderedElsewhere ==
    ASSUME Typed, Ordered, Elsewhere \/ (UNCHANGED vars) \/ (\E h \in Handlers : Accepted(h))
    PROVE  Ordered'
<1>1. UNCHANGED << buffer, isSending, onChain, flight, accepted, lost >>
  BY DEF Elsewhere, vars, sending, Accepted
<1>2. \A h \in Handlers : Sending(h)' <=> Sending(h)
  <2>1. CASE Elsewhere
    BY <2>1 DEF Elsewhere
  <2>2. CASE UNCHANGED vars
    BY <2>2 DEF vars, Sending
  <2>3. ASSUME NEW h \in Handlers, Accepted(h) PROVE \A g \in Handlers : Sending(g)' <=> Sending(g)
    BY <2>3 DEF Accepted, Goto, Typed, TypeOK, Sending
  <2> QED
    BY <2>1, <2>2, <2>3
<1> QED
  BY <1>1, <1>2 DEF Ordered, InOrder, Queue

LEMMA OrderedStep == Typed /\ Flagged /\ Ordered /\ [Next]_vars => Ordered'
<1> SUFFICES ASSUME Typed, Flagged, Ordered, [Next]_vars PROVE Ordered'
  OBVIOUS
<1> QED
  BY IdentityElsewhere, OrderedElsewhere, OrderedBatch, OrderedStartSending, OrderedConfirmed,
     OrderedSendFails, OrderedCrash DEF Next

\* Actions get on chain once and in the order of the answers, and those that
\* do not are the ones of failed batches and of restarts: for any batch size,
\* any number of requests and any restarts.
THEOREM ActionsAlwaysInOrder == Spec => []ActionsSentInOrder
<1>1. Init => Typed /\ Flagged /\ Ordered
  BY TypeInit, FlaggedInit, OrderedInit
<1>2. Typed /\ Flagged /\ Ordered /\ [Next]_vars => Typed' /\ Flagged' /\ Ordered'
  BY TypeStep, FlaggedStep, OrderedStep
<1>3. Ordered => ActionsSentInOrder
  BY DEF Ordered, InOrder, Queue, Increasing, Elements, ActionsSentInOrder
<1> QED
  BY <1>1, <1>2, <1>3, PTL DEF Spec

-----------------------------------------------------------------------------
(* Identity requests one at a time *)

\* A DID is in one list of d at most, and once in it; the lists are by type.
OnceEach(d) ==
    /\ Distinct(d.operators) /\ Distinct(d.machines) /\ Distinct(d.pending)
    /\ Elements(d.operators) \subseteq Operators /\ Elements(d.machines) \subseteq Machines
    /\ Elements(d.pending) \cap Listed(d) = {}

Everyone(d) == Listed(d) \cup Elements(d.pending)

\* A request about identities is under way.
Busy(h) == ~Idle(h) /\ ~Sending(h)

\* What makes IdentityKept inductive: one such request at most is under way, so the
\* lists it has computed are made of those that are in the file, a DID being
\* registered is in no list yet, and one being approved is still pending.
Kept ==
    /\ \A g, h \in Handlers : Busy(g) /\ Busy(h) => g = h
    /\ OnceEach(db) /\ Everyone(db) \subseteq created
    /\ registered \subseteq Everyone(db) /\ approved \subseteq Listed(db)
    /\ \A h \in Handlers : pc[h] = "register" => about[h] \in created \ Everyone(db)
    /\ \A h \in Handlers : pc[h] = "state" => about[h] \in Elements(db.pending) /\ held[h].db = Moved(about[h])
    /\ \A h \in Handlers : pc[h] = "mirror" => held[h].db = db /\ about[h] \in Everyone(db)
    /\ ~missed /\ (\A h \in Handlers : pc[h] # "mirror") => mirrorDB = db

LEMMA KeptInit == Init => Kept
<1>1. Elements(<< >>) = {} /\ Distinct(<< >>)
  BY DEF Elements, Distinct
<1>2. OnceEach(NoDB) /\ Everyone(NoDB) = {}
  BY <1>1, EmptyLists DEF OnceEach, Everyone, NoDB
<1> QED
  BY <1>2 DEF Init, Kept, Busy, Idle

\* A registration puts its DID, which no list had, into pending.
LEMMA RegisteredOnce ==
    ASSUME db \in DB, OnceEach(db), NEW did \in Dids, did \notin Everyone(db)
    PROVE  /\ OnceEach(WithPending(did))
           /\ Listed(WithPending(did)) = Listed(db)
           /\ Everyone(WithPending(did)) = Everyone(db) \cup {did}
<1> DEFINE more == Append(db.pending, did)
<1>1. db.pending \in Seq(Dids)
  BY DEF DB
<1>2. Elements(more) = Elements(db.pending) \cup {did} /\ Distinct(more)
  BY <1>1, AppendElements DEF OnceEach, Everyone
<1>3. WithPending(did) = [db EXCEPT !.pending = more]
  BY DEF WithPending
<1> HIDE DEF more
<1>4. /\ WithPending(did).operators = db.operators /\ WithPending(did).machines = db.machines
      /\ WithPending(did).pending = more
  BY <1>3 DEF DB
<1>5. Listed(WithPending(did)) = Listed(db)
  BY <1>4 DEF Listed
<1> QED
  BY <1>2, <1>4, <1>5 DEF OnceEach, Everyone

\* An approval takes its DID out of pending and puts it into the list of its type.
LEMMA ApprovedOnce ==
    ASSUME db \in DB, OnceEach(db), NEW did \in Dids, did \in Elements(db.pending)
    PROVE  /\ OnceEach(Moved(did))
           /\ Listed(Moved(did)) = Listed(db) \cup {did}
           /\ Everyone(Moved(did)) = Everyone(db)
<1> DEFINE rest == Without(db.pending, IndexOf(db.pending, did))
           ops == IF did \in Operators THEN Append(db.operators, did) ELSE db.operators
           macs == IF did \in Machines THEN Append(db.machines, did) ELSE db.machines
<1>1. db.operators \in Seq(Dids) /\ db.machines \in Seq(Dids) /\ db.pending \in Seq(Dids)
  BY DEF DB
<1>2. IndexOf(db.pending, did) \in 1 .. Len(db.pending) /\ db.pending[IndexOf(db.pending, did)] = did
  BY <1>1, IndexOfElement
<1>3. Distinct(rest) /\ Elements(rest) = Elements(db.pending) \ {did}
  BY <1>1, <1>2, WithoutDistinct DEF OnceEach
<1>4. did \notin Elements(db.operators) /\ did \notin Elements(db.machines)
  BY DEF OnceEach, Listed
<1>5. /\ Distinct(ops)
      /\ Elements(ops) = Elements(db.operators) \cup (IF did \in Operators THEN {did} ELSE {})
  BY <1>1, <1>4, AppendElements DEF OnceEach
<1>6. /\ Distinct(macs)
      /\ Elements(macs) = Elements(db.machines) \cup (IF did \in Machines THEN {did} ELSE {})
  BY <1>1, <1>4, AppendElements DEF OnceEach
<1>7. Moved(did) = [db EXCEPT !.pending = rest, !.operators = ops, !.machines = macs]
  BY DEF Moved
<1> HIDE DEF ops, macs, rest
<1>8. Moved(did).operators = ops /\ Moved(did).machines = macs /\ Moved(did).pending = rest
  BY <1>7 DEF DB
<1>9. Listed(Moved(did)) = Listed(db) \cup {did}
  BY <1>5, <1>6, <1>8 DEF Listed, Dids
<1>10. OnceEach(Moved(did))
  <2>1. Elements(ops) \subseteq Operators /\ Elements(macs) \subseteq Machines
    BY <1>5, <1>6 DEF OnceEach
  <2>2. Elements(rest) \cap (Listed(db) \cup {did}) = {}
    BY <1>3 DEF OnceEach
  <2> QED
    BY <1>3, <1>5, <1>6, <1>8, <1>9, <2>1, <2>2 DEF OnceEach
<1>11. Everyone(Moved(did)) = Everyone(db)
  BY <1>3, <1>8, <1>9 DEF Everyone
<1> QED
  BY <1>9, <1>10, <1>11

\* Who starts or continues an identity request is the only one.
LEMMA OthersQuiet ==
    ASSUME Kept, ~overlap, NEW h \in Handlers, MayStart(h) \/ Busy(h)
    PROVE  \A g \in Handlers \ {h} : ~Busy(g)
  BY DEF Kept, MayStart, Busy

\* A step of the only identity request, by what holds after it.
LEMMA KeptAlone ==
    ASSUME Typed, NEW h \in Handlers,
           \A g \in Handlers \ {h} : ~Busy(g) /\ pc'[g] = pc[g],
           OnceEach(db'), Everyone(db') \subseteq created',
           registered' \subseteq Everyone(db'), approved' \subseteq Listed(db'),
           pc'[h] = "register" => about'[h] \in created' \ Everyone(db'),
           pc'[h] = "state" => about'[h] \in Elements(db'.pending) /\ held'[h].db = Moved(about[h])',
           pc'[h] = "mirror" => held'[h].db = db' /\ about'[h] \in Everyone(db'),
           ~missed' /\ pc'[h] # "mirror" => mirrorDB' = db'
    PROVE  Kept'
<1>1. \A g \in Handlers \ {h} : pc'[g] \in {"idle", "send", "wait"}
  BY DEF Busy, Idle, Sending
<1>2. \A g \in Handlers : Busy(g)' => g = h
  BY <1>1 DEF Busy, Idle, Sending
<1>3. \A g \in Handlers : pc'[g] \in {"register", "state", "mirror"} => g = h
  BY <1>1
<1>4. ~missed' /\ (\A g \in Handlers : pc'[g] # "mirror") => mirrorDB' = db'
  OBVIOUS
<1>5. \A g \in Handlers : pc'[g] = "state" =>
          about'[g] \in Elements(db'.pending) /\ held'[g].db = Moved(about[g])'
  BY <1>3
<1> QED
  BY <1>2, <1>3, <1>4, <1>5 DEF Kept

LEMMA KeptCreateDid ==
    ASSUME Typed, Kept, ~overlap, NEW h \in Handlers, NEW did \in Dids, CreateDid(h, did)
    PROVE  Kept'
<1>1. MayStart(h) /\ pc' = [pc EXCEPT ![h] = "register"]
  BY DEF CreateDid, Goto
<1>2. \A g \in Handlers \ {h} : ~Busy(g) /\ pc'[g] = pc[g]
  BY <1>1, OthersQuiet DEF Typed, TypeOK
<1>3. pc'[h] = "register" /\ about'[h] = did
  BY <1>1 DEF Typed, TypeOK, CreateDid
<1>4. /\ db' = db /\ registered' = registered /\ approved' = approved
      /\ created' = created \cup {did} /\ mirrorDB' = mirrorDB /\ missed' = missed
  BY DEF CreateDid, files, mirrors
<1>5. did \in created' \ Everyone(db')
  BY <1>4 DEF CreateDid, Kept
<1>6. pc[h] # "mirror"
  BY <1>1 DEF MayStart, Idle
<1>7. ~missed' => mirrorDB' = db'
  <2>1. \A g \in Handlers : pc[g] # "mirror"
    BY <1>2, <1>6 DEF Busy, Idle, Sending
  <2> QED
    BY <1>4, <2>1 DEF Kept
<1>8. OnceEach(db') /\ Everyone(db') \subseteq created' /\ registered' \subseteq Everyone(db')
      /\ approved' \subseteq Listed(db')
  BY <1>4 DEF Kept
<1> QED
  BY <1>2, <1>3, <1>5, <1>7, <1>8, KeptAlone

LEMMA KeptSaveRegistration ==
    ASSUME Typed, Kept, ~overlap, NEW h \in Handlers, SaveRegistration(h)
    PROVE  Kept'
<1> DEFINE did == about[h]
<1>1. /\ Busy(h) /\ pc' = [pc EXCEPT ![h] = "mirror"]
      /\ did \in Dids /\ db \in DB
  BY DEF SaveRegistration, Goto, Busy, Idle, Sending, Typed, TypeOK, AboutTyped
<1>2. \A g \in Handlers \ {h} : ~Busy(g) /\ pc'[g] = pc[g]
  BY <1>1, OthersQuiet DEF Typed, TypeOK
<1>3. did \in created \ Everyone(db)
  BY DEF Kept, SaveRegistration
<1>4. /\ db' = WithPending(did) /\ registered' = registered /\ approved' = approved
      /\ created' = created /\ about' = about
  BY DEF SaveRegistration, dids
<1>5. /\ OnceEach(db') /\ Listed(db') = Listed(db)
      /\ Everyone(db') = Everyone(db) \cup {did}
  BY <1>1, <1>3, <1>4, RegisteredOnce DEF Kept
<1>6. pc'[h] = "mirror" /\ held'[h].db = db'
  BY <1>1 DEF Typed, TypeOK, SaveRegistration
<1>7. Everyone(db') \subseteq created' /\ registered' \subseteq Everyone(db') /\ approved' \subseteq Listed(db')
  BY <1>3, <1>4, <1>5 DEF Kept
<1> QED
  BY <1>2, <1>4, <1>5, <1>6, <1>7, KeptAlone

LEMMA KeptMirrorAndAnswer ==
    ASSUME Typed, Kept, ~overlap, NEW h \in Handlers, MirrorAndAnswer(h)
    PROVE  Kept'
<1>1. Busy(h) /\ pc' = [pc EXCEPT ![h] = "idle"]
  BY DEF MirrorAndAnswer, Answers, Goto, Busy, Idle, Sending
<1>2. \A g \in Handlers \ {h} : ~Busy(g) /\ pc'[g] = pc[g]
  BY <1>1, OthersQuiet DEF Typed, TypeOK
<1>3. held[h].db = db /\ about[h] \in Everyone(db)
  BY DEF Kept, MirrorAndAnswer
<1>4. db' = db /\ created' = created
  BY DEF MirrorAndAnswer, files
<1>5. pc'[h] = "idle"
  BY <1>1 DEF Typed, TypeOK
<1>6. ~missed' => mirrorDB' = db'
  BY <1>3, <1>4 DEF MirrorAndAnswer
<1>7. registered' \subseteq Everyone(db') /\ approved' \subseteq Listed(db')
  BY <1>3, <1>4 DEF MirrorAndAnswer, Kept, Everyone
<1>8. OnceEach(db') /\ Everyone(db') \subseteq created'
  BY <1>4 DEF Kept
<1> QED
  BY <1>2, <1>5, <1>6, <1>7, <1>8, KeptAlone

LEMMA KeptApprove ==
    ASSUME Typed, Kept, ~overlap, NEW h \in Handlers, NEW did \in Dids, Approve(h, did)
    PROVE  Kept'
<1>1. /\ MayStart(h) /\ db \in DB /\ did \in Elements(db.pending)
      /\ pc' = [pc EXCEPT ![h] = "state"] \/ pc' = [pc EXCEPT ![h] = "mirror"]
  BY DEF Approve, ApproveNew, ApproveAgain, Goto, Typed, TypeOK
<1>2. \A g \in Handlers \ {h} : ~Busy(g) /\ pc'[g] = pc[g]
  BY <1>1, OthersQuiet DEF Typed, TypeOK
<1>3. /\ OnceEach(Moved(did)) /\ Listed(Moved(did)) = Listed(db) \cup {did}
      /\ Everyone(Moved(did)) = Everyone(db)
  BY <1>1, ApprovedOnce DEF Kept
<1>4. /\ registered' = registered /\ approved' = approved /\ created' = created
      /\ about'[h] = did /\ mirrorDB' = mirrorDB /\ missed' = missed
  BY DEF Approve, mirrors, dids, Typed, TypeOK
<1>5. did \in Everyone(db)
  BY <1>1 DEF Everyone
<1>6. CASE ApproveNew(h, did)
  <2>1. db' = db
    BY <1>6 DEF ApproveNew, files
  <2>2. pc'[h] = "state" /\ held'[h].db = Moved(did)
    BY <1>6 DEF ApproveNew, Goto, Typed, TypeOK
  <2>3. Moved(about[h])' = Moved(did)
    BY <1>4, <2>1 DEF Moved
  <2>4. \A g \in Handlers : pc[g] # "mirror"
    BY <1>1, <1>2 DEF MayStart, Busy, Idle, Sending
  <2>5. ~missed' => mirrorDB' = db'
    BY <1>4, <2>1, <2>4 DEF Kept
  <2>6. /\ OnceEach(db') /\ Everyone(db') \subseteq created'
        /\ registered' \subseteq Everyone(db') /\ approved' \subseteq Listed(db')
    BY <1>4, <2>1 DEF Kept
  <2> QED
    BY <1>1, <1>2, <1>4, <2>1, <2>2, <2>3, <2>5, <2>6, KeptAlone
<1>7. CASE ApproveAgain(h, did)
  <2>1. db' = Moved(did)
    BY <1>7 DEF ApproveAgain
  <2>2. pc'[h] = "mirror" /\ held'[h].db = db'
    BY <1>7 DEF ApproveAgain, Goto, Typed, TypeOK
  <2>3. /\ OnceEach(db') /\ Everyone(db') \subseteq created'
        /\ registered' \subseteq Everyone(db') /\ approved' \subseteq Listed(db')
    BY <1>3, <1>4, <2>1 DEF Kept
  <2> QED
    BY <1>2, <1>3, <1>4, <1>5, <2>1, <2>2, <2>3, KeptAlone
<1> QED
  BY <1>6, <1>7 DEF Approve

LEMMA KeptSaveApproval ==
    ASSUME Typed, Kept, ~overlap, NEW h \in Handlers, SaveApproval(h)
    PROVE  Kept'
<1> DEFINE did == about[h]
<1>1. /\ Busy(h) /\ pc' = [pc EXCEPT ![h] = "mirror"]
      /\ did \in Dids /\ db \in DB
  BY DEF SaveApproval, Goto, Busy, Idle, Sending, Typed, TypeOK, AboutTyped
<1>2. \A g \in Handlers \ {h} : ~Busy(g) /\ pc'[g] = pc[g]
  BY <1>1, OthersQuiet DEF Typed, TypeOK
<1>3. did \in Elements(db.pending) /\ held[h].db = Moved(did)
  BY DEF Kept, SaveApproval
<1>4. /\ db' = Moved(did) /\ registered' = registered /\ approved' = approved
      /\ created' = created /\ about' = about /\ held' = held
  BY <1>3 DEF SaveApproval, dids
<1>5. /\ OnceEach(db') /\ Listed(db') = Listed(db) \cup {did} /\ Everyone(db') = Everyone(db)
  BY <1>1, <1>3, <1>4, ApprovedOnce DEF Kept
<1>6. pc'[h] = "mirror" /\ held'[h].db = db'
  BY <1>1, <1>3, <1>4 DEF Typed, TypeOK
<1>7. did \in Everyone(db')
  BY <1>3, <1>5 DEF Everyone
<1>8. Everyone(db') \subseteq created' /\ registered' \subseteq Everyone(db') /\ approved' \subseteq Listed(db')
  BY <1>4, <1>5 DEF Kept
<1> QED
  BY <1>2, <1>4, <1>5, <1>6, <1>7, <1>8, KeptAlone

LEMMA KeptPermits ==
    ASSUME Typed, Kept, ~overlap, NEW h \in Handlers,
           \/ \E operator \in Operators, machine \in Machines : IssuePermit(h, operator, machine)
           \/ SavePermit(h)
    PROVE  Kept'
<1>1. /\ MayStart(h) \/ Busy(h)
      /\ pc' = [pc EXCEPT ![h] = "permit"] \/ pc' = [pc EXCEPT ![h] = "idle"]
      /\ pc[h] # "mirror"
  BY DEF IssuePermit, SavePermit, Answers, Goto, MayStart, Busy, Idle, Sending
<1>2. \A g \in Handlers \ {h} : ~Busy(g) /\ pc'[g] = pc[g]
  BY <1>1, OthersQuiet DEF Typed, TypeOK
<1>3. pc'[h] = "permit" \/ pc'[h] = "idle"
  BY <1>1 DEF Typed, TypeOK
<1>4. /\ db' = db /\ registered' = registered /\ approved' = approved /\ created' = created
      /\ mirrorDB' = mirrorDB /\ missed' = missed
  BY DEF IssuePermit, SavePermit, files, mirrors, dids
<1>5. \A g \in Handlers : pc[g] # "mirror"
  BY <1>1, <1>2 DEF Busy, Idle, Sending
<1>6. ~missed' => mirrorDB' = db'
  BY <1>4, <1>5 DEF Kept
<1>7. /\ OnceEach(db') /\ Everyone(db') \subseteq created'
      /\ registered' \subseteq Everyone(db') /\ approved' \subseteq Listed(db')
  BY <1>4 DEF Kept
<1> QED
  BY <1>2, <1>3, <1>6, <1>7, KeptAlone

\* The lists stay, and so does every identity request.
LEMMA KeptElsewhere ==
    ASSUME Typed, Kept,
           UNCHANGED << db, mirrorDB, missed, dids >>,
           \A g \in Handlers : pc'[g] = pc[g] \/ (~Busy(g) /\ pc'[g] \in {"idle", "send", "wait"}),
           \A g \in Handlers : Busy(g) => about'[g] = about[g] /\ held'[g] = held[g]
    PROVE  Kept'
<1>1. \A g \in Handlers : Busy(g)' => Busy(g) /\ pc'[g] = pc[g]
  BY DEF Busy, Idle, Sending
<1>2. \A g \in Handlers : pc'[g] \in {"register", "state", "mirror"} =>
          pc'[g] = pc[g] /\ about'[g] = about[g] /\ held'[g] = held[g]
  BY <1>1 DEF Busy, Idle, Sending
<1>3. \A g \in Handlers : pc[g] = "mirror" => pc'[g] = "mirror"
  BY DEF Busy, Idle, Sending
<1>4. \A g \in Handlers : pc'[g] = "state" =>
          about'[g] \in Elements(db'.pending) /\ held'[g].db = Moved(about[g])'
  <2> SUFFICES ASSUME NEW g \in Handlers, pc'[g] = "state"
               PROVE  about'[g] \in Elements(db'.pending) /\ held'[g].db = Moved(about[g])'
    OBVIOUS
  <2>1. pc[g] = "state" /\ about'[g] = about[g] /\ held'[g] = held[g] /\ db' = db
    BY <1>2
  <2>2. about[g] \in Elements(db.pending) /\ held[g].db = Moved(about[g])
    BY <2>1 DEF Kept
  <2>3. Moved(about[g])' = Moved(about[g])
    BY <2>1 DEF Moved
  <2> QED
    BY <2>1, <2>2, <2>3
<1>5. ~missed' /\ (\A g \in Handlers : pc'[g] # "mirror") => mirrorDB' = db'
  BY <1>3 DEF Kept
<1>6. \A g \in Handlers : pc'[g] = "register" => about'[g] \in created' \ Everyone(db')
  BY <1>2 DEF Kept, dids
<1>7. \A g \in Handlers : pc'[g] = "mirror" => held'[g].db = db' /\ about'[g] \in Everyone(db')
  <2> SUFFICES ASSUME NEW g \in Handlers, pc'[g] = "mirror"
               PROVE  held'[g].db = db' /\ about'[g] \in Everyone(db')
    OBVIOUS
  <2>1. pc[g] = "mirror" /\ about'[g] = about[g] /\ held'[g] = held[g] /\ db' = db
    BY <1>2
  <2>2. held[g].db = db /\ about[g] \in Everyone(db)
    BY <2>1 DEF Kept
  <2> QED
    BY <2>1, <2>2
<1>8. /\ \A g, h \in Handlers : Busy(g)' /\ Busy(h)' => g = h
      /\ OnceEach(db') /\ Everyone(db') \subseteq created'
      /\ registered' \subseteq Everyone(db') /\ approved' \subseteq Listed(db')
  BY <1>1 DEF Kept, dids
<1> QED
  BY <1>4, <1>5, <1>6, <1>7, <1>8 DEF Kept

LEMMA KeptSending ==
    ASSUME Typed, Kept, NEW h \in Handlers,
           StartSending(h) \/ Accepted(h) \/ Confirmed(h) \/ SendFails(h)
    PROVE  Kept'
<1>1. /\ ~Busy(h)
      /\ \E step \in {"idle", "send", "wait"} : pc' = [pc EXCEPT ![h] = step]
  BY DEF StartSending, Accepted, Confirmed, SendFails, StopsSending, Answers, Goto, Busy, Idle, Sending
<1>2. \A g \in Handlers \ {h} : about'[g] = about[g] /\ held'[g] = held[g]
  BY DEF StartSending, Accepted, Confirmed, SendFails, StopsSending, Answers, Typed, TypeOK
<1>3. UNCHANGED << db, mirrorDB, missed, dids >>
  BY DEF StartSending, Accepted, Confirmed, SendFails, files, mirrors
<1>4. \A g \in Handlers : pc'[g] = pc[g] \/ (~Busy(g) /\ pc'[g] \in {"idle", "send", "wait"})
  BY <1>1 DEF Typed, TypeOK
<1> QED
  BY <1>1, <1>2, <1>3, <1>4, KeptElsewhere

\* A restart drops the request that was under way, wherever it was: what it had
\* written stays, and a mirroring it had not done counts as missed.
LEMMA KeptCrash == ASSUME Kept, Crash PROVE Kept'
<1>1. \A g \in Handlers : pc'[g] = "idle"
  BY DEF Crash
<1>2. /\ db' = db /\ mirrorDB' = mirrorDB
      /\ registered' = registered /\ approved' = approved /\ created' = created
  BY DEF Crash, files, dids
<1>3. ~missed' => mirrorDB' = db'
  BY <1>2 DEF Crash, Kept
<1>4. \A g \in Handlers : ~Busy(g)'
  BY <1>1 DEF Busy, Idle
<1> QED
  BY <1>1, <1>2, <1>3, <1>4 DEF Kept

LEMMA KeptStep == Typed /\ (~overlap => Kept) /\ [Next]_vars => (~overlap => Kept)'
<1> SUFFICES ASSUME Typed, Kept, ~overlap, [Next]_vars PROVE Kept'
  <2>1. [Next]_vars => overlap' = overlap
    BY DEF Next, vars, CreateDid, SaveRegistration, MirrorAndAnswer, Approve, SaveApproval,
           IssuePermit, SavePermit, Batch, StartSending, Accepted, Confirmed, SendFails, Crash
  <2> QED
    BY <2>1
<1>1. CASE UNCHANGED vars
  BY <1>1, KeptElsewhere DEF vars, files, mirrors
<1>2. CASE Batch
  BY <1>2, KeptElsewhere DEF Batch, files, mirrors
<1>3. CASE Next /\ ~Batch
  BY <1>3, KeptCreateDid, KeptSaveRegistration, KeptMirrorAndAnswer, KeptApprove, KeptSaveApproval,
     KeptPermits, KeptSending, KeptCrash DEF Next
<1> QED
  BY <1>1, <1>2, <1>3

\* A DID that is listed once has one place.
LEMMA OnePlace ==
    ASSUME db \in DB, OnceEach(db), NEW did \in Everyone(db)
    PROVE  \E place \in Places(did) : Places(did) = {place}
<1>1. /\ \A place \in Places(did) : \E list \in ListNames : \E i \in DOMAIN db[list] :
             db[list][i] = did /\ place = << list, i >>
      /\ \A list \in ListNames : \A i \in DOMAIN db[list] :
             db[list][i] = did => << list, i >> \in Places(did)
  BY DEF Places
<1>2. \A list \in ListNames : Distinct(db[list])
  BY DEF ListNames, OnceEach
<1>3. \A list, other \in ListNames :
          did \in Elements(db[list]) /\ did \in Elements(db[other]) => list = other
  BY DidsAssumption DEF ListNames, OnceEach, Listed
<1>4. PICK list \in ListNames : did \in Elements(db[list])
  BY DEF Everyone, Listed, ListNames
<1>5. PICK i \in DOMAIN db[list] : db[list][i] = did
  BY <1>4 DEF Elements
<1>6. ASSUME NEW place \in Places(did) PROVE place = << list, i >>
  <2>1. PICK other \in ListNames : \E j \in DOMAIN db[other] :
            db[other][j] = did /\ place = << other, j >>
    BY <1>1
  <2>2. other = list
    BY <1>3, <1>4, <2>1 DEF Elements
  <2> QED
    BY <1>2, <1>5, <2>1, <2>2 DEF Distinct
<1>7. << list, i >> \in Places(did)
  BY <1>1, <1>5
<1>8. Places(did) = {<< list, i >>}
  BY <1>6, <1>7
<1> QED
  BY <1>7, <1>8

\* While identity requests wait for each other, a registered DID is in one list, once,
\* an approved one is not pending, and MongoDB has the lists of the file unless a
\* mirroring is under way or was missed: after any restarts.
THEOREM IdentityAlwaysKept == Spec => []IdentityKept
<1>1. Init => Typed /\ (~overlap => Kept)
  BY TypeInit, KeptInit
<1>2. Typed /\ (~overlap => Kept) /\ [Next]_vars => Typed' /\ (~overlap => Kept)'
  BY TypeStep, KeptStep
<1>3. Typed /\ (~overlap => Kept) => IdentityKept
  <2> SUFFICES ASSUME Typed, Kept PROVE IdentityKept
    BY DEF IdentityKept
  <2>1. \A did \in registered : \E place \in Places(did) : Places(did) = {place}
    BY OnePlace DEF Kept, Typed, TypeOK
  <2>2. \A did \in approved : did \notin Elements(db.pending)
    BY DEF Kept, OnceEach
  <2> QED
    BY <2>1, <2>2 DEF Kept, IdentityKept, Elements
<1> QED
  BY <1>1, <1>2, <1>3, PTL DEF Spec

=============================================================================
