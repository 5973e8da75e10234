------------------------------- MODULE Gateway -------------------------------
(***************************************************************************)
(* The prototype gateway, src/src/server.js: one process that keeps        *)
(* identities in two JSON files mirrored to MongoDB, and the actions to be *)
(* logged on chain in a global buffer.                                     *)
(*                                                                         *)
(* File access is synchronous.  An action is what the process computes     *)
(* between two awaits of one request, and requests interleave there.       *)
(* Routes that change nothing (is-admin, identity/all, check-access,       *)
(* resolve-did, verify-vc, authorize, logs) have no action.                *)
(***************************************************************************)
EXTENDS Naturals, Sequences, Lists

CONSTANTS
    Handlers,            \* requests that may be in flight at once
    Operators, Machines, \* the DIDs registrations give out, by type
    Configured,          \* machines registered with allowedActions
    Overlaps,            \* whether identity requests may overlap
    BatchSize,           \* actions the buffer must hold to be sent
    MaxActions,          \* bound: actions put into the buffer
    MaxCrashes           \* bound: restarts of the process

Dids == Operators \cup Machines

ASSUME DidsAssumption == Operators \cap Machines = {} /\ Configured \subseteq Machines
ASSUME OverlapsAssumption == Overlaps \subseteq BOOLEAN
ASSUME BatchSizeAssumption == BatchSize \in Nat \ {0}
ASSUME BoundsAssumption == MaxActions \in Nat /\ MaxCrashes \in Nat

VARIABLES
    overlap,             \* whether identity requests overlap in this behaviour
    db, stateFile,       \* identity-store.json, the activeDids of did-state.json
    mirrorDB, mirrorState,   \* their copies in MongoDB
    activeDids,          \* in memory
    permits,             \* credentials in the agent's store, << operator, machine >>
    buffer, isSending,   \* the globals
    onChain,             \* actions the contract has logged, in order
    pc,                  \* the next await of each request
    about,               \* the DID, or the pair of a permit, of each request
    held,                \* the db, and activeDids, a request is saving
    flight,              \* batchToSend of each request
    created, registered, approved,   \* history: DIDs of the agent, answered ones
    missed,              \* history: mirrorDB is behind its file
    accepted, lost,      \* history: actions answered BATCHED (count), and given up
    crashes              \* restarts so far

files == << db, stateFile >>
mirrors == << mirrorDB, mirrorState, missed >>
sending == << buffer, isSending, onChain, flight, accepted, lost >>
dids == << created, registered, approved >>
vars == << overlap, files, mirrors, activeDids, permits, sending, pc, about, held, dids, crashes >>

-----------------------------------------------------------------------------
(* State *)

NoDB == [operators |-> << >>, machines |-> << >>, pending |-> << >>]
DB == [operators: Seq(Dids), machines: Seq(Dids), pending: Seq(Dids)]
NotHeld == [db |-> NoDB, active |-> {}]
NotAbout == << >>

TypeOK ==
    /\ overlap \in Overlaps
    /\ db \in DB /\ mirrorDB \in DB
    /\ stateFile \subseteq Dids /\ mirrorState \subseteq Dids /\ activeDids \subseteq Dids
    /\ permits \subseteq Operators \X Machines
    /\ buffer \in Seq(Nat) /\ isSending \in BOOLEAN /\ onChain \in Seq(Nat)
    /\ pc \in [Handlers -> {"idle", "register", "state", "mirror", "permit", "send", "wait"}]
    /\ about \in [Handlers -> {NotAbout} \cup Dids \cup (Operators \X Machines)]
    /\ held \in [Handlers -> [db: DB, active: SUBSET Dids]]
    /\ flight \in [Handlers -> Seq(Nat)]
    /\ created \subseteq Dids /\ registered \subseteq Dids /\ approved \subseteq Dids
    /\ missed \in BOOLEAN
    /\ accepted \in Nat /\ lost \subseteq 1 .. accepted
    /\ crashes \in Nat

Idle(h) == pc[h] = "idle"

Sending(h) == pc[h] \in {"send", "wait"}

\* Identity requests that do not overlap: the client waits for the answer.
MayStart(h) == Idle(h) /\ (overlap \/ \A g \in Handlers : Idle(g) \/ Sending(g))

Goto(h, step) == pc' = [pc EXCEPT ![h] = step]

\* The handler answers; what it held is gone.
Answers(h) ==
    /\ Goto(h, "idle")
    /\ about' = [about EXCEPT ![h] = NotAbout]
    /\ held' = [held EXCEPT ![h] = NotHeld]

Init ==
    /\ overlap \in Overlaps
    /\ db = NoDB /\ mirrorDB = NoDB
    /\ stateFile = {} /\ mirrorState = {} /\ activeDids = {}
    /\ permits = {}
    /\ buffer = << >> /\ isSending = FALSE /\ onChain = << >>
    /\ pc = [h \in Handlers |-> "idle"]
    /\ about = [h \in Handlers |-> NotAbout]
    /\ held = [h \in Handlers |-> NotHeld]
    /\ flight = [h \in Handlers |-> << >>]
    /\ created = {} /\ registered = {} /\ approved = {}
    /\ missed = FALSE
    /\ accepted = 0 /\ lost = {}
    /\ crashes = 0

-----------------------------------------------------------------------------
(* /api/register *)

\* The agent creates the DID.
CreateDid(h, did) ==
    /\ MayStart(h)
    /\ did \notin created
    /\ created' = created \cup {did}
    /\ about' = [about EXCEPT ![h] = did]
    /\ Goto(h, "register")
    /\ UNCHANGED << overlap, files, mirrors, activeDids, permits, sending, held,
                    registered, approved, crashes >>

\* Mutant of WithPending: db.pending = [entry].
WithPendingAlone(did) == [db EXCEPT !.pending = << did >>]

WithPending(did) == [db EXCEPT !.pending = Append(@, did)]

\* The file is read, extended and written without an await.
SaveRegistration(h) ==
    /\ pc[h] = "register"
    /\ db' = WithPending(about[h])
    /\ held' = [held EXCEPT ![h] = [db |-> db', active |-> {}]]
    /\ Goto(h, "mirror")
    /\ UNCHANGED << overlap, stateFile, mirrors, activeDids, permits, sending, about,
                    dids, crashes >>

\* The mirror in MongoDB is written, or the error is logged; the route answers.
\* What a registration has saved is pending, what an approval has saved is not.
MirrorAndAnswer(h) ==
    /\ pc[h] = "mirror"
    /\ \/ mirrorDB' = held[h].db /\ missed' = FALSE
       \/ mirrorDB' = mirrorDB /\ missed' = TRUE
    /\ IF about[h] \in Elements(held[h].db.pending)
       THEN registered' = registered \cup {about[h]} /\ UNCHANGED approved
       ELSE approved' = approved \cup {about[h]} /\ UNCHANGED registered
    /\ Answers(h)
    /\ UNCHANGED << overlap, files, mirrorState, activeDids, permits, sending, created, crashes >>

-----------------------------------------------------------------------------
(* /api/approve *)

\* Mutant of Moved: splice(index, 1) without [0], an array instead of the entry.
MovedAsArray(did) ==
    [db EXCEPT
        !.pending = Without(@, IndexOf(@, did)),
        !.operators = IF did \in Operators THEN Append(@, << did >>) ELSE @,
        !.machines = IF did \in Machines THEN Append(@, << did >>) ELSE @]

\* The entry leaves pending for the list of its type.
Moved(did) ==
    [db EXCEPT
        !.pending = Without(@, IndexOf(@, did)),
        !.operators = IF did \in Operators THEN Append(@, did) ELSE @,
        !.machines = IF did \in Machines THEN Append(@, did) ELSE @]

\* Mutant of ApproveNew: saveState() is forgotten.
ApproveNewStateNotSaved(h, did) ==
    /\ did \notin activeDids
    /\ activeDids' = activeDids \cup {did}
    /\ held' = [held EXCEPT ![h] = [db |-> Moved(did), active |-> activeDids']]
    /\ Goto(h, "state")
    /\ UNCHANGED files

\* The DID becomes active in memory and in did-state.json at once; what was
\* read of the other file waits for the mirror of this one.
ApproveNew(h, did) ==
    /\ did \notin activeDids
    /\ activeDids' = activeDids \cup {did}
    /\ stateFile' = activeDids'
    /\ held' = [held EXCEPT ![h] = [db |-> Moved(did), active |-> activeDids']]
    /\ Goto(h, "state")
    /\ UNCHANGED db

\* An active DID that is pending again is moved at once.
ApproveAgain(h, did) ==
    /\ did \in activeDids
    /\ db' = Moved(did)
    /\ held' = [held EXCEPT ![h] = [db |-> db', active |-> {}]]
    /\ Goto(h, "mirror")
    /\ UNCHANGED << activeDids, stateFile >>

Approve(h, did) ==
    /\ MayStart(h)
    /\ did \in Elements(db.pending)
    /\ about' = [about EXCEPT ![h] = did]
    /\ ApproveNew(h, did) \/ ApproveAgain(h, did)
    /\ UNCHANGED << overlap, mirrors, permits, sending, dids, crashes >>

\* saveDB writes the lists as they were when the request began.
SaveApproval(h) ==
    /\ pc[h] = "state"
    /\ mirrorState' \in {held[h].active, mirrorState}
    /\ db' = held[h].db
    /\ Goto(h, "mirror")
    /\ UNCHANGED << overlap, stateFile, mirrorDB, missed, activeDids, permits, sending, about, held,
                    dids, crashes >>

-----------------------------------------------------------------------------
(* /api/issue-permit *)

\* Both are in the lists, and the machine has actions.
IssuePermit(h, operator, machine) ==
    /\ MayStart(h)
    /\ operator \in Elements(db.operators)
    /\ machine \in Elements(db.machines) \cap Configured
    /\ << operator, machine >> \notin permits
    /\ about' = [about EXCEPT ![h] = << operator, machine >>]
    /\ Goto(h, "permit")
    /\ UNCHANGED << overlap, files, mirrors, activeDids, permits, sending, held, dids, crashes >>

\* The credential is created and stored, or the agent fails: no factory-admin.
SavePermit(h) ==
    /\ pc[h] = "permit"
    /\ \/ permits' = permits \cup {about[h]}
       \/ UNCHANGED permits
    /\ Answers(h)
    /\ UNCHANGED << overlap, files, mirrors, activeDids, sending, dids, crashes >>

-----------------------------------------------------------------------------
(* /api/batch and /api/blockchain *)

\* An action of ACTION_MAP, by number, in the order of the answers.
Batch ==
    /\ accepted < MaxActions
    /\ accepted' = accepted + 1
    /\ buffer' = Append(buffer, accepted')
    /\ UNCHANGED << overlap, files, mirrors, activeDids, permits, isSending, onChain, flight, lost,
                    pc, about, held, dids, crashes >>

\* One sender at a time: the buffer becomes the batch, and is empty again
\* before the first await.  Otherwise BLOCKCHAIN_BUSY or WAITING_BATCH.
StartSending(h) ==
    /\ Idle(h)
    /\ ~isSending /\ Len(buffer) >= BatchSize
    /\ isSending' = TRUE
    /\ flight' = [flight EXCEPT ![h] = buffer]
    /\ buffer' = << >>
    /\ Goto(h, "send")
    /\ UNCHANGED << overlap, files, mirrors, activeDids, permits, onChain, accepted, lost,
                    about, held, dids, crashes >>

\* The node has accepted the transaction.
Accepted(h) ==
    /\ pc[h] = "send"
    /\ Goto(h, "wait")
    /\ UNCHANGED << overlap, files, mirrors, activeDids, permits, sending, about, held, dids, crashes >>

\* Both ends of the handler: the flag is cleared, the batch is forgotten.
StopsSending(h) ==
    /\ isSending' = FALSE
    /\ flight' = [flight EXCEPT ![h] = << >>]
    /\ Answers(h)

\* Mutant of Confirmed: the buffer is emptied after the transaction.
ConfirmedBufferEmptied(h) ==
    /\ pc[h] = "wait"
    /\ onChain' = onChain \o flight[h]
    /\ buffer' = << >>
    /\ StopsSending(h)
    /\ UNCHANGED << overlap, files, mirrors, activeDids, permits, accepted, lost, dids, crashes >>

\* Mined; the answer is BLOCKCHAIN_DONE, or BLOCKCHAIN_ERROR when the receipt
\* does not arrive.
Confirmed(h) ==
    /\ pc[h] = "wait"
    /\ onChain' = onChain \o flight[h]
    /\ StopsSending(h)
    /\ UNCHANGED << overlap, files, mirrors, activeDids, permits, buffer, accepted, lost,
                    dids, crashes >>

\* Mutant of SendFails: the catch branch does not clear the flag.
SendFailsFlagKept(h) ==
    /\ Sending(h)
    /\ lost' = lost \cup Elements(flight[h])
    /\ flight' = [flight EXCEPT ![h] = << >>]
    /\ Answers(h)
    /\ UNCHANGED << overlap, files, mirrors, activeDids, permits, buffer, isSending, onChain,
                    accepted, dids, crashes >>

\* Not accepted, or reverted: the actions are not put back.
SendFails(h) ==
    /\ Sending(h)
    /\ lost' = lost \cup Elements(flight[h])
    /\ StopsSending(h)
    /\ UNCHANGED << overlap, files, mirrors, activeDids, permits, buffer, onChain, accepted,
                    dids, crashes >>

-----------------------------------------------------------------------------

\* What was being sent when the process stops is lost with the buffer, ...
NothingMined ==
    /\ lost' = lost \cup Elements(buffer) \cup UNION { Elements(flight[h]) : h \in Handlers }
    /\ UNCHANGED onChain

\* ... or its transaction had been accepted, and is mined.
MinedAnyway(h) ==
    /\ pc[h] = "wait"
    /\ onChain' = onChain \o flight[h]
    /\ lost' = lost \cup Elements(buffer)

\* The process stops and starts again: activeDids comes from its file, the rest of
\* the memory is lost.
Crash ==
    /\ crashes < MaxCrashes
    /\ crashes' = crashes + 1
    /\ activeDids' = stateFile
    /\ buffer' = << >> /\ isSending' = FALSE
    /\ flight' = [h \in Handlers |-> << >>]
    /\ NothingMined \/ \E h \in Handlers : MinedAnyway(h)
    /\ missed' = (missed \/ \E h \in Handlers : pc[h] = "mirror")
    /\ pc' = [h \in Handlers |-> "idle"]
    /\ about' = [h \in Handlers |-> NotAbout]
    /\ held' = [h \in Handlers |-> NotHeld]
    /\ UNCHANGED << overlap, files, mirrorDB, mirrorState, permits, accepted, dids >>

Next ==
    \/ \E h \in Handlers :
          \/ \E did \in Dids : CreateDid(h, did) \/ Approve(h, did)
          \/ SaveRegistration(h) \/ SaveApproval(h) \/ MirrorAndAnswer(h)
          \/ \E operator \in Operators, machine \in Machines : IssuePermit(h, operator, machine)
          \/ SavePermit(h)
          \/ StartSending(h) \/ Accepted(h) \/ Confirmed(h) \/ SendFails(h)
    \/ Batch \/ Crash

Spec == Init /\ [][Next]_vars

-----------------------------------------------------------------------------
(* Properties *)

ListNames == {"operators", "machines", "pending"}

\* The places of a DID in identity-store.json.
Places(did) ==
    UNION { { << list, i >> : i \in { j \in DOMAIN db[list] : db[list][j] = did } } : list \in ListNames }

\* Identity requests one at a time: a DID whose registration was answered is
\* in one list of identity-store.json, once, one whose approval was answered
\* is not pending, and MongoDB has the same lists when no mirroring is under
\* way or has been missed; also when the process was stopped anywhere.
IdentityKept ==
    ~overlap =>
        /\ \A did \in registered : \E place \in Places(did) : Places(did) = {place}
        /\ \A did \in approved : \A i \in DOMAIN db.pending : db.pending[i] # did
        /\ ~missed /\ (\A h \in Handlers : pc[h] # "mirror") => mirrorDB = db

Listed(lists) == Elements(lists.operators) \cup Elements(lists.machines)

\* However requests overlap, and after any restart: who is listed as operator
\* or machine, or is named by a permit, is in activeDids, in memory and in
\* did-state.json.  The file with the lists is always written second.
ListedAreActive ==
    /\ Listed(db) \subseteq activeDids /\ Listed(db) \subseteq stateFile
    /\ \A permit \in permits : permit[1] \in stateFile /\ permit[2] \in stateFile

\* isSending is set exactly while one request is sending: it is not left set
\* by a failure, and two requests never send at once.
SendFlagOwned ==
    /\ isSending => \E h \in Handlers : Sending(h)
    /\ \A h \in Handlers : Sending(h) => isSending
    /\ \A g, h \in Handlers : Sending(g) /\ Sending(h) => g = h

\* Every action answered BATCHED is on chain, in the batch being sent, in the
\* buffer or given up with a failed batch or a restart, in one of them only;
\* and actions get on chain once, in the order of the answers.
ActionsSentInOrder ==
    \A h \in Handlers :
        LET queue == onChain \o flight[h] \o buffer IN
        Sending(h) \/ ~isSending =>
            /\ \A i, j \in DOMAIN queue : i < j => queue[i] < queue[j]
            /\ \A n \in 1 .. accepted : n \in lost <=> \A i \in DOMAIN queue : queue[i] # n

=============================================================================
