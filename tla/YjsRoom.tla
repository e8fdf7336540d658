------------------------------- MODULE YjsRoom -------------------------------
(* The shared document of a questionnaire: each server node keeps a room     *)
(* with the document while an editor is connected, loads it from the         *)
(* yjs_state column or seeds it once from the content, flushes it (debounced *)
(* and at eviction) and drops it when the last editor leaves.  An editor's   *)
(* tab keeps its own copy through reconnects.  A document is the set of      *)
(* seeds and edits merged into it; two seeds are the duplicated pages.       *)
EXTENDS Integers, FiniteSets

CONSTANTS
    Editor,       \* tabs with write access
    Node,         \* server processes; more than one during a rolling restart
    Nowhere,      \* the place of an editor without a connection
    MaxConnects,  \* bound: connections made
    MaxEdits,     \* bound: edits made
    MaxSeeds,     \* bound: times a node derives a document from the content
    MaxTroubles   \* bound: restarts, failed database writes, content writes

ASSUME YjsAssumption ==
    /\ Nowhere \notin Node
    /\ MaxConnects \in Nat
    /\ MaxEdits \in Nat
    /\ MaxSeeds \in Nat
    /\ MaxTroubles \in Nat

Doc == [seeds : SUBSET (1..MaxSeeds), edits : SUBSET (1..MaxEdits)]
Empty == [seeds |-> {}, edits |-> {}]
Absent == [seeds |-> {0}, edits |-> {}]
Merge(d, e) == [seeds |-> d.seeds \cup e.seeds, edits |-> d.edits \cup e.edits]

VARIABLES
    yjsState,     \* the stored document, or Absent
    room,         \* node -> its room's document, or Absent
    doc,          \* editor -> the document in its tab
    step,         \* editor -> what its connection's handler is doing
    at,           \* editor -> the node of that handler
    held,         \* editor -> the seed or snapshot its handler is writing
    nulling,      \* a content write that will clear yjs_state is under way
    connects, seedsMade, editsMade, troubles,
    owed,         \* history: edits applied that the server must keep
    cleared       \* history: a content write dropped a stored document

countVars == <<connects, seedsMade, editsMade, troubles>>
handlerVars == <<step, at, held>>
pastVars == <<owed, cleared>>
yjsVars == <<yjsState, room, doc, handlerVars, nulling, countVars, pastVars>>

Evicting == {"evicting", "closing"}

YjsTypeOK ==
    /\ yjsState \in Doc \cup {Absent}
    /\ room \in [Node -> Doc \cup {Absent}]
    /\ doc \in [Editor -> Doc]
    /\ step \in [Editor ->
           {"away", "ready", "seeding", "adopting", "flushing", "leaving"} \cup Evicting]
    /\ at \in [Editor -> Node \cup {Nowhere}]
    /\ held \in [Editor -> Doc]
    /\ nulling \in BOOLEAN
    /\ connects \in 0..MaxConnects /\ seedsMade \in 0..MaxSeeds
    /\ editsMade \in 0..MaxEdits /\ troubles \in 0..MaxTroubles
    /\ owed \subseteq 1..MaxEdits
    /\ cleared \in BOOLEAN

YjsInit ==
    /\ yjsState = Absent
    /\ room = [n \in Node |-> Absent]
    /\ doc = [c \in Editor |-> Empty]
    /\ step = [c \in Editor |-> "away"]
    /\ at = [c \in Editor |-> Nowhere]
    /\ held = [c \in Editor |-> Empty]
    /\ nulling = FALSE
    /\ connects = 0 /\ seedsMade = 0 /\ editsMade = 0 /\ troubles = 0
    /\ owed = {}
    /\ cleared = FALSE

\* The rooms lock is held from the first read of the row until the room is kept.
Locked(n) == \E c \in Editor : at[c] = n /\ step[c] \in {"seeding", "adopting"}

\* The handler of c goes to step s with d in hand; at "away" it is gone.
HandlerGoes(c, s, d) ==
    /\ step' = [step EXCEPT ![c] = s]
    /\ held' = [held EXCEPT ![c] = d]
    /\ at' = IF s = "away" THEN [at EXCEPT ![c] = Nowhere] ELSE at

KeepRoom(c, d) == room' = [room EXCEPT ![at[c]] = d]

-----------------------------------------------------------------------------
(* Opening a room *)

\* No other node has the document open and no eviction is still being written.
Alone(c, n) ==
    \A d \in Editor \ {c} : step[d] = "away" \/ (at[d] = n /\ step[d] \notin Evicting)

Connect(c, n) ==
    /\ step[c] = "away"
    /\ step' = [step EXCEPT ![c] = "ready"]
    /\ at' = [at EXCEPT ![c] = n]
    /\ owed' = IF Alone(c, n) THEN owed ELSE {}
    /\ connects < MaxConnects /\ connects' = connects + 1
    /\ UNCHANGED <<yjsState, room, doc, held, nulling, seedsMade, editsMade,
                   troubles, cleared>>

\* The first frame on a node without a room: the stored binary verbatim, or a
\* local seed from the content that must still win the election.
OpenRoom(c) ==
    /\ step[c] = "ready"
    /\ room[at[c]] = Absent
    /\ ~Locked(at[c])
    /\ \/ /\ yjsState # Absent
          /\ KeepRoom(c, yjsState)
          /\ UNCHANGED <<handlerVars, seedsMade>>
       \/ /\ yjsState = Absent
          /\ seedsMade < MaxSeeds
          /\ seedsMade' = seedsMade + 1
          /\ HandlerGoes(c, "seeding", [seeds |-> {seedsMade + 1}, edits |-> {}])
          /\ UNCHANGED room
    /\ UNCHANGED <<yjsState, doc, nulling, connects, editsMade, troubles, pastVars>>

(* An operator named Faulty... is a plausible bug in the definition that    *)
(* follows.  Nothing uses it: it says which slip the properties notice.     *)
FaultyElect(c) ==
    /\ step[c] = "seeding"
    /\ yjsState' = held[c]
    /\ KeepRoom(c, held[c])
    /\ HandlerGoes(c, "ready", Empty)
    /\ UNCHANGED <<doc, nulling, countVars, pastVars>>

\* UPDATE ... WHERE yjs_state IS NULL.
Elect(c) ==
    /\ step[c] = "seeding"
    /\ \/ /\ yjsState = Absent
          /\ yjsState' = held[c]
          /\ KeepRoom(c, held[c])
          /\ HandlerGoes(c, "ready", Empty)
       \/ /\ yjsState # Absent
          /\ HandlerGoes(c, "adopting", Empty)
          /\ UNCHANGED <<yjsState, room>>
    /\ UNCHANGED <<doc, nulling, countVars, pastVars>>

ElectionErrs(c) ==
    /\ step[c] = "seeding"
    /\ troubles < MaxTroubles
    /\ troubles' = troubles + 1
    /\ HandlerGoes(c, "adopting", Empty)
    /\ UNCHANGED <<yjsState, room, doc, nulling, connects, seedsMade, editsMade,
                   pastVars>>

\* A loser serves the stored document; with none, an empty room nobody keeps.
AdoptPersisted(c) ==
    /\ step[c] = "adopting"
    /\ KeepRoom(c, yjsState)
    /\ HandlerGoes(c, "ready", Empty)
    /\ UNCHANGED <<yjsState, doc, nulling, countVars, pastVars>>

-----------------------------------------------------------------------------
(* Editing *)

\* Edits wait for the first sync; later ones are made on or off line.
MakeEdit(c) ==
    /\ editsMade < MaxEdits
    /\ doc[c].seeds # {}
    /\ editsMade' = editsMade + 1
    /\ doc' = [doc EXCEPT ![c].edits = @ \cup {editsMade + 1}]
    /\ UNCHANGED <<yjsState, room, handlerVars, nulling, connects, seedsMade,
                   troubles, pastVars>>

Served(c) == step[c] = "ready" /\ room[at[c]] # Absent

\* The answer to step 1, or another editor's update relayed.
SyncDown(c) ==
    /\ Served(c)
    /\ doc' = [doc EXCEPT ![c] = Merge(@, room[at[c]])]
    /\ doc' # doc
    /\ UNCHANGED <<yjsState, room, handlerVars, nulling, countVars, pastVars>>

\* Step 2 or an update: merged into the room, whose state is flushed when the
\* debounce window has passed.
SyncUp(c) ==
    /\ Served(c)
    /\ LET merged == Merge(room[at[c]], doc[c]) IN
          /\ merged # room[at[c]]
          /\ KeepRoom(c, merged)
          /\ \/ HandlerGoes(c, "flushing", merged)
             \/ UNCHANGED handlerVars
    /\ owed' = IF Alone(c, at[c]) THEN owed \cup doc[c].edits ELSE owed
    /\ UNCHANGED <<yjsState, doc, nulling, countVars, cleared>>

\* The handler's write ends: after an update it reads on, after an eviction it is done.
AfterWrite(c) == IF step[c] = "flushing" THEN "ready" ELSE "away"

WriteFlush(c) ==
    /\ step[c] \in {"flushing", "closing"}
    /\ yjsState' = held[c]
    /\ HandlerGoes(c, AfterWrite(c), Empty)
    /\ UNCHANGED <<room, doc, nulling, countVars, pastVars>>

\* Logged, not surfaced.
FlushFails(c) ==
    /\ step[c] \in {"flushing", "closing"}
    /\ troubles < MaxTroubles
    /\ troubles' = troubles + 1
    /\ HandlerGoes(c, AfterWrite(c), Empty)
    /\ owed' = IF step[c] = "closing" THEN {} ELSE owed
    /\ UNCHANGED <<yjsState, room, doc, nulling, connects, seedsMade, editsMade,
                   cleared>>

-----------------------------------------------------------------------------
(* Leaving *)

Disconnect(c) ==
    /\ step[c] = "ready"
    /\ HandlerGoes(c, "leaving", Empty)
    /\ UNCHANGED <<yjsState, room, doc, nulling, countVars, pastVars>>

\* The connections left on the channel are counted, then the room is evicted.
CountLeft(c) ==
    /\ step[c] = "leaving"
    /\ LET gone == Evicting \cup {"leaving", "away"}
           others == {d \in Editor : at[d] = at[c] /\ step[d] \notin gone}
       IN HandlerGoes(c, IF others = {} THEN "evicting" ELSE "away", Empty)
    /\ UNCHANGED <<yjsState, room, doc, nulling, countVars, pastVars>>

FaultyEvictRoom(c) ==
    /\ step[c] = "evicting"
    /\ ~Locked(at[c])
    /\ HandlerGoes(c, "away", Empty)
    /\ KeepRoom(c, Absent)
    /\ UNCHANGED <<yjsState, doc, nulling, countVars, pastVars>>

\* The room leaves the map first and is flushed afterwards.
EvictRoom(c) ==
    /\ step[c] = "evicting"
    /\ ~Locked(at[c])
    /\ IF room[at[c]] = Absent
       THEN HandlerGoes(c, "away", Empty)
       ELSE HandlerGoes(c, "closing", room[at[c]])
    /\ KeepRoom(c, Absent)
    /\ UNCHANGED <<yjsState, doc, nulling, countVars, pastVars>>

Restart(n) ==
    /\ troubles < MaxTroubles
    /\ troubles' = troubles + 1
    /\ room' = [room EXCEPT ![n] = Absent]
    /\ step' = [c \in Editor |-> IF at[c] = n THEN "away" ELSE step[c]]
    /\ held' = [c \in Editor |-> IF at[c] = n THEN Empty ELSE held[c]]
    /\ at' = [c \in Editor |-> IF at[c] = n THEN Nowhere ELSE at[c]]
    /\ owed' = {}
    /\ UNCHANGED <<yjsState, doc, nulling, connects, seedsMade, editsMade,
                   cleared>>

-----------------------------------------------------------------------------
(* A content write looks whether its node has a room; if not, its UPDATE      *)
(* clears the column.  With a room it leaves the column alone.               *)

BeginContentWrite(n) ==
    /\ ~nulling
    /\ troubles < MaxTroubles
    /\ ~Locked(n)
    /\ room[n] = Absent
    /\ troubles' = troubles + 1
    /\ nulling' = TRUE
    /\ UNCHANGED <<yjsState, room, doc, handlerVars, connects, seedsMade, editsMade,
                   pastVars>>

FinishContentWrite ==
    /\ nulling
    /\ nulling' = FALSE
    /\ yjsState' = Absent
    /\ cleared' = (cleared \/ yjsState' # yjsState)
    /\ owed' = IF yjsState' # yjsState THEN {} ELSE owed
    /\ UNCHANGED <<room, doc, handlerVars, countVars>>

-----------------------------------------------------------------------------
YjsNext ==
    \/ \E c \in Editor :
          \/ \E n \in Node : Connect(c, n)
          \/ OpenRoom(c) \/ Elect(c) \/ ElectionErrs(c) \/ AdoptPersisted(c)
          \/ MakeEdit(c) \/ SyncDown(c) \/ SyncUp(c) \/ WriteFlush(c) \/ FlushFails(c)
          \/ Disconnect(c) \/ CountLeft(c) \/ EvictRoom(c)
    \/ \E n \in Node : Restart(n) \/ BeginContentWrite(n)
    \/ FinishContentWrite

YjsSpec == YjsInit /\ [][YjsNext]_yjsVars

-----------------------------------------------------------------------------
(* Properties *)

Copies == {doc[c] : c \in Editor} \cup {room[n] : n \in Node} \cup {yjsState}

\* However many nodes seed at once, restart and lose writes, every copy of the
\* document descends from one seed, so no merge can duplicate the pages; only a
\* content write that dropped the stored document starts a second one.
OneSeedServed ==
    ~cleared => Cardinality(UNION {d.seeds : d \in Copies \ {Absent}}) <= 1

\* An edit a room applied stays with the server, in a room, in the column or in a
\* write under way, through any number of evictions and openings.  Not owed are
\* edits before a restart, a failed flush of an eviction or a cleared column, and
\* those made while an eviction is still being written or another node has the
\* document open.
EditsAreKept ==
    owed \subseteq UNION {d.edits : d \in {room[n] : n \in Node} \cup {yjsState}
                                        \cup {held[c] : c \in Editor}}
=============================================================================
