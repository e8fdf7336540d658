--------------------------- MODULE YjsRoom_proofs ---------------------------
(***************************************************************************)
(* Proofs about YjsRoom, for any editors, nodes and bounds.                *)
(***************************************************************************)
EXTENDS YjsRoom, FiniteSetTheorems, TLAPS

(* The part of the types the proof needs.  A handler that is somewhere is   *)
(* on a node.                                                               *)
RoomTypes ==
    /\ yjsState \in Doc \cup {Absent}
    /\ room \in [Node -> Doc \cup {Absent}]
    /\ doc \in [Editor -> Doc] /\ held \in [Editor -> Doc]
    /\ step = [c \in Editor |-> step[c]] /\ at = [c \in Editor |-> at[c]]
    /\ \A c \in Editor : step[c] # "away" => at[c] \in Node
    /\ seedsMade \in Nat /\ editsMade \in Nat

(* While no content write dropped it, the stored document holds one seed,   *)
(* the rooms and the writes under way hold the same, and the tabs no other. *)
(* Only a handler that still awaits the election has one of its own.        *)
Stored == IF yjsState = Absent THEN {} ELSE yjsState.seeds
SeedInv ==
    ~cleared =>
        /\ yjsState # Absent => \E s : yjsState.seeds = {s}
        /\ \A c \in Editor : doc[c].seeds \subseteq Stored
        /\ \A n \in Node : room[n] # Absent =>
                yjsState # Absent /\ room[n].seeds = Stored
        /\ \A c \in Editor :
                /\ step[c] \in {"flushing", "closing"} =>
                        yjsState # Absent /\ held[c].seeds = Stored
                /\ step[c] = "seeding" => \E s : held[c].seeds = {s}

RoomInv == RoomTypes /\ SeedInv

LEMMA DocFacts ==
    /\ Empty \in Doc /\ Empty.seeds = {} /\ Absent \notin Doc
    /\ \A d, e \in Doc : Merge(d, e) \in Doc /\ Merge(d, e).seeds = d.seeds \cup e.seeds
    /\ Nowhere \notin Node
  BY YjsAssumption DEF Doc, Empty, Absent, Merge

LEMMA InitRoom == YjsInit => RoomInv
  BY DocFacts DEF YjsInit, RoomInv, RoomTypes, SeedInv, Stored

LEMMA HandlerSteps ==
    ASSUME RoomTypes, NEW c \in Editor, NEW s, NEW d \in Doc, HandlerGoes(c, s, d),
           at[c] \in Node
    PROVE  /\ held' \in [Editor -> Doc]
           /\ step' = [x \in Editor |-> step'[x]] /\ at' = [x \in Editor |-> at'[x]]
           /\ \A x \in Editor : step'[x] # "away" => at'[x] \in Node
           /\ step'[c] = s /\ held'[c] = d
           /\ \A x \in Editor \ {c} : step'[x] = step[x] /\ held'[x] = held[x]
  BY DEF RoomTypes, HandlerGoes

LEMMA RoomSteps ==
    ASSUME RoomTypes, NEW c \in Editor, NEW d \in Doc \cup {Absent}, at[c] \in Node,
           KeepRoom(c, d)
    PROVE  /\ room' \in [Node -> Doc \cup {Absent}] /\ room'[at[c]] = d
           /\ \A n \in Node : n # at[c] => room'[n] = room[n]
  BY DEF RoomTypes, KeepRoom

(* A room is opened on the stored document, or a seed awaits its election.  *)
LEMMA OpenRoomKeeps == ASSUME RoomInv, NEW c \in Editor, OpenRoom(c) PROVE RoomInv'
  <1>1. /\ step[c] = "ready" /\ at[c] \in Node
        /\ UNCHANGED <<yjsState, doc, editsMade, cleared>>
    BY DEF OpenRoom, RoomInv, RoomTypes, pastVars
  <1>2. CASE yjsState # Absent /\ KeepRoom(c, yjsState)
             /\ UNCHANGED <<handlerVars, seedsMade>>
    <2>1. /\ room' \in [Node -> Doc \cup {Absent}] /\ room'[at[c]] = yjsState
          /\ \A n \in Node : n # at[c] => room'[n] = room[n]
      BY <1>1, <1>2, RoomSteps DEF RoomInv, RoomTypes
    <2>2. RoomTypes'
      BY <2>1, <1>1, <1>2 DEF RoomInv, RoomTypes, handlerVars
    <2>3. SeedInv'
      BY <2>1, <1>1, <1>2 DEF RoomInv, SeedInv, Stored, handlerVars
    <2>4. QED
      BY <2>2, <2>3 DEF RoomInv
  <1>3. CASE /\ seedsMade < MaxSeeds /\ seedsMade' = seedsMade + 1 /\ room' = room
             /\ HandlerGoes(c, "seeding", [seeds |-> {seedsMade + 1}, edits |-> {}])
    <2> DEFINE d == [seeds |-> {seedsMade + 1}, edits |-> {}]
    <2>1. d \in Doc /\ d.seeds = {seedsMade + 1}
      BY <1>3, YjsAssumption DEF Doc, RoomInv, RoomTypes
    <2> HIDE DEF d
    <2>2. HandlerGoes(c, "seeding", d)
      BY <1>3 DEF d
    <2>3. /\ held' \in [Editor -> Doc]
          /\ step' = [x \in Editor |-> step'[x]] /\ at' = [x \in Editor |-> at'[x]]
          /\ \A x \in Editor : step'[x] # "away" => at'[x] \in Node
          /\ step'[c] = "seeding" /\ held'[c] = d
          /\ \A x \in Editor \ {c} : step'[x] = step[x] /\ held'[x] = held[x]
      BY <2>1, <2>2, <1>1, HandlerSteps DEF RoomInv
    <2>4. RoomTypes'
      BY <2>3, <1>1, <1>3 DEF RoomInv, RoomTypes
    <2>5. SeedInv'
      BY <2>1, <2>3, <1>1, <1>3 DEF RoomInv, SeedInv, Stored
    <2>6. QED
      BY <2>4, <2>5 DEF RoomInv
  <1>4. QED
    BY <1>2, <1>3 DEF OpenRoom

(* Nobody has a document yet when an election is won.                       *)
LEMMA ElectKeeps == ASSUME RoomInv, NEW c \in Editor, Elect(c) PROVE RoomInv'
  <1>1. /\ step[c] = "seeding" /\ at[c] \in Node /\ held[c] \in Doc
        /\ UNCHANGED <<doc, seedsMade, editsMade, cleared>>
    BY DEF Elect, RoomInv, RoomTypes, countVars, pastVars
  <1>2. ASSUME NEW s \in {"ready", "adopting"}, HandlerGoes(c, s, Empty)
        PROVE  /\ held' \in [Editor -> Doc]
               /\ step' = [x \in Editor |-> step'[x]]
               /\ at' = [x \in Editor |-> at'[x]]
               /\ \A x \in Editor : step'[x] # "away" => at'[x] \in Node
               /\ step'[c] = s
               /\ \A x \in Editor \ {c} : step'[x] = step[x] /\ held'[x] = held[x]
    BY <1>1, <1>2, HandlerSteps, DocFacts DEF RoomInv
  <1>3. CASE /\ yjsState = Absent /\ yjsState' = held[c] /\ KeepRoom(c, held[c])
             /\ HandlerGoes(c, "ready", Empty)
    <2>1. /\ room' \in [Node -> Doc \cup {Absent}] /\ room'[at[c]] = held[c]
          /\ \A n \in Node : n # at[c] => room'[n] = room[n]
      BY <1>1, <1>3, RoomSteps DEF RoomInv
    <2>2. RoomTypes'
      BY <2>1, <1>1, <1>2, <1>3 DEF RoomInv, RoomTypes
    <2>3. SeedInv'
      <3>1. SUFFICES ASSUME ~cleared PROVE SeedInv'
        BY <1>1 DEF SeedInv
      <3>2. /\ \A x \in Editor : doc[x].seeds = {}
            /\ \A n \in Node : room[n] = Absent
            /\ \A x \in Editor : step[x] \notin {"flushing", "closing"}
            /\ \E s : held[c].seeds = {s}
        BY <3>1, <1>1, <1>3 DEF RoomInv, SeedInv, Stored
      <3>3. yjsState' # Absent /\ Stored' = held[c].seeds
        BY <1>1, <1>3, DocFacts DEF Stored
      <3>4. \A n \in Node : room'[n] # Absent => room'[n].seeds = held[c].seeds
        BY <2>1, <3>2
      <3>5. \A x \in Editor : /\ step'[x] \notin {"flushing", "closing"}
                              /\ step'[x] = "seeding" =>
                                    x # c /\ step[x] = "seeding" /\ held'[x] = held[x]
        BY <3>2, <1>1, <1>2, <1>3
      <3>6. \A x \in Editor : step[x] = "seeding" => \E s : held[x].seeds = {s}
        BY <3>1 DEF RoomInv, SeedInv
      <3>7. QED
        BY <3>2, <3>3, <3>4, <3>5, <3>6, <1>1, <1>3 DEF SeedInv
    <2>4. QED
      BY <2>2, <2>3 DEF RoomInv
  <1>4. CASE HandlerGoes(c, "adopting", Empty) /\ UNCHANGED <<yjsState, room>>
    <2>1. RoomTypes'
      BY <1>1, <1>2, <1>4 DEF RoomInv, RoomTypes
    <2>2. SeedInv'
      BY <1>1, <1>2, <1>4 DEF RoomInv, SeedInv, Stored
    <2>3. QED
      BY <2>1, <2>2 DEF RoomInv
  <1>5. QED
    BY <1>3, <1>4 DEF Elect

(* Edits and updates from the room bring a tab no other seed.               *)
LEMMA TabKeeps ==
    ASSUME RoomInv, NEW c \in Editor, MakeEdit(c) \/ SyncDown(c) PROVE RoomInv'
  <1>1. UNCHANGED <<yjsState, room, handlerVars, seedsMade, cleared>>
    BY DEF MakeEdit, SyncDown, countVars, pastVars
  <1>2. /\ doc' \in [Editor -> Doc] /\ editsMade' \in Nat
        /\ \/ doc'[c].seeds = doc[c].seeds
           \/ Served(c) /\ doc'[c].seeds = doc[c].seeds \cup room[at[c]].seeds
        /\ \A x \in Editor \ {c} : doc'[x] = doc[x]
    <2>1. CASE MakeEdit(c)
      <3>1. /\ editsMade < MaxEdits /\ editsMade' = editsMade + 1
            /\ doc' = [doc EXCEPT ![c].edits = @ \cup {editsMade + 1}]
            /\ doc[c] \in Doc /\ editsMade \in Nat
        BY <2>1 DEF MakeEdit, RoomInv, RoomTypes
      <3> DEFINE e == [doc[c] EXCEPT !.edits = @ \cup {editsMade + 1}]
      <3>2. e \in Doc /\ e.seeds = doc[c].seeds
        BY <3>1, YjsAssumption DEF Doc
      <3>3. doc' = [doc EXCEPT ![c] = e]
        BY <3>1
      <3>4. editsMade' \in Nat
        BY <3>1
      <3> HIDE DEF e
      <3>5. doc'[c] = e /\ doc' \in [Editor -> Doc]
        BY <3>2, <3>3 DEF RoomInv, RoomTypes
      <3>6. \A x \in Editor \ {c} : doc'[x] = doc[x]
        BY <3>3 DEF RoomInv, RoomTypes
      <3>7. QED
        BY <3>2, <3>4, <3>5, <3>6
    <2>2. CASE SyncDown(c)
      <3> DEFINE e == Merge(doc[c], room[at[c]])
      <3>1. /\ step[c] = "ready" /\ room[at[c]] # Absent /\ doc' = [doc EXCEPT ![c] = e]
            /\ editsMade' = editsMade
        BY <2>2 DEF SyncDown, Served, countVars
      <3>2. doc[c] \in Doc /\ room[at[c]] \in Doc
        BY <3>1 DEF RoomInv, RoomTypes
      <3>3. e \in Doc /\ e.seeds = doc[c].seeds \cup room[at[c]].seeds
        BY <3>2, DocFacts
      <3> HIDE DEF e
      <3>4. QED
        BY <3>1, <3>3 DEF RoomInv, RoomTypes, Served
    <2>3. QED
      BY <2>1, <2>2
  <1>3. RoomTypes'
    BY <1>1, <1>2 DEF RoomInv, RoomTypes, handlerVars
  <1>4. Served(c) => at[c] \in Node /\ room[at[c]] # Absent
    BY DEF Served, RoomInv, RoomTypes
  <1>5. SeedInv'
    BY <1>1, <1>2, <1>4 DEF RoomInv, SeedInv, Stored, handlerVars
  <1>6. QED
    BY <1>3, <1>5 DEF RoomInv

(* What a tab sends up adds no seed to a room, nor to what is flushed.      *)
LEMMA SyncUpKeeps == ASSUME RoomInv, NEW c \in Editor, SyncUp(c) PROVE RoomInv'
  <1> DEFINE d == Merge(room[at[c]], doc[c])
  <1>1. /\ step[c] = "ready" /\ room[at[c]] # Absent /\ at[c] \in Node
        /\ UNCHANGED <<yjsState, doc, seedsMade, editsMade, cleared>>
        /\ KeepRoom(c, d)
        /\ HandlerGoes(c, "flushing", d) \/ UNCHANGED handlerVars
    BY DEF SyncUp, Served, RoomInv, RoomTypes, countVars
  <1>2. room[at[c]] \in Doc /\ doc[c] \in Doc
    BY <1>1 DEF RoomInv, RoomTypes
  <1>3. d \in Doc /\ d.seeds = room[at[c]].seeds \cup doc[c].seeds
    BY <1>2, DocFacts
  <1>4. ~cleared => d.seeds = Stored /\ yjsState # Absent
    BY <1>1, <1>3 DEF RoomInv, SeedInv
  <1> HIDE DEF d
  <1>5. /\ room' \in [Node -> Doc \cup {Absent}] /\ room'[at[c]] = d
        /\ \A n \in Node : n # at[c] => room'[n] = room[n]
    BY <1>1, <1>3, RoomSteps DEF RoomInv
  <1>6. /\ held' \in [Editor -> Doc]
        /\ step' = [x \in Editor |-> step'[x]] /\ at' = [x \in Editor |-> at'[x]]
        /\ \A x \in Editor : step'[x] # "away" => at'[x] \in Node
        /\ \/ step'[c] = step[c]
           \/ step'[c] = "flushing" /\ held'[c] = d
        /\ \A x \in Editor \ {c} : step'[x] = step[x] /\ held'[x] = held[x]
    <2>1. CASE HandlerGoes(c, "flushing", d)
      BY <2>1, <1>1, <1>3, HandlerSteps DEF RoomInv
    <2>2. CASE UNCHANGED handlerVars
      BY <2>2 DEF handlerVars, RoomInv, RoomTypes
    <2>3. QED
      BY <2>1, <2>2, <1>1
  <1>7. RoomTypes'
    BY <1>1, <1>5, <1>6 DEF RoomInv, RoomTypes
  <1>8. SeedInv'
    <2>1. SUFFICES ASSUME ~cleared PROVE SeedInv'
      BY <1>1 DEF SeedInv
    <2>2. Stored' = Stored
      BY <1>1 DEF Stored
    <2>3. \A n \in Node : room'[n] # Absent =>
              yjsState # Absent /\ room'[n].seeds = Stored
      BY <2>1, <1>4, <1>5 DEF RoomInv, SeedInv
    <2>4. \A x \in Editor :
              /\ step'[x] \in {"flushing", "closing"} =>
                      yjsState # Absent /\ held'[x].seeds = Stored
              /\ step'[x] = "seeding" => \E s : held'[x].seeds = {s}
      BY <2>1, <1>1, <1>4, <1>6 DEF RoomInv, SeedInv
    <2>5. QED
      BY <2>1, <2>2, <2>3, <2>4, <1>1 DEF RoomInv, SeedInv
  <1>9. QED
    BY <1>7, <1>8 DEF RoomInv

(* A flush replaces the stored document by one of the same seed.            *)
LEMMA WriteFlushKeeps ==
    ASSUME RoomInv, NEW c \in Editor, WriteFlush(c) PROVE RoomInv'
  <1>1. /\ step[c] \in {"flushing", "closing"} /\ at[c] \in Node /\ held[c] \in Doc
        /\ yjsState' = held[c] /\ HandlerGoes(c, AfterWrite(c), Empty)
        /\ UNCHANGED <<room, doc, seedsMade, editsMade, cleared>>
    BY DEF WriteFlush, RoomInv, RoomTypes, countVars, pastVars
  <1>2. /\ held' \in [Editor -> Doc]
        /\ step' = [x \in Editor |-> step'[x]] /\ at' = [x \in Editor |-> at'[x]]
        /\ \A x \in Editor : step'[x] # "away" => at'[x] \in Node
        /\ step'[c] \in {"ready", "away"}
        /\ \A x \in Editor \ {c} : step'[x] = step[x] /\ held'[x] = held[x]
    BY <1>1, HandlerSteps, DocFacts DEF RoomInv, AfterWrite
  <1>3. RoomTypes'
    BY <1>1, <1>2 DEF RoomInv, RoomTypes
  <1>4. ~cleared => Stored' = Stored /\ yjsState # Absent /\ yjsState' # Absent
                    /\ yjsState'.seeds = yjsState.seeds
    BY <1>1, DocFacts DEF RoomInv, SeedInv, Stored
  <1>5. SeedInv'
    BY <1>1, <1>2, <1>4 DEF RoomInv, SeedInv
  <1>6. QED
    BY <1>3, <1>5 DEF RoomInv

(* The room that leaves is what its eviction writes.                        *)
LEMMA EvictRoomKeeps == ASSUME RoomInv, NEW c \in Editor, EvictRoom(c) PROVE RoomInv'
  <1>1. /\ step[c] = "evicting" /\ at[c] \in Node
        /\ \/ room[at[c]] = Absent /\ HandlerGoes(c, "away", Empty)
           \/ room[at[c]] # Absent /\ HandlerGoes(c, "closing", room[at[c]])
        /\ KeepRoom(c, Absent)
        /\ UNCHANGED <<yjsState, doc, seedsMade, editsMade, cleared>>
    BY DEF EvictRoom, RoomInv, RoomTypes, countVars, pastVars
  <1>2. /\ room' \in [Node -> Doc \cup {Absent}] /\ room'[at[c]] = Absent
        /\ \A n \in Node : n # at[c] => room'[n] = room[n]
    BY <1>1, RoomSteps DEF RoomInv
  <1>3. /\ held' \in [Editor -> Doc]
        /\ step' = [x \in Editor |-> step'[x]] /\ at' = [x \in Editor |-> at'[x]]
        /\ \A x \in Editor : step'[x] # "away" => at'[x] \in Node
        /\ \/ step'[c] = "away"
           \/ step'[c] = "closing" /\ held'[c] = room[at[c]] /\ room[at[c]] # Absent
        /\ \A x \in Editor \ {c} : step'[x] = step[x] /\ held'[x] = held[x]
    <2>1. CASE HandlerGoes(c, "away", Empty)
      BY <2>1, <1>1, HandlerSteps, DocFacts DEF RoomInv
    <2>2. CASE room[at[c]] # Absent /\ HandlerGoes(c, "closing", room[at[c]])
      <3>1. room[at[c]] \in Doc
        BY <2>2, <1>1 DEF RoomInv, RoomTypes
      <3>2. QED
        BY <2>2, <3>1, <1>1, HandlerSteps DEF RoomInv
    <2>3. QED
      BY <2>1, <2>2, <1>1
  <1>4. RoomTypes'
    BY <1>1, <1>2, <1>3 DEF RoomInv, RoomTypes
  <1>5. SeedInv'
    <2>1. SUFFICES ASSUME ~cleared PROVE SeedInv'
      BY <1>1 DEF SeedInv
    <2>2. Stored' = Stored
      BY <1>1 DEF Stored
    <2>3. room[at[c]] # Absent => yjsState # Absent /\ room[at[c]].seeds = Stored
      BY <2>1, <1>1 DEF RoomInv, SeedInv
    <2>4. \A n \in Node : room'[n] # Absent =>
              yjsState # Absent /\ room'[n].seeds = Stored
      BY <2>1, <1>2 DEF RoomInv, SeedInv
    <2>5. \A x \in Editor :
              /\ step'[x] \in {"flushing", "closing"} =>
                      yjsState # Absent /\ held'[x].seeds = Stored
              /\ step'[x] = "seeding" => \E s : held'[x].seeds = {s}
      BY <2>1, <2>3, <1>3 DEF RoomInv, SeedInv
    <2>6. QED
      BY <2>1, <2>2, <2>4, <2>5, <1>1 DEF RoomInv, SeedInv
  <1>6. QED
    BY <1>4, <1>5 DEF RoomInv

(* The steps that make and merge nothing: what remains is what was.         *)
LEMMA OtherRoom ==
    ASSUME RoomInv,
           UNCHANGED <<doc, seedsMade, editsMade>>, yjsState' = yjsState \/ cleared',
           cleared => cleared',
           yjsState' \in Doc \cup {Absent}, held' \in [Editor -> Doc],
           room' \in [Node -> Doc \cup {Absent}],
           \A n \in Node : room'[n] \in {room[n], Absent, yjsState},
           step' = [c \in Editor |-> step'[c]], at' = [c \in Editor |-> at'[c]],
           \A c \in Editor :
                /\ step'[c] # "away" => at'[c] \in Node
                /\ step'[c] \in {"flushing", "closing", "seeding"} =>
                        step'[c] = step[c] /\ held'[c] = held[c]
    PROVE  RoomInv'
  <1>1. RoomTypes'
    BY DEF RoomInv, RoomTypes
  <1>2. SeedInv'
    <2>1. SUFFICES ASSUME ~cleared, yjsState' = yjsState PROVE SeedInv'
      BY DEF SeedInv
    <2>2. Stored' = Stored
      BY <2>1 DEF Stored
    <2>3. \A n \in Node : room'[n] # Absent =>
              yjsState # Absent /\ room'[n].seeds = Stored
      BY <2>1 DEF RoomInv, SeedInv, Stored
    <2>4. \A x \in Editor :
              /\ step'[x] \in {"flushing", "closing"} =>
                      yjsState # Absent /\ held'[x].seeds = Stored
              /\ step'[x] = "seeding" => \E s : held'[x].seeds = {s}
      BY <2>1 DEF RoomInv, SeedInv
    <2>5. QED
      BY <2>1, <2>2, <2>3, <2>4 DEF RoomInv, SeedInv
  <1>3. QED
    BY <1>1, <1>2 DEF RoomInv

LEMMA QuietRoom ==
    ASSUME RoomInv,
           \/ \E c \in Editor : \/ \E n \in Node : Connect(c, n)
                                \/ ElectionErrs(c) \/ AdoptPersisted(c) \/ FlushFails(c)
                                \/ Disconnect(c) \/ CountLeft(c)
           \/ \E n \in Node : Restart(n) \/ BeginContentWrite(n)
           \/ FinishContentWrite \/ UNCHANGED yjsVars
    PROVE  RoomInv'
  <1>1. /\ yjsState \in Doc \cup {Absent} /\ held \in [Editor -> Doc]
        /\ room \in [Node -> Doc \cup {Absent}]
        /\ step = [c \in Editor |-> step[c]] /\ at = [c \in Editor |-> at[c]]
        /\ \A c \in Editor : step[c] # "away" => at[c] \in Node
    BY DEF RoomInv, RoomTypes
  <1>2. ASSUME NEW c \in Editor, NEW n \in Node, Connect(c, n) PROVE RoomInv'
    BY <1>1, <1>2, OtherRoom DEF Connect
  <1>3. ASSUME NEW c \in Editor, NEW s \in {"adopting", "ready", "leaving", "evicting",
                                            "away"},
               HandlerGoes(c, s, Empty), step[c] # "away",
               UNCHANGED <<yjsState, doc, seedsMade, editsMade, cleared>>,
               room' = room \/ KeepRoom(c, yjsState)
        PROVE  RoomInv'
    <2>1. /\ held' \in [Editor -> Doc]
          /\ step' = [x \in Editor |-> step'[x]] /\ at' = [x \in Editor |-> at'[x]]
          /\ \A x \in Editor : step'[x] # "away" => at'[x] \in Node
          /\ step'[c] = s
          /\ \A x \in Editor \ {c} : step'[x] = step[x] /\ held'[x] = held[x]
      BY <1>1, <1>3, HandlerSteps, DocFacts DEF RoomInv
    <2>2. /\ room' \in [Node -> Doc \cup {Absent}]
          /\ \A n \in Node : room'[n] \in {room[n], yjsState}
      BY <1>1, <1>3, RoomSteps DEF RoomInv
    <2>3. QED
      BY <2>1, <2>2, <1>1, <1>3, OtherRoom
  <1>4. ASSUME NEW c \in Editor, ElectionErrs(c) \/ AdoptPersisted(c) \/ FlushFails(c)
                                   \/ Disconnect(c) \/ CountLeft(c)
        PROVE  RoomInv'
    <2>1. ElectionErrs(c) => RoomInv'
      BY <1>3 DEF ElectionErrs, pastVars
    <2>2. AdoptPersisted(c) => RoomInv'
      BY <1>3 DEF AdoptPersisted, countVars, pastVars
    <2>3. FlushFails(c) => RoomInv'
      BY <1>3 DEF FlushFails, AfterWrite
    <2>4. Disconnect(c) => RoomInv'
      BY <1>3 DEF Disconnect, countVars, pastVars
    <2>5. CountLeft(c) => RoomInv'
      BY <1>3 DEF CountLeft, countVars, pastVars
    <2>6. QED
      BY <1>4, <2>1, <2>2, <2>3, <2>4, <2>5
  <1>5. ASSUME NEW n \in Node, Restart(n) PROVE RoomInv'
    BY <1>1, <1>5, DocFacts, OtherRoom DEF Restart
  <1>6. ASSUME NEW n \in Node, BeginContentWrite(n) PROVE RoomInv'
    BY <1>1, <1>6, OtherRoom DEF BeginContentWrite, handlerVars, pastVars
  <1>7. CASE FinishContentWrite
    BY <1>1, <1>7, OtherRoom DEF FinishContentWrite, handlerVars, countVars
  <1>8. CASE UNCHANGED yjsVars
    BY <1>1, <1>8, OtherRoom DEF yjsVars, handlerVars, countVars, pastVars
  <1>9. QED
    BY <1>2, <1>4, <1>5, <1>6, <1>7, <1>8

LEMMA StepRoom == RoomInv /\ [YjsNext]_yjsVars => RoomInv'
  <1> SUFFICES ASSUME RoomInv, [YjsNext]_yjsVars PROVE RoomInv'
    OBVIOUS
  <1>1. ASSUME NEW c \in Editor, \/ OpenRoom(c) \/ Elect(c) \/ MakeEdit(c)
                                 \/ SyncDown(c) \/ SyncUp(c) \/ WriteFlush(c)
                                 \/ EvictRoom(c)
        PROVE  RoomInv'
    BY <1>1, OpenRoomKeeps, ElectKeeps, TabKeeps, SyncUpKeeps, WriteFlushKeeps,
       EvictRoomKeeps
  <1>2. QED
    BY <1>1, QuietRoom DEF YjsNext

(* Every copy of the document descends from one seed, however many nodes    *)
(* seed, restart and lose writes (load_or_seed_doc, adopt_persisted), until *)
(* a content write drops the stored one.                                    *)
THEOREM OneSeed == YjsSpec => []OneSeedServed
  <1>1. RoomInv => OneSeedServed
    <2> SUFFICES ASSUME RoomInv, ~cleared
                 PROVE  Cardinality(UNION {d.seeds : d \in Copies \ {Absent}}) <= 1
      BY DEF OneSeedServed
    <2> DEFINE U == UNION {d.seeds : d \in Copies \ {Absent}}
    <2>1. \A d \in Copies \ {Absent} : d.seeds \subseteq Stored
      BY DEF Copies, RoomInv, RoomTypes, SeedInv, Stored
    <2>2. U \subseteq Stored
      BY <2>1
    <2>3. Stored = {} \/ \E s : Stored = {s}
      BY DEF RoomInv, SeedInv, Stored
    <2>4. U = {} \/ \E s : U = {s}
      BY <2>2, <2>3
    <2> HIDE DEF U
    <2>5. Cardinality(U) <= 1
      BY <2>4, FS_EmptySet, FS_Singleton
    <2>6. QED
      BY <2>5 DEF U
  <1>2. QED
    BY <1>1, InitRoom, StepRoom, PTL DEF YjsSpec

-----------------------------------------------------------------------------
(* The edits.                                                               *)

(* A room has somebody on its node who is not gone but for the eviction's   *)
(* write; who opens it is alone at it, and finds it absent.                 *)
Active(c) == step[c] # "away"
Opening == {"seeding", "adopting"}
PeopledInv ==
    \A n \in Node : room[n] # Absent =>
        \E c \in Editor : at[c] = n /\ step[c] \notin {"away", "closing"}
OpeningInv ==
    \A c \in Editor : step[c] \in Opening =>
        /\ room[at[c]] = Absent
        /\ \A d \in Editor \ {c} : step[d] \in Opening => at[d] # at[c]

(* While edits are owed, all editors are on one node; once one evicts, the  *)
(* others leave too; and who flushes has a room.                            *)
GatheredInv ==
    /\ \A c, d \in Editor : Active(c) /\ Active(d) => at[c] = at[d]
    /\ \A c, d \in Editor : step[c] \in Evicting /\ Active(d) =>
            step[d] \in {"leaving"} \cup Evicting
    /\ \A c \in Editor : step[c] = "flushing" => room[at[c]] # Absent

(* The edits owed are in every room; with no room, in what the eviction     *)
(* writes; when it has written, in the stored document.                     *)
NoRoom == \A n \in Node : room[n] = Absent
WhereInv ==
    /\ \A n \in Node : room[n] # Absent => owed \subseteq room[n].edits
    /\ \A c \in Editor : step[c] = "closing" => NoRoom /\ owed \subseteq held[c].edits
    /\ NoRoom /\ (\A c \in Editor : step[c] # "closing") => owed \subseteq yjsState.edits

KeepInv ==
    /\ PeopledInv /\ OpeningInv
    /\ owed # {} => GatheredInv /\ WhereInv

LEMMA InitKept == YjsInit => KeepInv
  <1> SUFFICES ASSUME YjsInit PROVE KeepInv
    OBVIOUS
  <1>1. /\ owed = {} /\ room = [n \in Node |-> Absent]
        /\ step = [c \in Editor |-> "away"]
    BY DEF YjsInit
  <1>2. PeopledInv /\ OpeningInv
    BY <1>1 DEF PeopledInv, OpeningInv, Opening
  <1>3. QED
    BY <1>1, <1>2 DEF KeepInv

(* Where a handler is does not change until it is gone.                     *)
LEMMA HandlerStays ==
    ASSUME RoomTypes, NEW c \in Editor, NEW s, NEW d, HandlerGoes(c, s, d)
    PROVE  /\ step'[c] = s /\ (s # "away" => at'[c] = at[c] /\ held'[c] = d)
           /\ \A x \in Editor \ {c} : /\ step'[x] = step[x] /\ at'[x] = at[x]
                                      /\ held'[x] = held[x]
  BY DEF RoomTypes, HandlerGoes

(* While edits are owed, the one node without a room means no room at all,  *)
(* and while somebody there opens or has opened a room nothing is evicted.  *)
LEMMA NoRoomHere ==
    ASSUME RoomInv, KeepInv, owed # {}, NEW c \in Editor, Active(c), room[at[c]] = Absent
    PROVE  NoRoom
  BY DEF KeepInv, PeopledInv, GatheredInv, NoRoom, Active

LEMMA NobodyCloses ==
    ASSUME KeepInv, owed # {}, NEW c \in Editor,
           step[c] \in {"ready", "seeding", "adopting", "flushing"}
    PROVE  \A d \in Editor : step[d] \notin Evicting
  BY DEF KeepInv, GatheredInv, Active, Evicting

LEMMA StoredHasAll ==
    ASSUME RoomInv, KeepInv, owed # {}, NEW c \in Editor,
           step[c] \in {"ready", "seeding", "adopting"}, room[at[c]] = Absent
    PROVE  owed \subseteq yjsState.edits /\ NoRoom /\ yjsState # Absent
  <1>1. NoRoom
    BY NoRoomHere DEF Active
  <1>2. \A d \in Editor : step[d] # "closing"
    BY NobodyCloses DEF Evicting
  <1>3. owed \subseteq yjsState.edits
    BY <1>1, <1>2 DEF KeepInv, WhereInv
  <1>4. QED
    BY <1>1, <1>3 DEF Absent

-----------------------------------------------------------------------------
(* A handler goes on, and no room changes.                                  *)
LEMMA MoveKept ==
    ASSUME RoomInv, KeepInv, NEW c \in Editor, NEW s, NEW d, HandlerGoes(c, s, d),
           step[c] # "away", room' = room, owed' \in {owed, {}},
           \/ s = "seeding" /\ step[c] = "ready" /\ room[at[c]] = Absent /\ ~Locked(at[c])
           \/ s = "adopting" /\ step[c] = "seeding"
           \/ s = "ready" /\ step[c] = "flushing"
           \/ s = "leaving" /\ step[c] = "ready"
           \/ /\ s = "evicting" /\ step[c] = "leaving"
              /\ \A x \in Editor : at[x] = at[c] =>
                    step[x] \in Evicting \cup {"leaving", "away"}
           \/ /\ s = "away" /\ step[c] = "leaving"
              /\ \E x \in Editor : at[x] = at[c] /\
                    step[x] \notin Evicting \cup {"leaving", "away"}
           \/ s = "away" /\ step[c] = "closing"
           \/ s = "away" /\ step[c] = "evicting" /\ room[at[c]] = Absent,
           \/ yjsState' = yjsState /\ (step[c] = "closing" => owed' = {})
           \/ yjsState' = held[c] /\ step[c] \in {"flushing", "closing"}
    PROVE  KeepInv'
  <1>1. /\ step'[c] = s /\ (s # "away" => at'[c] = at[c] /\ held'[c] = d)
        /\ \A x \in Editor \ {c} : /\ step'[x] = step[x] /\ at'[x] = at[x]
                                   /\ held'[x] = held[x]
    BY HandlerStays DEF RoomInv
  <1>2. at[c] \in Node /\ room \in [Node -> Doc \cup {Absent}]
    BY DEF RoomInv, RoomTypes
  <1>3. PeopledInv'
    <2> SUFFICES ASSUME NEW n \in Node, room[n] # Absent
                 PROVE  \E x \in Editor : at'[x] = n /\ step'[x] \notin {"away", "closing"}
      BY DEF PeopledInv
    <2>1. PICK x \in Editor : at[x] = n /\ step[x] \notin {"away", "closing"}
      BY DEF KeepInv, PeopledInv
    <2>2. CASE x # c
      BY <1>1, <2>1, <2>2
    <2>3. CASE x = c /\ s # "away"
      BY <1>1, <2>1, <2>3
    <2>4. CASE x = c /\ s = "away"
      <3>0. step[c] = "leaving"
        BY <2>1, <2>4
      <3>1. PICK y \in Editor : at[y] = at[c] /\ step[y] \notin Evicting \cup {"leaving", "away"}
        BY <2>4, <3>0
      <3>2. y # c /\ step[y] \notin {"away", "closing"}
        BY <2>4, <3>1 DEF Evicting
      <3>3. QED
        BY <1>1, <2>1, <2>4, <3>1, <3>2
    <2>5. QED
      BY <2>2, <2>3, <2>4
  <1>4. OpeningInv'
    <2>1. \A x \in Editor : step'[x] \in Opening => at'[x] = at[x]
      BY <1>1 DEF Opening
    <2>2. CASE s = "seeding"
      BY <1>1, <2>1, <2>2 DEF KeepInv, OpeningInv, Opening, Locked
    <2>3. CASE s # "seeding"
      <3>1. \A x \in Editor : step'[x] \in Opening => step[x] \in Opening
        BY <1>1, <2>3 DEF Opening
      <3>2. QED
        BY <2>1, <3>1 DEF KeepInv, OpeningInv
    <2>4. QED
      BY <2>2, <2>3
  <1>5. ASSUME owed' # {} PROVE GatheredInv' /\ WhereInv'
    <2>1. owed' = owed /\ owed # {} /\ GatheredInv /\ WhereInv
      BY <1>5 DEF KeepInv
    <2>2. \A x \in Editor : Active(x)' => Active(x) /\ at'[x] = at[x]
      BY <1>1 DEF Active
    <2>3. \A x, y \in Editor : Active(x)' /\ Active(y)' => at'[x] = at'[y]
      BY <2>1, <2>2 DEF GatheredInv
    <2>4. \A x, y \in Editor : step'[x] \in Evicting /\ Active(y)' =>
              step'[y] \in {"leaving"} \cup Evicting
      <3> SUFFICES ASSUME NEW x \in Editor, NEW y \in Editor, step'[x] \in Evicting, Active(y)'
                   PROVE  step'[y] \in {"leaving"} \cup Evicting
        OBVIOUS
      <3>1. CASE x = c
        <4>1. s = "evicting" /\ step[c] = "leaving"
          BY <1>1, <3>1 DEF Evicting
        <4>2. at[y] = at[c]
          BY <2>1, <2>2, <4>1 DEF GatheredInv, Active
        <4>3. step[y] \in Evicting \cup {"leaving", "away"}
          BY <4>1, <4>2 DEF Evicting
        <4>4. QED
          BY <1>1, <3>1, <4>1, <4>3 DEF Active, Evicting
      <3>2. CASE x # c
        <4>1. step[x] \in Evicting /\ Active(y) /\ Active(c)
          BY <1>1, <2>2, <3>2 DEF Active
        <4>2. step[y] \in {"leaving"} \cup Evicting /\ step[c] \in {"leaving"} \cup Evicting
          BY <2>1, <4>1 DEF GatheredInv
        <4>3. s \in Evicting \/ s = "away"
          BY <4>2 DEF Evicting
        <4>4. QED
          BY <1>1, <4>2, <4>3 DEF Active
      <3>3. QED
        BY <3>1, <3>2
    <2>5. \A x \in Editor : step'[x] = "flushing" => step[x] = "flushing" /\ at'[x] = at[x]
      BY <1>1
    <2>6. GatheredInv'
      BY <2>1, <2>3, <2>4, <2>5 DEF GatheredInv
    <2>7. \A x \in Editor : step'[x] = "closing" =>
              x # c /\ step[x] = "closing" /\ held'[x] = held[x]
      BY <1>1
    <2>8. /\ \A n \in Node : room[n] # Absent => owed \subseteq room[n].edits
          /\ \A x \in Editor : step[x] = "closing" => NoRoom /\ owed \subseteq held[x].edits
          /\ NoRoom /\ (\A x \in Editor : step[x] # "closing") => owed \subseteq yjsState.edits
      BY <2>1 DEF WhereInv
    <2>9. NoRoom /\ (\A x \in Editor : step'[x] # "closing") => owed \subseteq yjsState'.edits
      <3> SUFFICES ASSUME NoRoom, \A x \in Editor : step'[x] # "closing"
                   PROVE  owed \subseteq yjsState'.edits
        OBVIOUS
      <3>1. CASE step[c] = "closing"
        BY <2>1, <2>8, <3>1
      <3>2. CASE step[c] # "closing"
        <4>1. step[c] # "flushing"
          BY <1>2, <2>1 DEF GatheredInv, NoRoom
        <4>2. \A x \in Editor : step[x] # "closing"
          BY <1>1, <3>2
        <4>3. QED
          BY <2>8, <3>2, <4>1, <4>2
      <3>3. QED
        BY <3>1, <3>2
    <2>10. WhereInv'
      BY <2>1, <2>7, <2>8, <2>9 DEF WhereInv, NoRoom
    <2>11. QED
      BY <2>6, <2>10
  <1>6. QED
    BY <1>3, <1>4, <1>5 DEF KeepInv

(* A room is opened on the stored document, which has every edit owed.      *)
LEMMA OpenKept ==
    ASSUME RoomInv, KeepInv, NEW c \in Editor, step[c] \in {"ready", "seeding", "adopting"},
           room[at[c]] = Absent, KeepRoom(c, yjsState'), yjsState' \in Doc \cup {Absent},
           yjsState' = yjsState \/ yjsState = Absent, owed' = owed,
           step'[c] = "ready",
           \A x \in Editor : at'[x] = at[x] /\ (x # c => step'[x] = step[x]),
           \A x \in Editor \ {c} : step[x] \in Opening => at[x] # at[c]
    PROVE  KeepInv'
  <1>1. at[c] \in Node /\ \A x \in Editor : step[x] # "away" => at[x] \in Node
    BY DEF RoomInv, RoomTypes
  <1>2. /\ room'[at[c]] = yjsState' /\ \A n \in Node : n # at[c] => room'[n] = room[n]
    BY <1>1, RoomSteps DEF RoomInv
  <1>3. PeopledInv'
    <2> SUFFICES ASSUME NEW n \in Node, room'[n] # Absent
                 PROVE  \E x \in Editor : at'[x] = n /\ step'[x] \notin {"away", "closing"}
      BY DEF PeopledInv
    <2>1. CASE n = at[c]
      BY <2>1
    <2>2. CASE n # at[c]
      <3>1. PICK x \in Editor : at[x] = n /\ step[x] \notin {"away", "closing"}
        BY <1>2, <2>2 DEF KeepInv, PeopledInv
      <3>2. x # c
        BY <2>2, <3>1
      <3>3. QED
        BY <3>1, <3>2
    <2>3. QED
      BY <2>1, <2>2
  <1>4. OpeningInv'
    <2>1. \A x \in Editor : step'[x] \in Opening =>
              x # c /\ step[x] \in Opening /\ at[x] # at[c] /\ at[x] \in Node
      BY <1>1 DEF Opening
    <2>2. \A x \in Editor : step'[x] \in Opening => room'[at[x]] = Absent
      BY <1>2, <2>1 DEF KeepInv, OpeningInv
    <2>3. QED
      BY <2>1, <2>2 DEF KeepInv, OpeningInv
  <1>5. ASSUME owed # {} PROVE GatheredInv' /\ WhereInv'
    <2>1. GatheredInv /\ WhereInv
      BY <1>5 DEF KeepInv
    <2>2. /\ owed \subseteq yjsState.edits /\ NoRoom /\ yjsState' = yjsState
          /\ yjsState # Absent
      BY <1>5, StoredHasAll
    <2>3. \A x \in Editor : step[x] \notin Evicting
      BY <1>5, NobodyCloses
    <2>4. \A x \in Editor : step[x] # "flushing" /\ step'[x] # "flushing"
      BY <1>1, <2>1, <2>2 DEF GatheredInv, NoRoom
    <2>5. \A x \in Editor : step'[x] \notin Evicting /\ (Active(x)' => Active(x))
      BY <2>3 DEF Active, Evicting
    <2>6. GatheredInv'
      BY <2>1, <2>4, <2>5 DEF GatheredInv
    <2>7. ~NoRoom' /\ \A n \in Node : room'[n] # Absent => owed \subseteq room'[n].edits
      BY <1>1, <1>2, <2>2 DEF NoRoom
    <2>8. WhereInv'
      BY <2>5, <2>7 DEF WhereInv, Evicting
    <2>9. QED
      BY <2>6, <2>8
  <1>6. QED
    BY <1>3, <1>4, <1>5 DEF KeepInv

(* What a tab sends up stays in its room.                                   *)
LEMMA SyncUpKept == ASSUME RoomInv, KeepInv, NEW c \in Editor, SyncUp(c) PROVE KeepInv'
  <1> DEFINE d == Merge(room[at[c]], doc[c])
  <1>1. /\ step[c] = "ready" /\ room[at[c]] # Absent /\ at[c] \in Node
        /\ UNCHANGED <<yjsState, doc>> /\ KeepRoom(c, d)
        /\ HandlerGoes(c, "flushing", d) \/ UNCHANGED handlerVars
        /\ owed' = IF Alone(c, at[c]) THEN owed \cup doc[c].edits ELSE owed
    BY DEF SyncUp, Served, RoomInv, RoomTypes
  <1>2. room[at[c]] \in Doc /\ doc[c] \in Doc
    BY <1>1 DEF RoomInv, RoomTypes
  <1>3. d \in Doc /\ d.edits = room[at[c]].edits \cup doc[c].edits /\ d # Absent
    BY <1>2, DocFacts DEF Merge
  <1> HIDE DEF d
  <1>4. /\ room'[at[c]] = d /\ \A n \in Node : n # at[c] => room'[n] = room[n]
    BY <1>1, <1>3, RoomSteps DEF RoomInv
  <1>5. /\ step'[c] \in {"ready", "flushing"}
        /\ \A x \in Editor : at'[x] = at[x]
        /\ \A x \in Editor \ {c} : step'[x] = step[x] /\ held'[x] = held[x]
    <2>1. CASE HandlerGoes(c, "flushing", d)
      BY <2>1, <1>1, HandlerStays DEF RoomInv
    <2>2. CASE UNCHANGED handlerVars
      BY <2>2, <1>1 DEF handlerVars
    <2>3. QED
      BY <1>1, <2>1, <2>2
  <1>6. \A n \in Node : room'[n] # Absent <=> room[n] # Absent
    BY <1>1, <1>3, <1>4
  <1>7. PeopledInv'
    <2>1. \A x \in Editor : step[x] \notin {"away", "closing"} =>
              step'[x] \notin {"away", "closing"}
      BY <1>5
    <2>2. QED
      BY <1>5, <1>6, <2>1 DEF KeepInv, PeopledInv
  <1>8. OpeningInv'
    <2>1. \A x \in Editor : step'[x] \in Opening =>
              step[x] \in Opening /\ at[x] \in Node /\ room[at[x]] = Absent
      BY <1>5 DEF Opening, RoomInv, RoomTypes, KeepInv, OpeningInv
    <2>2. QED
      BY <1>5, <1>6, <2>1 DEF KeepInv, OpeningInv
  <1>9. ASSUME owed' # {} PROVE GatheredInv' /\ WhereInv'
    <2>1. \A x \in Editor : /\ Active(x)' <=> Active(x)
                            /\ step'[x] \in Evicting <=> step[x] \in Evicting
      BY <1>1, <1>5 DEF Active, Evicting
    <2>2. /\ \A x \in Editor : Active(x) => at[x] = at[c]
          /\ \A x \in Editor : step[x] \notin Evicting
      <3>1. CASE Alone(c, at[c])
        BY <1>1, <3>1 DEF Alone, Active, Evicting
      <3>2. CASE ~Alone(c, at[c])
        <4>1. owed # {} /\ GatheredInv
          BY <1>1, <1>9, <3>2 DEF KeepInv
        <4>2. QED
          BY <1>1, <4>1, NobodyCloses DEF GatheredInv, Active
      <3>3. QED
        BY <3>1, <3>2
    <2>3. GatheredInv'
      <3>1. \A x \in Editor : step'[x] = "flushing" => at'[x] = at[c]
        BY <1>5, <2>2 DEF Active
      <3>2. QED
        BY <1>3, <1>4, <1>5, <2>1, <2>2, <3>1 DEF GatheredInv
    <2>4. \A n \in Node : room[n] # Absent => n = at[c]
      BY <2>2 DEF KeepInv, PeopledInv, Active
    <2>5. owed \subseteq room[at[c]].edits
      BY <1>1 DEF KeepInv, WhereInv
    <2>6. owed' \subseteq d.edits
      BY <1>1, <1>3, <2>5
    <2>7. ~NoRoom'
      BY <1>1, <1>3, <1>4 DEF NoRoom
    <2>8. WhereInv'
      BY <1>4, <1>6, <2>1, <2>2, <2>4, <2>6, <2>7 DEF WhereInv, Evicting
    <2>9. QED
      BY <2>3, <2>8
  <1>10. QED
    BY <1>7, <1>8, <1>9 DEF KeepInv

(* The room that leaves, with every edit owed, is what the eviction writes. *)
LEMMA CloseKept ==
    ASSUME RoomInv, KeepInv, NEW c \in Editor, step[c] = "evicting", ~Locked(at[c]),
           room[at[c]] # Absent, HandlerGoes(c, "closing", room[at[c]]),
           KeepRoom(c, Absent), UNCHANGED <<yjsState, owed>>
    PROVE  KeepInv'
  <1>1. at[c] \in Node /\ \A x \in Editor : step[x] # "away" => at[x] \in Node
    BY DEF RoomInv, RoomTypes
  <1>2. /\ room'[at[c]] = Absent /\ \A n \in Node : n # at[c] => room'[n] = room[n]
    BY <1>1, RoomSteps DEF RoomInv
  <1>3. /\ step'[c] = "closing" /\ held'[c] = room[at[c]]
        /\ \A x \in Editor : at'[x] = at[x]
        /\ \A x \in Editor \ {c} : step'[x] = step[x] /\ held'[x] = held[x]
    BY HandlerStays DEF RoomInv
  <1>4. PeopledInv'
    BY <1>2, <1>3 DEF KeepInv, PeopledInv
  <1>5. OpeningInv'
    <2>1. \A x \in Editor : step'[x] \in Opening => step[x] \in Opening /\ at[x] \in Node
      BY <1>1, <1>3 DEF Opening
    <2>2. QED
      BY <1>2, <1>3, <2>1 DEF KeepInv, OpeningInv
  <1>6. ASSUME owed # {} PROVE GatheredInv' /\ WhereInv'
    <2>1. GatheredInv /\ WhereInv
      BY <1>6 DEF KeepInv
    <2>2. \A x \in Editor : /\ Active(x)' <=> Active(x)
                            /\ step'[x] \in Evicting <=> step[x] \in Evicting
      BY <1>3 DEF Active, Evicting
    <2>3. \A x \in Editor : step'[x] # "flushing"
      <3>1. \A x \in Editor : Active(x) => step[x] \in {"leaving"} \cup Evicting
        BY <2>1 DEF GatheredInv, Evicting
      <3>2. QED
        BY <1>3, <3>1 DEF Active, Evicting
    <2>4. \A x, y \in Editor : step'[x] \in Evicting /\ Active(y)' =>
              step'[y] \in {"leaving"} \cup Evicting
      <3>1. \A x, y \in Editor : step[x] \in Evicting /\ Active(y) =>
                step[y] \in {"leaving"} \cup Evicting
        BY <2>1 DEF GatheredInv
      <3>2. \A y \in Editor : y = c \/ step'[y] = step[y]
        BY <1>3
      <3>3. QED
        BY <1>3, <2>2, <3>1, <3>2 DEF Evicting
    <2>5. GatheredInv'
      BY <1>3, <2>1, <2>2, <2>3, <2>4 DEF GatheredInv
    <2>6. \A n \in Node : room[n] # Absent => n = at[c]
      BY <2>1 DEF KeepInv, PeopledInv, GatheredInv, Active
    <2>7. NoRoom'
      BY <1>2, <2>6 DEF NoRoom
    <2>8. \A x \in Editor : step'[x] = "closing" => owed \subseteq held'[x].edits
      <3>1. owed \subseteq room[at[c]].edits
        BY <1>1, <2>1 DEF WhereInv
      <3>2. QED
        BY <1>3, <2>1, <3>1 DEF WhereInv
    <2>9. WhereInv'
      BY <1>3, <2>7, <2>8 DEF WhereInv, NoRoom
    <2>10. QED
      BY <2>5, <2>9
  <1>7. QED
    BY <1>4, <1>5, <1>6 DEF KeepInv

(* A connection beside others that cannot see what is still written gives   *)
(* up what was owed.                                                        *)
LEMMA ConnectKept ==
    ASSUME RoomInv, KeepInv, NEW c \in Editor, NEW n \in Node, Connect(c, n) PROVE KeepInv'
  <1>1. /\ step[c] = "away" /\ step' = [step EXCEPT ![c] = "ready"]
        /\ at' = [at EXCEPT ![c] = n] /\ UNCHANGED <<yjsState, room, held>>
        /\ owed' = IF Alone(c, n) THEN owed ELSE {}
    BY DEF Connect
  <1>2. /\ step'[c] = "ready" /\ at'[c] = n
        /\ \A x \in Editor \ {c} : step'[x] = step[x] /\ at'[x] = at[x]
    BY <1>1 DEF RoomInv, RoomTypes
  <1>3. PeopledInv'
    <2>1. \A x \in Editor : step[x] \notin {"away", "closing"} =>
              at'[x] = at[x] /\ step'[x] \notin {"away", "closing"}
      BY <1>1, <1>2
    <2>2. QED
      BY <1>1, <2>1 DEF KeepInv, PeopledInv
  <1>4. OpeningInv'
    <2>1. \A x \in Editor : step'[x] \in Opening => step[x] \in Opening /\ at'[x] = at[x]
      BY <1>1, <1>2 DEF Opening
    <2>2. QED
      BY <1>1, <2>1 DEF KeepInv, OpeningInv
  <1>5. ASSUME owed' # {} PROVE GatheredInv' /\ WhereInv'
    <2>1. owed' = owed /\ Alone(c, n) /\ GatheredInv /\ WhereInv
      BY <1>1, <1>5 DEF KeepInv
    <2>2. \A x \in Editor : Active(x)' => at'[x] = n /\ step'[x] \notin Evicting
      BY <1>2, <2>1 DEF Alone, Active, Evicting
    <2>3. \A x \in Editor : step'[x] \in {"flushing"} \cup Evicting =>
              step[x] = step'[x] /\ at'[x] = at[x]
      BY <1>1, <1>2 DEF Evicting
    <2>4. \A x \in Editor : step[x] \in Evicting => step'[x] = step[x]
      BY <1>1, <1>2 DEF Evicting
    <2>5. GatheredInv'
      BY <1>1, <2>1, <2>2, <2>3 DEF GatheredInv, Active, Evicting
    <2>6. \A x \in Editor : step'[x] = "closing" <=> step[x] = "closing"
      BY <1>1, <1>2
    <2>7. WhereInv'
      BY <1>1, <2>1, <2>6 DEF WhereInv, NoRoom
    <2>8. QED
      BY <2>5, <2>7
  <1>6. QED
    BY <1>3, <1>4, <1>5 DEF KeepInv

(* Steps of no handler.  A restart loses what it loses, and a content write *)
(* that drops the stored document gives up what was owed.                   *)
LEMMA QuietKept ==
    ASSUME RoomInv, KeepInv,
           \/ \E c \in Editor : MakeEdit(c) \/ SyncDown(c)
           \/ \E n \in Node : Restart(n) \/ BeginContentWrite(n)
           \/ FinishContentWrite \/ UNCHANGED yjsVars
    PROVE  KeepInv'
  <1>1. CASE /\ UNCHANGED <<room, step, at, held>>
             /\ owed' = {} \/ (owed' = owed /\ yjsState' = yjsState)
    BY <1>1 DEF KeepInv, PeopledInv, OpeningInv, GatheredInv, WhereInv, Active, NoRoom
  <1>2. ASSUME NEW n \in Node, Restart(n) PROVE KeepInv'
    <2>1. /\ owed' = {} /\ room' = [room EXCEPT ![n] = Absent]
          /\ \A x \in Editor : /\ at[x] = n => step'[x] = "away"
                               /\ at[x] # n => step'[x] = step[x] /\ at'[x] = at[x]
      BY <1>2 DEF Restart
    <2>2. /\ room'[n] = Absent /\ \A m \in Node : m # n => room'[m] = room[m]
      BY <2>1 DEF RoomInv, RoomTypes
    <2>3. PeopledInv'
      <3> SUFFICES ASSUME NEW m \in Node, room'[m] # Absent
                   PROVE  \E x \in Editor : at'[x] = m /\ step'[x] \notin {"away", "closing"}
        BY DEF PeopledInv
      <3>1. PICK x \in Editor : at[x] = m /\ step[x] \notin {"away", "closing"}
        BY <2>2 DEF KeepInv, PeopledInv
      <3>2. QED
        BY <2>1, <2>2, <3>1
    <2>4. \A x \in Editor : step'[x] \in Opening =>
              /\ step[x] \in Opening /\ at[x] # n /\ at'[x] = at[x] /\ at[x] \in Node
      BY <2>1 DEF Opening, RoomInv, RoomTypes
    <2>5. OpeningInv'
      BY <2>2, <2>4 DEF KeepInv, OpeningInv
    <2>6. QED
      BY <2>1, <2>3, <2>5 DEF KeepInv
  <1>3. ASSUME NEW c \in Editor, MakeEdit(c) \/ SyncDown(c) PROVE KeepInv'
    BY <1>1, <1>3 DEF MakeEdit, SyncDown, handlerVars, pastVars
  <1>4. ASSUME NEW n \in Node, BeginContentWrite(n) PROVE KeepInv'
    BY <1>1, <1>4 DEF BeginContentWrite, handlerVars, pastVars
  <1>5. CASE FinishContentWrite
    BY <1>1, <1>5 DEF FinishContentWrite, handlerVars
  <1>6. CASE UNCHANGED yjsVars
    BY <1>1, <1>6 DEF yjsVars, handlerVars, pastVars
  <1>7. QED
    BY <1>2, <1>3, <1>4, <1>5, <1>6

LEMMA HandlersKept ==
    ASSUME RoomInv, KeepInv, NEW c \in Editor,
           \/ OpenRoom(c) \/ Elect(c) \/ ElectionErrs(c) \/ AdoptPersisted(c)
           \/ WriteFlush(c) \/ FlushFails(c) \/ Disconnect(c) \/ CountLeft(c) \/ EvictRoom(c)
    PROVE  KeepInv'
  <1>1. /\ yjsState \in Doc \cup {Absent} /\ held \in [Editor -> Doc]
        /\ room \in [Node -> Doc \cup {Absent}]
        /\ step[c] # "away" => at[c] \in Node
    BY DEF RoomInv, RoomTypes
  <1>2. CASE OpenRoom(c)
    <2>1. /\ step[c] = "ready" /\ room[at[c]] = Absent /\ ~Locked(at[c]) /\ owed' = owed
          /\ yjsState' = yjsState
      BY <1>2 DEF OpenRoom, pastVars
    <2>2. CASE KeepRoom(c, yjsState) /\ UNCHANGED handlerVars
      <3>1. \A x \in Editor : step[x] \in Opening => at[x] # at[c]
        BY <2>1 DEF Locked, Opening
      <3>2. QED
        BY <1>1, <2>1, <2>2, <3>1, OpenKept DEF handlerVars
    <2>3. CASE /\ HandlerGoes(c, "seeding", [seeds |-> {seedsMade + 1}, edits |-> {}])
               /\ UNCHANGED room
      BY <2>1, <2>3, MoveKept
    <2>4. QED
      BY <1>2, <2>2, <2>3 DEF OpenRoom
  <1>3. CASE Elect(c)
    <2>1. step[c] = "seeding" /\ owed' = owed
      BY <1>3 DEF Elect, pastVars
    <2>2. CASE /\ yjsState = Absent /\ yjsState' = held[c] /\ KeepRoom(c, held[c])
               /\ HandlerGoes(c, "ready", Empty)
      <3>1. /\ room[at[c]] = Absent
            /\ \A x \in Editor \ {c} : step[x] \in Opening => at[x] # at[c]
        BY <2>1 DEF KeepInv, OpeningInv, Opening
      <3>2. /\ step'[c] = "ready"
            /\ \A x \in Editor : at'[x] = at[x] /\ (x # c => step'[x] = step[x])
        BY <2>2, HandlerStays DEF RoomInv
      <3>3. KeepRoom(c, yjsState') /\ yjsState' \in Doc \cup {Absent}
        BY <1>1, <2>2
      <3>4. QED
        BY <2>1, <2>2, <3>1, <3>2, <3>3, OpenKept
    <2>3. CASE HandlerGoes(c, "adopting", Empty) /\ UNCHANGED <<yjsState, room>>
      BY <2>1, <2>3, MoveKept
    <2>4. QED
      BY <1>3, <2>2, <2>3 DEF Elect
  <1>4. CASE ElectionErrs(c)
    BY <1>4, MoveKept DEF ElectionErrs, pastVars
  <1>5. CASE AdoptPersisted(c)
    <2>1. /\ step[c] = "adopting" /\ KeepRoom(c, yjsState') /\ HandlerGoes(c, "ready", Empty)
          /\ UNCHANGED <<yjsState, owed>>
      BY <1>5 DEF AdoptPersisted, pastVars
    <2>2. /\ room[at[c]] = Absent
          /\ \A x \in Editor \ {c} : step[x] \in Opening => at[x] # at[c]
      BY <2>1 DEF KeepInv, OpeningInv, Opening
    <2>3. /\ step'[c] = "ready"
          /\ \A x \in Editor : at'[x] = at[x] /\ (x # c => step'[x] = step[x])
      BY <2>1, HandlerStays DEF RoomInv
    <2>4. QED
      BY <1>1, <2>1, <2>2, <2>3, OpenKept
  <1>6. CASE WriteFlush(c)
    BY <1>6, MoveKept DEF WriteFlush, AfterWrite, pastVars
  <1>7. CASE FlushFails(c)
    BY <1>7, MoveKept DEF FlushFails, AfterWrite
  <1>8. CASE Disconnect(c)
    BY <1>8, MoveKept DEF Disconnect, pastVars
  <1>9. CASE CountLeft(c)
    <2> DEFINE gone == Evicting \cup {"leaving", "away"}
    <2>1. /\ step[c] = "leaving" /\ UNCHANGED <<yjsState, room, owed>>
          /\ \/ /\ HandlerGoes(c, "evicting", Empty)
                /\ \A x \in Editor : at[x] = at[c] => step[x] \in gone
             \/ /\ HandlerGoes(c, "away", Empty)
                /\ \E x \in Editor : at[x] = at[c] /\ step[x] \notin gone
      BY <1>9 DEF CountLeft, pastVars
    <2>2. QED
      BY <2>1, MoveKept
  <1>10. CASE EvictRoom(c)
    <2>1. /\ step[c] = "evicting" /\ ~Locked(at[c]) /\ KeepRoom(c, Absent)
          /\ UNCHANGED <<yjsState, owed>>
      BY <1>10 DEF EvictRoom, pastVars
    <2>2. CASE room[at[c]] = Absent
      <3>1. room' = room /\ HandlerGoes(c, "away", Empty)
        BY <1>1, <1>10, <2>1, <2>2 DEF EvictRoom, KeepRoom
      <3>2. QED
        BY <2>1, <2>2, <3>1, MoveKept
    <2>3. CASE room[at[c]] # Absent
      BY <1>10, <2>1, <2>3, CloseKept DEF EvictRoom
    <2>4. QED
      BY <2>2, <2>3
  <1>11. QED
    BY <1>2, <1>3, <1>4, <1>5, <1>6, <1>7, <1>8, <1>9, <1>10

LEMMA StepKept == RoomInv /\ KeepInv /\ [YjsNext]_yjsVars => KeepInv'
  <1> SUFFICES ASSUME RoomInv, KeepInv, [YjsNext]_yjsVars PROVE KeepInv'
    OBVIOUS
  <1>1. ASSUME NEW c \in Editor, NEW n \in Node, Connect(c, n) PROVE KeepInv'
    BY <1>1, ConnectKept
  <1>2. ASSUME NEW c \in Editor,
               \/ OpenRoom(c) \/ Elect(c) \/ ElectionErrs(c) \/ AdoptPersisted(c)
               \/ WriteFlush(c) \/ FlushFails(c) \/ Disconnect(c) \/ CountLeft(c)
               \/ EvictRoom(c) \/ SyncUp(c)
        PROVE  KeepInv'
    BY <1>2, HandlersKept, SyncUpKept
  <1>3. QED
    BY <1>1, <1>2, QuietKept DEF YjsNext

(* The edits a room applied stay with the server through evictions and      *)
(* openings (evict_room, load_or_seed_doc, flush), but for what the         *)
(* definition names.                                                        *)
THEOREM OwedEditsAreKept == YjsSpec => []EditsAreKept
  <1>1. RoomInv /\ KeepInv => EditsAreKept
    <2> SUFFICES ASSUME RoomInv, KeepInv, owed # {} PROVE EditsAreKept
      BY DEF EditsAreKept
    <2> DEFINE D == {room[n] : n \in Node} \cup {yjsState} \cup {held[c] : c \in Editor}
    <2>1. \E d \in D : owed \subseteq d.edits
      <3>1. CASE ~NoRoom
        BY <3>1 DEF NoRoom, KeepInv, WhereInv
      <3>2. CASE \E c \in Editor : step[c] = "closing"
        BY <3>2 DEF KeepInv, WhereInv
      <3>3. CASE NoRoom /\ \A c \in Editor : step[c] # "closing"
        BY <3>3 DEF KeepInv, WhereInv
      <3>4. QED
        BY <3>1, <3>2, <3>3
    <2>2. owed \subseteq UNION {d.edits : d \in D}
      BY <2>1
    <2>3. QED
      BY <2>2 DEF EditsAreKept
  <1>2. QED
    BY <1>1, InitRoom, StepRoom, InitKept, StepKept, PTL DEF YjsSpec
-----------------------------------------------------------------------------
(* The types of what RoomTypes leaves open.                                 *)
Doing == {"away", "ready", "seeding", "adopting", "flushing", "leaving",
          "evicting", "closing"}
RestTypes ==
    /\ step \in [Editor -> Doing]
    /\ at \in [Editor -> Node \cup {Nowhere}]
    /\ nulling \in BOOLEAN /\ cleared \in BOOLEAN
    /\ connects \in 0..MaxConnects /\ seedsMade \in 0..MaxSeeds
    /\ editsMade \in 0..MaxEdits /\ troubles \in 0..MaxTroubles
    /\ owed \subseteq 1..MaxEdits

LEMMA InitRest == YjsInit => RestTypes
  <1>1. 0 \in 0..MaxConnects /\ 0 \in 0..MaxSeeds /\ 0 \in 0..MaxEdits
        /\ 0 \in 0..MaxTroubles
    BY YjsAssumption
  <1>2. QED
    BY <1>1 DEF YjsInit, RestTypes, Doing

LEMMA GoesTypes ==
    ASSUME RestTypes, NEW c \in Editor, NEW s \in Doing, NEW d, HandlerGoes(c, s, d)
    PROVE  /\ step' \in [Editor -> Doing]
           /\ at' \in [Editor -> Node \cup {Nowhere}]
  BY DEF RestTypes, HandlerGoes

LEMMA OpenRestTypes ==
    ASSUME RestTypes, NEW c \in Editor,
           OpenRoom(c) \/ Elect(c) \/ ElectionErrs(c) \/ AdoptPersisted(c)
    PROVE  RestTypes'
  <1>1. UNCHANGED <<nulling, cleared, connects, editsMade, owed>>
    BY DEF OpenRoom, Elect, ElectionErrs, AdoptPersisted, countVars, pastVars
  <1>2. seedsMade' \in 0..MaxSeeds /\ troubles' \in 0..MaxTroubles
    <2>1. seedsMade' = seedsMade \/ (seedsMade < MaxSeeds /\ seedsMade' = seedsMade + 1)
      BY DEF OpenRoom, Elect, ElectionErrs, AdoptPersisted, countVars
    <2>2. troubles' = troubles \/ (troubles < MaxTroubles /\ troubles' = troubles + 1)
      BY DEF OpenRoom, Elect, ElectionErrs, AdoptPersisted, countVars
    <2>3. QED
      BY <2>1, <2>2, YjsAssumption DEF RestTypes
  <1>3. UNCHANGED handlerVars \/ \E s \in Doing : \E d : HandlerGoes(c, s, d)
    BY DEF OpenRoom, Elect, ElectionErrs, AdoptPersisted, Doing
  <1>4. /\ step' \in [Editor -> Doing] /\ at' \in [Editor -> Node \cup {Nowhere}]
    <2>1. CASE UNCHANGED handlerVars
      BY <2>1 DEF handlerVars, RestTypes
    <2>2. ASSUME NEW s \in Doing, NEW d, HandlerGoes(c, s, d)
          PROVE  /\ step' \in [Editor -> Doing]
                 /\ at' \in [Editor -> Node \cup {Nowhere}]
      BY <2>2, GoesTypes
    <2>3. QED
      BY <1>3, <2>1, <2>2
  <1>5. QED
    BY <1>1, <1>2, <1>4 DEF RestTypes

LEMMA LeaveRestTypes ==
    ASSUME RestTypes, NEW c \in Editor,
           \/ WriteFlush(c) \/ FlushFails(c) \/ Disconnect(c) \/ CountLeft(c)
           \/ EvictRoom(c)
    PROVE  RestTypes'
  <1>1. UNCHANGED <<nulling, cleared, connects, seedsMade, editsMade>>
    BY DEF WriteFlush, FlushFails, Disconnect, CountLeft, EvictRoom, countVars, pastVars
  <1>2. owed' = owed \/ owed' = {}
    BY DEF WriteFlush, FlushFails, Disconnect, CountLeft, EvictRoom, pastVars
  <1>3. troubles' \in 0..MaxTroubles
    <2>1. troubles' = troubles \/ (troubles < MaxTroubles /\ troubles' = troubles + 1)
      BY DEF WriteFlush, FlushFails, Disconnect, CountLeft, EvictRoom, countVars
    <2>2. QED
      BY <2>1, YjsAssumption DEF RestTypes
  <1>4. \E s \in Doing : \E d : HandlerGoes(c, s, d)
    BY DEF WriteFlush, FlushFails, Disconnect, CountLeft, EvictRoom, AfterWrite, Doing
  <1>5. /\ step' \in [Editor -> Doing] /\ at' \in [Editor -> Node \cup {Nowhere}]
    BY <1>4, GoesTypes
  <1>6. QED
    BY <1>1, <1>2, <1>3, <1>5 DEF RestTypes

LEMMA EditRestTypes ==
    ASSUME RoomTypes, RestTypes, NEW c \in Editor,
           MakeEdit(c) \/ SyncDown(c) \/ SyncUp(c)
    PROVE  RestTypes'
  <1>1. UNCHANGED <<nulling, cleared, connects, seedsMade, troubles>>
    BY DEF MakeEdit, SyncDown, SyncUp, countVars, pastVars
  <1>2. editsMade' \in 0..MaxEdits
    <2>1. editsMade' = editsMade \/ (editsMade < MaxEdits /\ editsMade' = editsMade + 1)
      BY DEF MakeEdit, SyncDown, SyncUp, countVars
    <2>2. QED
      BY <2>1, YjsAssumption DEF RestTypes
  <1>3. owed' \subseteq 1..MaxEdits
    BY DEF MakeEdit, SyncDown, SyncUp, pastVars, RestTypes, RoomTypes, Doc
  <1>4. UNCHANGED handlerVars \/ \E d : HandlerGoes(c, "flushing", d)
    BY DEF MakeEdit, SyncDown, SyncUp
  <1>5. /\ step' \in [Editor -> Doing] /\ at' \in [Editor -> Node \cup {Nowhere}]
    <2>1. CASE UNCHANGED handlerVars
      BY <2>1 DEF handlerVars, RestTypes
    <2>2. ASSUME NEW d, HandlerGoes(c, "flushing", d)
          PROVE  /\ step' \in [Editor -> Doing]
                 /\ at' \in [Editor -> Node \cup {Nowhere}]
      BY <2>2, GoesTypes DEF Doing
    <2>3. QED
      BY <1>4, <2>1, <2>2
  <1>6. QED
    BY <1>1, <1>2, <1>3, <1>5 DEF RestTypes

LEMMA StepRest == RoomTypes /\ RestTypes /\ [YjsNext]_yjsVars => RestTypes'
  <1> SUFFICES ASSUME RoomTypes, RestTypes, [YjsNext]_yjsVars PROVE RestTypes'
    OBVIOUS
  <1>1. ASSUME NEW c \in Editor, NEW n \in Node, Connect(c, n) PROVE RestTypes'
    <2>1. connects' \in 0..MaxConnects
      BY <1>1, YjsAssumption DEF Connect, RestTypes
    <2>2. step' \in [Editor -> Doing] /\ at' \in [Editor -> Node \cup {Nowhere}]
      BY <1>1 DEF Connect, RestTypes, Doing
    <2>3. owed' \subseteq 1..MaxEdits
      BY <1>1 DEF Connect, RestTypes
    <2>4. QED
      BY <1>1, <2>1, <2>2, <2>3 DEF Connect, RestTypes
  <1>2. ASSUME NEW n \in Node, Restart(n) PROVE RestTypes'
    <2>1. troubles' \in 0..MaxTroubles
      BY <1>2, YjsAssumption DEF Restart, RestTypes
    <2>2. step' \in [Editor -> Doing] /\ at' \in [Editor -> Node \cup {Nowhere}]
      BY <1>2 DEF Restart, RestTypes, Doing
    <2>3. QED
      BY <1>2, <2>1, <2>2 DEF Restart, RestTypes
  <1>3. ASSUME NEW n \in Node, BeginContentWrite(n) PROVE RestTypes'
    <2>1. troubles' \in 0..MaxTroubles
      BY <1>3, YjsAssumption DEF BeginContentWrite, RestTypes
    <2>2. QED
      BY <1>3, <2>1 DEF BeginContentWrite, RestTypes, handlerVars, pastVars
  <1>4. CASE FinishContentWrite
    <2>1. cleared' \in BOOLEAN
      BY <1>4 DEF FinishContentWrite, RestTypes
    <2>2. owed' \subseteq 1..MaxEdits
      BY <1>4 DEF FinishContentWrite, RestTypes
    <2>3. QED
      BY <1>4, <2>1, <2>2 DEF FinishContentWrite, RestTypes, handlerVars, countVars
  <1>5. CASE UNCHANGED yjsVars
    BY <1>5 DEF yjsVars, RestTypes, handlerVars, countVars, pastVars
  <1>6. ASSUME NEW c \in Editor,
               \/ OpenRoom(c) \/ Elect(c) \/ ElectionErrs(c) \/ AdoptPersisted(c)
               \/ MakeEdit(c) \/ SyncDown(c) \/ SyncUp(c) \/ WriteFlush(c)
               \/ FlushFails(c) \/ Disconnect(c) \/ CountLeft(c) \/ EvictRoom(c)
        PROVE  RestTypes'
    BY <1>6, OpenRestTypes, LeaveRestTypes, EditRestTypes
  <1>7. QED
    BY <1>1, <1>2, <1>3, <1>4, <1>5, <1>6 DEF YjsNext

LEMMA RoomTypesTogether == RoomInv /\ RestTypes => YjsTypeOK
  BY DEF RoomInv, RoomTypes, RestTypes, YjsTypeOK, Doing, Evicting

(* The rooms, the stored document, the tabs and their handlers keep to      *)
(* their types.                                                             *)
THEOREM RoomKeepsItsTypes == YjsSpec => []YjsTypeOK
  <1>1. RoomInv => RoomTypes
    BY DEF RoomInv
  <1>2. QED
    BY <1>1, InitRoom, StepRoom, InitRest, StepRest, RoomTypesTogether, PTL DEF YjsSpec
=============================================================================
