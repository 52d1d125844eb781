------------------------------ MODULE Chunking ------------------------------
(***************************************************************************)
(* The messages of a data channel in packages:                             *)
(* crates/connect-webrtc/src/chunking.rs.  A message goes as its metaData  *)
(* and its chunks; the channel keeps the order of what one end sends, and  *)
(* that end may send several messages at once, and give one up half way.   *)
(* The receiver reassembles each by its id.  A hash is that of the content *)
(* it was taken of; a chunk that does not decode is left out.              *)
(***************************************************************************)
EXTENDS Naturals, Sequences, SequencesExt

CONSTANTS Bodies,      \* the messages of one end, by id: how many chunks each has
          MaxInFlight  \* MAX_IN_FLIGHT

VARIABLES packages,    \* of each message: how many left, its metaData first
          spoilt,      \* messages whose hash is not that of their content
          in_flight,   \* Reassembly: [id, received], oldest first
          outcomes     \* what accept returned, in order: [id, what]

chunking == <<packages, spoilt, in_flight, outcomes>>

MessageIds == DOMAIN Bodies

ChunkingInit == /\ packages = [m \in MessageIds |-> 0] /\ spoilt = {}
                /\ in_flight = <<>> /\ outcomes = <<>>

\* Reassembler::finish.
finish(m) == [id |-> m, what |-> IF m \in spoilt THEN "invalid" ELSE "message"]

\* MUTANT of MakeRoom: one message at a time, the newer replaces the older.
Replaces(flight) == [kept |-> <<>>, dropped |-> <<>>]

\* Room for one more: the oldest is dropped, and its sender told.
MakeRoom(flight) ==
    IF Len(flight) >= MaxInFlight
    THEN [kept |-> Tail(flight), dropped |-> <<[id |-> Head(flight).id, what |-> "dropped"]>>]
    ELSE [kept |-> flight, dropped |-> <<>>]

\* message_to_chunks' metaData, and accept of it.
SendsMetaData(m, hash) ==
    /\ packages[m] = 0
    /\ packages' = [packages EXCEPT ![m] = 1]
    /\ spoilt' = IF hash = "other" THEN spoilt \cup {m} ELSE spoilt
    /\ LET room == MakeRoom(in_flight)
       IN  IF Bodies[m] = 0
           THEN \* complete at once, and no JSON document
                /\ in_flight' = room.kept
                /\ outcomes' = outcomes \o room.dropped \o <<[id |-> m, what |-> "invalid"]>>
           ELSE /\ in_flight' = Append(room.kept, [id |-> m, received |-> 0])
                /\ outcomes' = outcomes \o room.dropped

\* Its next chunk, and accept of it: of a message that was dropped it is ignored.
SendsChunk(m) ==
    LET at == {k \in 1..Len(in_flight) : in_flight[k].id = m} IN
    /\ packages[m] \in 1..Bodies[m]
    /\ packages' = [packages EXCEPT ![m] = @ + 1]
    /\ IF at = {} THEN UNCHANGED <<in_flight, outcomes>>
       ELSE LET k == CHOOSE j \in at : TRUE
                received == in_flight[k].received + 1
            IN  IF received = Bodies[m]
                THEN /\ in_flight' = RemoveAt(in_flight, k)
                     /\ outcomes' = Append(outcomes, finish(m))
                ELSE /\ in_flight' = [in_flight EXCEPT ![k].received = received]
                     /\ UNCHANGED outcomes
    /\ UNCHANGED spoilt

ChunkingNext == \E m \in MessageIds : \/ \E hash \in {"its own", "other"} : SendsMetaData(m, hash)
                                      \/ SendsChunk(m)

\* A message that left whole came to one outcome, and one that is given up is
\* being waited for or was dropped: however the packages of several messages
\* interleave, none is lost without its sender being told, and none is handed
\* over twice.  chunking.rs: "One message at a time lost a message whenever
\* another one's packages arrived before it was complete".
EveryMessageIsTold ==
    \A m \in MessageIds :
      LET ends == {k \in 1..Len(outcomes) : outcomes[k].id = m}
          waiting == {k \in 1..Len(in_flight) : in_flight[k].id = m}
      IN  /\ \A j, k \in ends : j = k
          /\ packages[m] > 0 => (ends = {}) # (waiting = {})
          /\ packages[m] > Bodies[m] => waiting = {}
==============================================================================
