----------------------------- MODULE EventsApi -----------------------------
(***************************************************************************)
(* The API server's event queries (soulon-backend/internal/api/server.go)  *)
(* over the indexer's log, which grows between any two of them.  Events    *)
(* are known by their place in the log.                                    *)
(***************************************************************************)
EXTENDS Integers, SequencesExt

CONSTANTS Log   \* the events the indexer will append, [type, height]

ASSUME LogAssumption == Log \in Seq([type : STRING, height : Nat])

VARIABLES produced   \* how many of them there are

Events == 1 .. Len(Log)
NoHeight == -1   \* a height filter that is not set

\* Whether the query keeps event e.
Keeps(query, e) ==
    /\ query.type \in {"all", Log[e].type}
    /\ query.min = NoHeight \/ Log[e].height >= query.min
    /\ query.max = NoHeight \/ Log[e].height <= query.max

\* The loop of filterEvents, by how many events it has gone through.
Filtered(query) ==
    LET filtered[n \in 0 .. Len(Log)] ==
            IF n = 0 THEN <<>>
            ELSE IF Keeps(query, n) THEN Append(filtered[n - 1], n) ELSE filtered[n - 1]
    IN  filtered
filterEvents(query) == Filtered(query)[produced]

selectEvents(events, query, offset) ==
    LET ordered == IF query.order = "asc" THEN events ELSE Reverse(events)
        end     == IF offset + query.limit > Len(events) THEN Len(events)
                   ELSE offset + query.limit
    IN  [events |-> SubSeq(ordered, offset + 1, end), hasMore |-> end < Len(events)]

getIndexerEvents(query, offset) == selectEvents(filterEvents(query), query, offset)

\* handleIndexerEventByID.
findEventByID(id) == id \in 1 .. produced

Produced == produced < Len(Log) /\ produced' = produced + 1
=============================================================================
