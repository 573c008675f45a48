----------------------------- MODULE EventsPage -----------------------------
(***************************************************************************)
(* The web wallet's event list and its exports                             *)
(* (wallet-app/src/pages/EventsPage.tsx, lib/eventExport.ts) over the      *)
(* API's paging of a log that grows meanwhile.                             *)
(*                                                                         *)
(* A call either brings the server's answer or fails; ApiClient says how.  *)
(* A rejection that signs the user out is a departure from the page here.  *)
(* Leaving the page does not stop its export.                              *)
(***************************************************************************)
EXTENDS EventsApi

CONSTANTS
    PAGE_SIZE_OPTIONS, \* page sizes, the first one the default
    HeightInputs,      \* what the height fields may hold, NoHeight if empty
    EventTypes,        \* what the type field may hold, "all" if empty
    exportPageSize, maxPages, maxRecords,
    MaxLoads, MaxExports,  \* bounds: loads and exports under way at once
    MaxOffset              \* bound: how far the next-page button is pressed

BadHeight == -2   \* text that is not a natural number

\* The last conjunct is what keeps an export from being cut off silently.
ASSUME EventsAssumption ==
    /\ PAGE_SIZE_OPTIONS \in Seq(Nat \ {0}) /\ PAGE_SIZE_OPTIONS # <<>>
    /\ HeightInputs \subseteq Nat \cup {NoHeight, BadHeight}
    /\ exportPageSize \in Nat \ {0} /\ maxPages \in Nat /\ maxRecords \in Nat
    /\ MaxLoads \in Nat /\ MaxExports \in Nat /\ MaxOffset \in Nat
    /\ maxPages * exportPageSize > maxRecords

VARIABLES
    shown,    \* whether the list page is
    list,     \* its state
    loads,    \* its loads under way, in slots
    exports,  \* the exports under way, in slots
    file      \* what the last step downloaded

listVars == <<shown, list, loads, exports, file>>
-----------------------------------------------------------------------------
(* The list.                                                               *)
NoFile == [lacks |-> {}, repeats |-> FALSE, moved |-> FALSE, cancelled |-> FALSE]
NoDownload == file' = NoFile
ListOnly == UNCHANGED <<produced, shown, exports>> /\ NoDownload

defaultQuery == [limit |-> PAGE_SIZE_OPTIONS[1], order |-> "desc", type |-> "all",
                 min |-> NoHeight, max |-> NoHeight]

\* hasMore, for: of the rows shown, whether there is a next page, and whether
\* they are "current", that is, answer the offset and the query above them, or
\* "stale".  abort: the export that exportAbortRef refers to, 0 for none.
\* excused: history, since a load failed or a change of the session made loads
\* overlap, none was answered for what is asked while no other was under way.
FreshList == [offset |-> 0, query |-> defaultQuery, hasMore |-> FALSE, for |-> "none",
              loading |-> TRUE, exporting |-> FALSE, abort |-> 0, excused |-> FALSE]
LoadSlots == 1 .. MaxLoads
NoLoads == [i \in LoadSlots |-> "none"]
RoomToLoad == \E i \in LoadSlots : loads[i] = "none"
FirstFreeLoad == CHOOSE i \in LoadSlots : loads[i] = "none" /\ \A j \in 1 .. i - 1 : loads[j] # "none"

\* The effect of loadEvents: a load for l's offset and query begins.  Rows and
\* loads of another offset or query are stale from now on.
StartLoad(l) ==
    LET same   == l.offset = list.offset /\ l.query = list.query
        Aged(f) == IF f = "current" /\ ~same THEN "stale" ELSE f
    IN  /\ RoomToLoad
        /\ list' = [l EXCEPT !.loading = TRUE, !.for = Aged(@)]
        /\ loads' = [i \in LoadSlots |-> IF i = FirstFreeLoad THEN "current" ELSE Aged(loads[i])]

LoadAnswered(i) ==
    /\ loads[i] # "none"
    /\ \E more \in IF loads[i] = "stale" THEN BOOLEAN
                   ELSE {getIndexerEvents(list.query, list.offset).hasMore} :
         list' = [list EXCEPT !.loading = FALSE, !.hasMore = more, !.for = loads[i],
                     !.excused = @ /\ ~(loads[i] = "current" /\ \A j \in LoadSlots \ {i} : loads[j] = "none")]
    /\ loads' = [loads EXCEPT ![i] = "none"]
    /\ ListOnly

LoadFailed(i) ==
    /\ loads[i] # "none"
    /\ list' = [list EXCEPT !.loading = FALSE, !.excused = TRUE]
    /\ loads' = [loads EXCEPT ![i] = "none"]
    /\ ListOnly

\* Every control of the list but the export's cancel waits for the load.
Usable == shown /\ ~list.loading

\* parseHeightFilter and the checks of applyFilters.
ValidHeights(min, max) ==
    /\ BadHeight \notin {min, max}
    /\ NoHeight \in {min, max} \/ min <= max

applyFilters(limit, order, type, min, max) ==
    /\ Usable /\ ValidHeights(min, max)
    /\ StartLoad([list EXCEPT !.offset = 0,
                    !.query = [limit |-> limit, order |-> order, type |-> type,
                               min |-> min, max |-> max]])
    /\ ListOnly
resetFilters ==
    /\ Usable
    /\ StartLoad([list EXCEPT !.offset = 0, !.query = defaultQuery])
    /\ ListOnly

\* Setting the offset to what it is starts no load.
RefreshList ==
    /\ Usable /\ list.offset # 0
    /\ StartLoad([list EXCEPT !.offset = 0])
    /\ ListOnly
PrevPage ==
    /\ Usable /\ list.offset > 0
    /\ StartLoad([list EXCEPT !.offset = IF @ > list.query.limit THEN @ - list.query.limit ELSE 0])
    /\ ListOnly

\* Faulty variant: the button works while a load is under way.
NextPageEager ==
    /\ shown /\ list.hasMore /\ list.offset < MaxOffset
    /\ StartLoad([list EXCEPT !.offset = @ + list.query.limit])
    /\ ListOnly

\* While loads fail, hasMore stays and the offset may grow past the end.
NextPage ==
    /\ Usable /\ list.hasMore /\ list.offset < MaxOffset
    /\ StartLoad([list EXCEPT !.offset = @ + list.query.limit])
    /\ ListOnly
-----------------------------------------------------------------------------
(* The exports.                                                            *)
ExportSlots == 1 .. MaxExports
\* since (history): how many events there were at its beginning.
NoExport == [running |-> FALSE, query |-> defaultQuery, offset |-> 0, pages |-> 0,
             events |-> <<>>, aborted |-> FALSE, mine |-> FALSE, since |-> 0]
Running(x) == exports[x].running

\* exportAllAsJson and exportAllAsCsv up to the first await.
exportAll ==
    /\ Usable /\ ~list.exporting
    /\ \E x \in ExportSlots :
         /\ ~Running(x) /\ \A y \in 1 .. x - 1 : Running(y)
         /\ exports' = [y \in ExportSlots |->
                CASE y = x -> [NoExport EXCEPT !.running = TRUE, !.query = [list.query EXCEPT !.limit = exportPageSize],
                                               !.mine = TRUE, !.since = produced]
                  [] y # x /\ y = list.abort -> [exports[y] EXCEPT !.aborted = TRUE]
                  [] OTHER -> exports[y]]
         /\ list' = [list EXCEPT !.exporting = TRUE, !.abort = x]
    /\ UNCHANGED <<produced, shown, loads>> /\ NoDownload

cancelExport ==
    /\ shown /\ list.exporting /\ list.abort # 0
    /\ exports' = [exports EXCEPT ![list.abort].aborted = TRUE]
    /\ UNCHANGED <<produced, shown, list, loads>> /\ NoDownload

\* The finally block, for the page that began export x.
EndExport(x) ==
    [list EXCEPT !.exporting = @ /\ ~exports[x].mine, !.abort = IF exports[x].mine /\ @ = x THEN 0 ELSE @]

\* How the loop goes on after a page: the signal is looked at before the next
\* page and after the last; a file is saved unless there is nothing to save.
Outcome(x, more) ==
    CASE x.aborted -> "cancelled"
      [] ~x.aborted /\ more -> "fetching"
      [] ~x.aborted /\ ~more /\ x.events = <<>> -> "empty"
      [] OTHER -> "saved"

\* Faulty variant: the pages are counted from one.
NextOffsetCounted(x) == (x.pages + 1) * exportPageSize
\* Where the next page begins.
NextOffset(x) == Len(x.events)

\* What the properties ask of the file that export x saves: the events it lacks
\* of those there were when it began, whether it has one twice, whether its
\* pages may have moved, and whether it had been cancelled.
Saved(x) ==
    [lacks |-> {e \in Range(filterEvents(x.query)) : e <= x.since /\ ~Contains(x.events, e)},
     repeats |-> ~IsInjective(x.events),
     moved |-> x.query.order = "desc" /\ produced > x.since,
     cancelled |-> x.aborted]

\* Export x is over.
CloseExport(x) ==
    /\ exports' = [exports EXCEPT ![x] = NoExport]
    /\ list' = EndExport(x)

\* collectAllEvents: a page arrives.
Collect(x) ==
    /\ Running(x)
    /\ LET answer == getIndexerEvents(exports[x].query, exports[x].offset)
           total  == Len(filterEvents(exports[x].query))
           got    == [exports[x] EXCEPT !.events = @ \o answer.events, !.pages = @ + 1]
           more   == answer.hasMore /\ got.pages < maxPages /\ answer.events # <<>>
           state  == IF total > maxRecords \/ Len(got.events) > maxRecords THEN "too many"
                     ELSE Outcome(got, more)
       IN  IF state = "fetching"
           THEN /\ exports' = [exports EXCEPT ![x] = [got EXCEPT !.offset = NextOffset(got)]]
                /\ UNCHANGED list /\ NoDownload
           ELSE /\ CloseExport(x)
                /\ file' = IF state = "saved" THEN Saved(got) ELSE NoFile
    /\ UNCHANGED <<produced, shown, loads>>

\* Faulty variant: a page that fails starts the export over.
CollectFailedRestarts(x) ==
    /\ Running(x)
    /\ exports' = [exports EXCEPT ![x].offset = 0, ![x].pages = 0, ![x].events = <<>>]
    /\ UNCHANGED <<produced, shown, list, loads>> /\ NoDownload
CollectFailed(x) ==
    /\ Running(x)
    /\ CloseExport(x)
    /\ UNCHANGED <<produced, shown, loads>> /\ NoDownload
-----------------------------------------------------------------------------
(* Coming and going.  The calls of a page that was left change nothing on  *)
(* the next one, its exports go on.                                        *)
ShowList ==
    /\ ~shown
    /\ shown' = TRUE /\ list' = FreshList
    /\ loads' = [NoLoads EXCEPT ![1] = "current"]
    /\ UNCHANGED <<produced, exports>> /\ NoDownload
LeaveList ==
    /\ shown
    /\ shown' = FALSE /\ list' = FreshList /\ loads' = NoLoads
    /\ exports' = [x \in ExportSlots |-> [exports[x] EXCEPT !.mine = FALSE]]
    /\ UNCHANGED produced /\ NoDownload

\* The session changes under the page, which is given a new signOut: the load
\* depends on it and runs again.
RerunLoad ==
    /\ shown
    /\ StartLoad([list EXCEPT !.excused = @ \/ \E i \in LoadSlots : loads[i] # "none"])
    /\ ListOnly

ListGrows ==
    /\ Produced
    /\ UNCHANGED <<shown, list, loads, exports>> /\ NoDownload
-----------------------------------------------------------------------------
ListInit ==
    /\ shown = FALSE /\ list = FreshList /\ loads = NoLoads
    /\ exports = [x \in ExportSlots |-> NoExport] /\ file = NoFile

FilterNext ==
    \/ \E limit \in Range(PAGE_SIZE_OPTIONS), order \in {"asc", "desc"}, type \in EventTypes,
          min \in HeightInputs, max \in HeightInputs : applyFilters(limit, order, type, min, max)
    \/ resetFilters
PagingNext ==
    \/ ListGrows \/ ShowList \/ LeaveList \/ RerunLoad
    \/ FilterNext \/ RefreshList \/ PrevPage \/ NextPage
    \/ \E i \in LoadSlots : LoadAnswered(i) \/ LoadFailed(i)
ExportNext ==
    \/ exportAll \/ cancelExport
    \/ \E x \in ExportSlots : Collect(x) \/ CollectFailed(x)

\* The page on its own, over a log that grows.
ListSpec == produced = 0 /\ ListInit /\ [][PagingNext \/ ExportNext]_<<produced, listVars>>
-----------------------------------------------------------------------------
\* Type invariant, with what is kept of a page that is not shown.
ListTypeOK ==
    /\ produced \in 0 .. Len(Log) /\ shown \in BOOLEAN
    /\ ~shown => list = FreshList /\ loads = NoLoads
    /\ list.offset \in Nat /\ list.abort \in 0 .. MaxExports
    /\ loads \in [LoadSlots -> {"none", "current", "stale"}]
    /\ \A x \in ExportSlots : Range(exports[x].events) \subseteq 1 .. produced

\* The rows shown answer the page and the filters shown above them, once the
\* loading is over: no answer to an earlier page or filter arrives late.  The
\* exceptions are a load that failed, which leaves the old rows there, and
\* loads that a change of the session made overlap.
ShownMatchesQuery ==
    shown /\ ~list.loading /\ ~list.excused => list.for = "current"

\* A saved export has every event that matched when it began, although the
\* pages move when events arrive, and although each is a query of its own.
ExportComplete == file.lacks = {}

\* An export has an event twice only if it goes from the newest to the oldest
\* and events arrived meanwhile.
ExportRepeatsExplained == file.repeats => file.moved

\* An export that was cancelled is never saved, however late the cancelling.
CancelledNotSaved == ~file.cancelled

\* The page says it is exporting exactly while an export of its own is under
\* way, and that is the one its cancel button stops; there is at most one.
ExportInReach ==
    LET own == {x \in ExportSlots : exports[x].mine /\ Running(x)}
    IN  own = IF list.exporting THEN {list.abort} ELSE {}

\* What the page shows and offers fits what is under way.
ListSafe == ListTypeOK /\ ShownMatchesQuery /\ ExportInReach

\* A saved export is what the user asked for.
ExportFaithful == ExportComplete /\ ExportRepeatsExplained /\ CancelledNotSaved

\* Every export comes to an end.
ExportEnds == \A x \in ExportSlots : Running(x) ~> ~Running(x)
=============================================================================
