---------------------------- MODULE MCEventsPage ----------------------------
(* A log of three events that grows while it is paged through, exported    *)
(* and looked at.  A behaviour has one view of it: the list with all that  *)
(* concerns its loads; the list with its exports, where the loads meet no  *)
(* failure and no change of the session, since an export shares only the   *)
(* query with them; or the event's page, which shares only the log.        *)
EXTENDS EventsPage, EventDetail

VARIABLES view

MCLog == <<[type |-> "new_block", height |-> 1], [type |-> "rollback", height |-> 1],
           [type |-> "new_block", height |-> 2]>>
MCPageSizes == <<1, 2>>
MCHeights == {BadHeight, 1}

eventsVars == <<view, produced, listVars, detailVars>>

EventsInit == view \in {"list", "export", "detail"} /\ produced = 0 /\ ListInit /\ DetailInit
EventsNext ==
    \/ view = "list" /\ PagingNext /\ UNCHANGED <<view, detailVars>>
    \/ /\ view = "export"
       /\ \/ ListGrows \/ ShowList \/ LeaveList \/ FilterNext \/ ExportNext
          \/ \E i \in LoadSlots : LoadAnswered(i)
       /\ UNCHANGED <<view, detailVars>>
    \/ view = "detail" /\ DetailNext /\ UNCHANGED <<view, listVars>>

\* Every call ends, by its timeout if not before.
EventsSpec ==
    /\ EventsInit /\ [][EventsNext]_eventsVars
    /\ \A x \in ExportSlots :
           WF_exports(CollectFailed(x) \/ Collect(x))
=============================================================================
