---------------------------- MODULE EventDetail ----------------------------
(***************************************************************************)
(* The web wallet's page of one event (wallet-app/src/pages/               *)
(* EventDetailPage.tsx): a row's link carries the event along, an address  *)
(* without it makes the page ask the server.  Walking the history may lead *)
(* from one event's page straight to another's, which is then the same     *)
(* component with its old state, and answers may come in any order.        *)
(***************************************************************************)
EXTENDS EventsApi

CONSTANTS MaxFetches   \* bound: calls under way

VARIABLES
    detail,   \* the page's state, target 0 when it is not shown
    fetches   \* its calls under way; mounted: the flag of the effect that made it

detailVars == <<detail, fetches>>

\* route: the event the link carried along; error: the event whose loading the
\* message is about.  0 for none.
NoDetail == [target |-> 0, route |-> 0, event |-> 0, loading |-> FALSE, error |-> 0]
Mounted == detail.target # 0
effectiveEvent == IF detail.route = detail.target THEN detail.route ELSE detail.event

\* The effect, for the page's state d: the one before it is cleaned up.  The
\* render that leads to it is the same step: that for one frame, until the effect
\* has set the event back, the old one is shown at the new address, is left out.
RunEffect(d) ==
    LET stale == {[f EXCEPT !.mounted = FALSE] : f \in fetches}
    IN  IF d.route = d.target
        THEN detail' = d /\ fetches' = stale
        ELSE /\ detail' = [d EXCEPT !.event = 0, !.loading = TRUE, !.error = 0]
             /\ fetches' = stale \cup {[target |-> d.target, mounted |-> TRUE]}

\* A link that was shown, an address, or a step in the history.
ShowDetail(target, route) ==
    /\ route \in {0, target} /\ detail.target # target
    /\ route # 0 => findEventByID(target)
    /\ Cardinality(fetches) < MaxFetches
    /\ RunEffect(IF Mounted THEN [detail EXCEPT !.target = target, !.route = route]
                 ELSE [NoDetail EXCEPT !.target = target, !.route = route, !.event = route])
    /\ UNCHANGED produced

\* The session changes under the page: the effect depends on signOut.
RerunEffect ==
    /\ Mounted /\ Cardinality(fetches) < MaxFetches
    /\ RunEffect(detail)
    /\ UNCHANGED produced

\* Nothing a call brings changes anything once the page is gone.
LeaveDetail ==
    /\ Mounted
    /\ detail' = NoDetail /\ fetches' = {}
    /\ UNCHANGED produced

\* Faulty variant: the flag is not looked at.
DetailAnsweredAnyway(f) ==
    /\ detail' = IF findEventByID(f.target)
                 THEN [detail EXCEPT !.loading = FALSE, !.event = f.target]
                 ELSE [detail EXCEPT !.loading = FALSE, !.error = f.target]
    /\ fetches' = fetches \ {f}
    /\ UNCHANGED produced

\* The answer, and any failure but a rejection, which signs the user out.
DetailAnswered(f) ==
    /\ detail' = IF ~f.mounted THEN detail
                 ELSE IF findEventByID(f.target)
                      THEN [detail EXCEPT !.loading = FALSE, !.event = f.target]
                      ELSE [detail EXCEPT !.loading = FALSE, !.error = f.target]
    /\ fetches' = fetches \ {f}
    /\ UNCHANGED produced

DetailFailed(f) ==
    /\ detail' = IF f.mounted THEN [detail EXCEPT !.loading = FALSE, !.error = f.target] ELSE detail
    /\ fetches' = fetches \ {f}
    /\ UNCHANGED produced

DetailGrows == Produced /\ UNCHANGED detailVars

DetailInit == detail = NoDetail /\ fetches = {}
DetailNext ==
    \/ DetailGrows \/ RerunEffect \/ LeaveDetail
    \/ \E e \in Events, route \in Events \cup {0} : ShowDetail(e, route)
    \/ \E f \in fetches : DetailAnswered(f) \/ DetailFailed(f)

\* The page on its own, over a log that grows.
DetailSpec == produced = 0 /\ DetailInit /\ [][DetailNext]_<<produced, detailVars>>

\* The page never shows another event than the one in its address, in whatever
\* order the answers come and the history is walked; and a message about
\* another event may be left over only above an event that the link carried.
DetailShowsTarget ==
    Mounted => /\ effectiveEvent \in {0, detail.target}
               /\ detail.error \in {0, detail.target} \/ detail.route = detail.target

\* The page waits for an event only while its call for it is under way.
DetailWaitsForCall ==
    Mounted /\ effectiveEvent = 0 /\ detail.loading =>
        [target |-> detail.target, mounted |-> TRUE] \in fetches

\* The page shows its event, or waits for it with reason, whenever its effects
\* have run: not in the frame between a change of address and setEvent(null).
DetailSafe == DetailShowsTarget /\ DetailWaitsForCall
=============================================================================
