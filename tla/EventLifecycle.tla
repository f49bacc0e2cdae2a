--------------------------- MODULE EventLifecycle ---------------------------
(***************************************************************************)
(* The lifecycle state machines of the PAIOS domain: the statuses of an    *)
(* Event, of the Context Window it owns, of a Recommendation and of an     *)
(* Event Disturber, and the edges each machine permits.  Every transition  *)
(* in the program goes through one of these tables, and a store is only    *)
(* loaded when the history of each entity follows its table.               *)
(***************************************************************************)

EventStatus == {"Recommended", "Scheduled", "Ready", "Started", "Paused",
                "Resumed", "Interrupted", "Completed", "Skipped",
                "Cancelled", "Overtaken", "Archived"}

EventEdges ==
    ({"Recommended"} \X {"Scheduled"})
      \cup ({"Scheduled"} \X {"Ready", "Skipped", "Cancelled", "Overtaken"})
      \cup ({"Ready"} \X {"Started", "Skipped", "Cancelled", "Overtaken"})
      \cup ({"Started"} \X {"Paused", "Interrupted", "Completed"})
      \cup ({"Paused"} \X {"Resumed", "Cancelled"})
      \cup ({"Resumed"} \X {"Started", "Completed"})
      \cup ({"Interrupted"} \X {"Resumed", "Cancelled", "Overtaken"})
      \cup ({"Completed", "Skipped", "Cancelled"} \X {"Archived"})

\* Started and Resumed are the two statuses in which an Event is running.
RunningStates == {"Started", "Resumed"}

WindowStatus == {"Created", "Active", "Changing", "Expired", "Archived"}

WindowEdges == { <<"Created", "Active">>, <<"Active", "Changing">>,
                 <<"Active", "Expired">>, <<"Changing", "Expired">>,
                 <<"Expired", "Archived">> }

RecommendationStatus == {"Generated", "Pending", "Accepted", "Rejected",
                         "Expired", "Consumed"}

RecommendationEdges ==
    ({"Generated"} \X {"Pending"})
      \cup ({"Pending"} \X {"Accepted", "Rejected", "Expired"})
      \cup ({"Accepted"} \X {"Consumed"})

DisturberStatus == {"Detected", "Recorded", "Analyzed", "Applied",
                    "Resolved", "Archived"}

DisturberEdges == { <<"Detected", "Recorded">>, <<"Recorded", "Analyzed">>,
                    <<"Analyzed", "Applied">>, <<"Applied", "Resolved">>,
                    <<"Resolved", "Archived">> }

\* What a legal history can show next when several transitions are applied in
\* one handler: the statuses reached by one, two or three edges.
Hops(edges, from) ==
    LET next(S) == { e[2] : e \in { f \in edges : f[1] \in S } }
    IN  next({from}) \cup next(next({from})) \cup next(next(next({from})))

\* A change of an entity between two states follows its machine.
Follows(edges, from, to) == from = to \/ to \in Hops(edges, from)
=============================================================================
