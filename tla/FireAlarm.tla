----------------------------- MODULE FireAlarm -----------------------------
(***************************************************************************)
(* The page of the fire alarm and the server it polls.  The server keeps   *)
(* what was posted to it last; the page asks for it every three seconds    *)
(* and shows what the answer says, whichever request it answers.           *)
(*                                                                         *)
(* The posts are numbered, and a number stands for the data posted; the    *)
(* empty data of a server that starts again counts as one of them.         *)
(***************************************************************************)
EXTENDS Integers

CONSTANTS Request,      \* the requests a page can have under way
          MaxPosts      \* how often data is posted

ASSUME MaxPostsAssumption == MaxPosts \in Nat

VARIABLES
  data,                  \* the server's: the number of the last post
  state,                 \* what the page shows
  prevRequestCompleted,  \* the page's guard
  request, answer,       \* where each request is, and its answer
  overtaken              \* history: requests that others have been shown before

pageVars == <<data, state, prevRequestCompleted, request, answer, overtaken>>

PageInit ==
  /\ data = 0 /\ state = 0 /\ prevRequestCompleted = TRUE
  /\ request = [r \in Request |-> "none"] /\ answer = [r \in Request |-> 0]
  /\ overtaken = {}

\* The requests under way.
Pending == {r \in Request : request[r] # "none"}

RecvData ==
  /\ data < MaxPosts /\ data' = data + 1
  /\ UNCHANGED <<state, prevRequestCompleted, request, answer, overtaken>>

\* The interval function.  The argument of finally is evaluated at once: it sets
\* prevRequestCompleted back, and is no function to call later.
Tick(r) ==
  /\ prevRequestCompleted /\ request[r] = "none"
  /\ request' = [request EXCEPT ![r] = "sent"]
  /\ prevRequestCompleted' = TRUE
  /\ UNCHANGED <<data, state, answer, overtaken>>

\* Mutant: the server may answer with the data of the post before.
HandleGetDataOfBefore(r) ==
  /\ request[r] = "sent"
  /\ request' = [request EXCEPT ![r] = "answered"]
  /\ \E d \in {data - 1, data} \cap Nat : answer' = [answer EXCEPT ![r] = d]
  /\ UNCHANGED <<data, state, prevRequestCompleted, overtaken>>

HandleGetData(r) ==
  /\ request[r] = "sent"
  /\ request' = [request EXCEPT ![r] = "answered"]
  /\ answer' = [answer EXCEPT ![r] = data]
  /\ UNCHANGED <<data, state, prevRequestCompleted, overtaken>>

\* The request is no more under way; those that are left have been overtaken if
\* its answer was shown.
Ends(r, shown) ==
  /\ request' = [request EXCEPT ![r] = "none"] /\ answer' = [answer EXCEPT ![r] = 0]
  /\ overtaken' = (IF shown THEN Pending ELSE overtaken) \ {r}

\* then: the page shows the answer.
Then(r) ==
  /\ request[r] = "answered"
  /\ state' = answer[r]
  /\ Ends(r, TRUE)
  /\ UNCHANGED <<data, prevRequestCompleted>>

\* The request or its answer is lost, and the rejected promise with it.
Rejected(r) ==
  /\ request[r] # "none"
  /\ Ends(r, FALSE)
  /\ UNCHANGED <<data, state, prevRequestCompleted>>

PageNext == RecvData \/ \E r \in Request : Tick(r) \/ HandleGetData(r) \/ Then(r) \/ Rejected(r)

PageSpec == PageInit /\ [][PageNext]_pageVars

\* The page's timer runs, and not every request is lost.
FairPageSpec ==
  /\ PageSpec
  /\ \A r \in Request : WF_pageVars(Tick(r)) /\ SF_pageVars(HandleGetData(r)) /\ SF_pageVars(Then(r))

-----------------------------------------------------------------------------

\* The type invariant of server, page and requests; nothing is answered or shown
\* that the server did not have by then.
PageTypeOK ==
  /\ data \in 0 .. MaxPosts /\ state \in 0 .. MaxPosts
  /\ prevRequestCompleted \in BOOLEAN
  /\ request \in [Request -> {"none", "sent", "answered"}]
  /\ answer \in [Request -> 0 .. MaxPosts]
  /\ state <= data /\ \A r \in Request : answer[r] <= data
  /\ overtaken \subseteq Pending

\* The page goes back to older data only by the answer to a request that was
\* under way while the answer to another one came and was shown.
GoesBackOnlyWhenOvertaken ==
  [][state' < state => \E r \in overtaken : request[r] = "answered" /\ request'[r] = "none"]_pageVars

\* However many requests overlap or are lost: when the posts end, the page comes
\* to show the last one and stays there.
PageCatchesUp ==
  \A d \in 0 .. MaxPosts : <>[](data = d) => <>[](state = d)

=============================================================================
