----------------------------- MODULE FileBrowser -----------------------------
(***************************************************************************)
(* The list of files in the web page (frontend/src/App.tsx and the services *)
(* latestRequest.ts, fileQueryController.ts, fileQueryCache.ts): which     *)
(* folder, category or search is looked at (a view), the rows shown, the   *)
(* snapshots of views kept for a short while in the session storage of the *)
(* browser, the requests under way, of which only the newest may change    *)
(* the list, and what the user changes meanwhile.  A change is answered by *)
(* the code of the moment it was begun: it knows the view of then.         *)
(***************************************************************************)
EXTENDS Integers, FiniteSets

CONSTANTS
    Views,       \* the views
    Files,       \* the files
    Home,        \* the view that a file is listed in
    Later,       \* files that are on the second page of their view
    Requests,    \* requests for lists under way at a time, as numbers
    Mutations,   \* changes under way at a time
    MaxMutations, MaxMoves  \* bounds on changes, and on what else the user does

BrowserAssumption ==
    /\ IsFiniteSet(Views) /\ IsFiniteSet(Files) /\ Home \in [Files -> Views] /\ Later \subseteq Files
    /\ IsFiniteSet(Requests) /\ 0 \notin Requests /\ IsFiniteSet(Mutations)
    /\ MaxMutations \in Nat /\ MaxMoves \in Nat

VARIABLES
    server,   \* the files there are
    view,     \* what is looked at
    shown,    \* the list: of which view, its files, whether there are more
    cache,    \* the snapshots of the views
    timer,    \* the query of the effect that is due: "none", "cached", "fresh"
    request,  \* the requests
    current,  \* the newest request, or 0
    armed,    \* leaving the view cancels the newest request
    loading, loadingMore, failed,
    mutation, \* the changes: of what kind, on which file, begun in which view
    gone,     \* the files that the page deleted one by one
    odd,      \* a change of another view loaded its list; a page was appended to a
              \* stale list; a list read before a deletion was still under
              \* way after it
    mutations, moves
vars == << server, view, shown, cache, timer, request, current, armed, loading, loadingMore,
           failed, mutation, gone, odd, mutations, moves >>
flagVars == << loading, loadingMore, failed >>
userVars == << mutation, gone, mutations >>

NoList == [view |-> "none", files |-> {}, more |-> FALSE]
Free == [at |-> "free", kind |-> "none", view |-> "none", list |-> NoList]
NoMutation == [at |-> "none", kind |-> "none", file |-> "none", view |-> "none"]

Init ==
    /\ server = Files /\ view \in Views /\ shown = NoList
    /\ cache = [v \in Views |-> NoList] /\ timer = "fresh"
    /\ request = [r \in Requests |-> Free] /\ current = 0 /\ armed = FALSE
    /\ loading = TRUE /\ loadingMore = FALSE /\ failed = FALSE
    /\ mutation = [m \in Mutations |-> NoMutation] /\ gone = {}
    /\ odd = [refreshed |-> FALSE, extended |-> FALSE, overlapped |-> FALSE] /\ mutations = 0 /\ moves = 0
-----------------------------------------------------------------------------
Move == moves < MaxMoves /\ moves' = moves + 1

(* LatestRequest: a new request supersedes the ones before.                *)
Begin(r, kind, v) ==
    /\ request[r] = Free /\ current' = r
    /\ request' = [request EXCEPT ![r] = [at |-> "sent", kind |-> kind, view |-> v, list |-> NoList]]
\* Mutant: every answer is used, not only that of the newest request.
AnyCurrent(r) == TRUE
Current(r) == r = current

(* The effect of the query: what is kept of the view is shown at once, and *)
(* its query is scheduled.                                                 *)
Effect(v) ==
    /\ shown' = IF cache[v] # NoList THEN cache[v] ELSE shown
    /\ timer' = IF cache[v] # NoList THEN "cached" ELSE "fresh"
    /\ failed' = IF cache[v] # NoList THEN FALSE ELSE failed

(* Navigation: the cleanup of the effect before, and the effect.           *)
Navigate(v) ==
    /\ v # view /\ view' = v /\ Effect(v) /\ Move
    /\ current' = IF armed THEN 0 ELSE current
    /\ armed' = FALSE
    /\ UNCHANGED << server, cache, request, loading, loadingMore, userVars, odd >>

Fire(r) ==
    /\ timer # "none" /\ timer' = "none" /\ Begin(r, "query", view) /\ armed' = TRUE
    /\ loading' = (timer = "fresh") /\ failed' = FALSE
    /\ UNCHANGED << server, view, shown, cache, loadingMore, userVars, odd, moves >>

(* loadFiles and loadMoreFiles: the latter appends the second page.        *)
Load(r, v) ==
    /\ Begin(r, "load", v) /\ loading' = TRUE /\ failed' = FALSE /\ UNCHANGED loadingMore

Refresh(r) ==
    /\ Load(r, view) /\ Move
    /\ UNCHANGED << server, view, shown, cache, timer, armed, userVars, odd >>

MayLoadMore == shown.more /\ ~loading /\ ~loadingMore
More(r) ==
    /\ MayLoadMore /\ Begin(r, "more", view) /\ loadingMore' = TRUE /\ Move
    /\ UNCHANGED << server, view, shown, cache, timer, armed, loading, failed, userVars, odd >>
-----------------------------------------------------------------------------
(* The answer is computed, then it arrives.                                *)
Listed(v, later) == {f \in server : Home[f] = v /\ (f \in Later <=> later)}
Read(r) ==
    /\ request[r].at = "sent"
    /\ LET v == request[r].view
       IN  request' = [request EXCEPT ![r].at = "read", ![r].list =
               [view |-> v, files |-> Listed(v, request[r].kind = "more"),
                more |-> request[r].kind # "more" /\ Listed(v, TRUE) # {}]]
    /\ UNCHANGED << server, view, shown, cache, timer, current, armed, flagVars, userVars, odd, moves >>

Keep(r) == [cache EXCEPT ![request[r].view] = request[r].list]

Appended(list) ==
    [view |-> IF shown.view = list.view THEN list.view ELSE "mixed",
     files |-> shown.files \cup list.files, more |-> list.more]

Answer(r) ==
    /\ request[r].at = "read" /\ request' = [request EXCEPT ![r] = Free]
    /\ LET q == request[r]
       IN  IF ~Current(r) THEN UNCHANGED << shown, cache, loading, failed >>
           ELSE /\ shown' = IF q.kind = "more" THEN Appended(q.list) ELSE q.list
                /\ cache' = IF q.kind = "query" THEN Keep(r) ELSE cache
                /\ loading' = IF q.kind = "more" THEN loading ELSE FALSE
                /\ failed' = FALSE
    /\ loadingMore' = IF request[r].kind = "more" THEN FALSE ELSE loadingMore
    /\ current' = IF r = current THEN 0 ELSE current
    /\ odd' = [odd EXCEPT !.extended = @ \/
           (Current(r) /\ request[r].kind = "more" /\ (failed \/ shown.view # request[r].view))]
    /\ UNCHANGED << server, view, timer, armed, userVars, moves >>

RequestFails(r) ==
    /\ request[r].at = "sent" /\ request' = [request EXCEPT ![r] = Free] /\ Move
    /\ failed' = (failed \/ Current(r))
    /\ loading' = IF Current(r) /\ request[r].kind # "more" THEN FALSE ELSE loading
    /\ loadingMore' = IF request[r].kind = "more" THEN FALSE ELSE loadingMore
    /\ current' = IF r = current THEN 0 ELSE current
    /\ UNCHANGED << server, view, shown, cache, timer, armed, userVars, odd >>
-----------------------------------------------------------------------------
(* What the user changes.  "delete" and "favorite" change the list in      *)
(* place; "remove", a deletion of several files, and "change", a rename, a *)
(* move, a new folder or an upload, load the list of the view they were    *)
(* begun in.                                                               *)
Change(m, kind, f) ==
    /\ mutation[m] = NoMutation /\ mutations < MaxMutations /\ mutations' = mutations + 1
    /\ f \in shown.files
    /\ mutation' = [mutation EXCEPT ![m] = [at |-> "sent", kind |-> kind, file |-> f, view |-> view]]
    /\ UNCHANGED << server, view, shown, cache, timer, request, current, armed, flagVars, gone, odd, moves >>

Apply(m) ==
    /\ mutation[m].at = "sent" /\ mutation' = [mutation EXCEPT ![m].at = "done"]
    /\ server' = IF mutation[m].kind \in {"delete", "remove"} THEN server \ {mutation[m].file} ELSE server
    /\ UNCHANGED << view, shown, cache, timer, request, current, armed, flagVars, gone, odd, mutations, moves >>

Invalidated == [v \in Views |-> NoList]
UnderWay(f) == \E r \in Requests : request[r].at = "read" /\ Current(r) /\ f \in request[r].list.files

Answered(m, kind) ==
    /\ mutation[m].at = "done" /\ mutation[m].kind = kind
    /\ mutation' = [mutation EXCEPT ![m] = NoMutation] /\ cache' = Invalidated

Deleted(m) ==
    /\ Answered(m, "delete")
    /\ shown' = [shown EXCEPT !.files = @ \ {mutation[m].file}]
    /\ gone' = gone \cup {mutation[m].file}
    /\ odd' = [odd EXCEPT !.overlapped = @ \/ UnderWay(mutation[m].file)]
    /\ UNCHANGED << server, view, timer, request, current, armed, flagVars, mutations, moves >>

Favorited(m) ==
    /\ Answered(m, "favorite")
    /\ UNCHANGED << server, view, shown, timer, request, current, armed, flagVars, gone, odd, mutations, moves >>

LoadOfThen(m, r) ==
    /\ Load(r, mutation[m].view)
    /\ odd' = [odd EXCEPT !.refreshed = @ \/ mutation[m].view # view]
    /\ UNCHANGED << server, view, shown, timer, armed, gone, mutations, moves >>

Removed(m, r) == Answered(m, "remove") /\ LoadOfThen(m, r)
Changed(m, r) == Answered(m, "change") /\ LoadOfThen(m, r)

(* The page is loaded again: what is kept is in the session storage; or    *)
(* the time of a snapshot has passed.                                      *)
Reload ==
    /\ Move /\ shown' = cache[view] /\ timer' = IF cache[view] # NoList THEN "cached" ELSE "fresh"
    /\ request' = [r \in Requests |-> Free] /\ current' = 0 /\ armed' = FALSE
    /\ loading' = (cache[view] = NoList) /\ loadingMore' = FALSE /\ failed' = FALSE
    /\ mutation' = [m \in Mutations |-> NoMutation]
    /\ UNCHANGED << server, view, cache, gone, odd, mutations >>

Expire(v) ==
    /\ cache[v] # NoList /\ Move /\ cache' = [cache EXCEPT ![v] = NoList]
    /\ UNCHANGED << server, view, shown, timer, request, current, armed, flagVars, userVars, odd >>
-----------------------------------------------------------------------------
Next ==
    \/ \E v \in Views : Navigate(v) \/ Expire(v)
    \/ \E r \in Requests : Fire(r) \/ Refresh(r) \/ More(r) \/ Read(r) \/ Answer(r) \/ RequestFails(r)
    \/ \E m \in Mutations :
          \/ Apply(m) \/ Deleted(m) \/ Favorited(m) \/ \E r \in Requests : Removed(m, r) \/ Changed(m, r)
          \/ \E f \in Files, kind \in {"delete", "favorite", "remove", "change"} : Change(m, kind, f)
    \/ Reload
Spec == Init /\ [][Next]_vars
-----------------------------------------------------------------------------
(* The types.                                                              *)
TypeOK ==
    /\ server \subseteq Files /\ view \in Views /\ gone \subseteq Files
    /\ timer \in {"none", "cached", "fresh"} /\ current \in {0} \cup Requests
    /\ \A r \in Requests : request[r].at \in {"free", "sent", "read"}

(* Nothing is due and nothing is under way, and nothing is shown as failed.*)
Settled == timer = "none" /\ current = 0 /\ ~failed

(* What is shown in the end is what is looked at.                          *)
ShownIsAsked == Settled => shown.view = view

(* The same when no change was answered in another view than it was begun  *)
(* in, for such an answer supersedes the query of the new view and loads   *)
(* the list of the old one; and when no second page was appended to the    *)
(* stale list that is shown after a query failed.                          *)
ShownIsAskedUnlessLeft == ~odd.refreshed /\ ~odd.extended => ShownIsAsked

(* What is kept of a view is a list of that view.                          *)
KeptIsOfView == \A v \in Views : cache[v] # NoList => cache[v].view = v

(* A file that the page deleted, and took off its list, does not come back *)
(* from a list or from what is kept.  It does when its list was read       *)
(* before the deletion and arrives after its answer, which supersedes no   *)
(* request.                                                                *)
GoneStaysGone ==
    ~odd.overlapped =>
        gone \cap (shown.files \cup UNION {cache[v].files : v \in Views}) = {}

(* The list does not stay in loading: what set the flag is still due or    *)
(* under way, and will take it back.                                       *)
LoadingHasRequest ==
    loading => timer # "none" \/ (current # 0 /\ request[current].kind # "more")
=============================================================================
