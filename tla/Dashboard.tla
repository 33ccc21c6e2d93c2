------------------------------ MODULE Dashboard ------------------------------
(***************************************************************************)
(* The live view: dashboard/backend/server.js over its SQLite file, and    *)
(* the pages of dashboard/web/src/components/Dashboard.tsx.  A request     *)
(* hands a statement to the database, which executes what it holds in any  *)
(* order; the callback broadcasts and answers.                             *)
(***************************************************************************)
EXTENDS Naturals, Sequences, FiniteSetsExt

CONSTANTS Pages,         \* mounts of the Dashboard component
          Runs,          \* ids of test runs
          MaxSnapshots,  \* bound: snapshots posted; a snapshot is its place in time
          MaxOutages     \* bound: ends of the server, failed statements, cut connections

ASSUME DashboardAssumption == {MaxSnapshots, MaxOutages} \subseteq Nat

VARIABLES serverUp, posted,
          statements,  \* not yet answered: [of, at], at "handed", "done" or "failed"
          db,          \* the tables: snapshots, and run -> status
          promised,    \* statements answered with success
          pages, outages

dashboardVars == <<serverUp, posted, statements, db, promised, pages, outages>>

NoFetch == [at |-> "none", latest |-> 0]
Unmounted == [mounted |-> FALSE, socket |-> "none", wire |-> <<>>, fetch |-> NoFetch, shown |-> 0]

DashboardInit ==
  /\ serverUp = TRUE /\ posted = 0 /\ statements = {} /\ promised = {}
  /\ db = [snapshots |-> {}, runs |-> [r \in {} |-> "RUNNING"]]
  /\ pages = [p \in Pages |-> Unmounted] /\ outages = 0

Outage == outages < MaxOutages /\ outages' = outages + 1

Handed(kind, id) == [of |-> [kind |-> kind, id |-> id], at |-> "handed"]
HandToDatabase(s) ==
  /\ serverUp /\ s.of \notin promised \cup {t.of : t \in statements}
  /\ statements' = statements \cup {s}
  /\ UNCHANGED <<serverUp, db, promised, pages, outages>>

(* The time is taken before the insert; the run need not exist.            *)
PostSnapshot == /\ posted < MaxSnapshots /\ posted' = posted + 1
                /\ HandToDatabase(Handed("snapshot", posted + 1))

(* The server makes up a run's id, and nobody knows it before it is in.    *)
Requests == promised \cup {s.of : s \in statements}
PostRun(r) == /\ r \notin DOMAIN db.runs /\ \A s \in Requests : s.id # r
              /\ HandToDatabase(Handed("run", r)) /\ UNCHANGED posted
PostComplete(r) == /\ \A s \in statements : s.of # Handed("run", r).of
                   /\ HandToDatabase(Handed("complete", r)) /\ UNCHANGED posted

(* An update of a run that is not there changes nothing and succeeds.      *)
Executed(s) ==
  CASE s.kind = "snapshot" -> [db EXCEPT !.snapshots = @ \cup {s.id}]
    [] s.kind = "run" -> [db EXCEPT !.runs = [r \in DOMAIN @ \cup {s.id} |->
                                               IF r = s.id THEN "RUNNING" ELSE @[r]]]
    [] OTHER -> [db EXCEPT !.runs = [r \in DOMAIN @ |-> IF r = s.id THEN "COMPLETE" ELSE @[r]]]

DatabaseExecutes(s) ==
  /\ s.at = "handed"
  /\ \/ db' = Executed(s.of) /\ UNCHANGED outages
        /\ statements' = (statements \ {s}) \cup {[s EXCEPT !.at = "done"]}
     \/ Outage /\ UNCHANGED db
        /\ statements' = (statements \ {s}) \cup {[s EXCEPT !.at = "failed"]}
  /\ UNCHANGED <<serverUp, posted, promised, pages>>

BroadcastSnapshot(n) ==
  [p \in Pages |-> IF pages[p].socket = "open" THEN [pages[p] EXCEPT !.wire = Append(@, n)]
                                               ELSE pages[p]]
Tell(s) == /\ promised' = promised \cup {s}
           /\ pages' = IF s.kind = "snapshot" THEN BroadcastSnapshot(s.id) ELSE pages

(* Faulty form: the error is not looked at.                                *)
CallbackUnchecked(s) ==
  /\ s.at # "handed" /\ statements' = statements \ {s}
  /\ Tell(s.of)
  /\ UNCHANGED <<serverUp, posted, db, outages>>

Callback(s) ==
  /\ s.at # "handed" /\ statements' = statements \ {s}
  /\ IF s.at = "failed" THEN UNCHANGED <<promised, pages>> ELSE Tell(s.of)
  /\ UNCHANGED <<serverUp, posted, db, outages>>

(* SIGINT or a crash; the file stays.                                      *)
ServerEnds ==
  /\ serverUp /\ Outage /\ serverUp' = FALSE /\ statements' = {}
  /\ pages' = [p \in Pages |-> IF pages[p].socket = "open"
                               THEN [pages[p] EXCEPT !.socket = "closing"] ELSE pages[p]]
  /\ UNCHANGED <<posted, db, promised>>

ServerStarts == ~serverUp /\ serverUp' = TRUE
                /\ UNCHANGED <<posted, statements, db, promised, pages, outages>>

-----------------------------------------------------------------------------
(* A page.  What reaches one that is no longer mounted is not shown.       *)

Becomes(p, page) == /\ pages' = [pages EXCEPT ![p] = page]
                    /\ UNCHANGED <<serverUp, posted, statements, db, promised>>
Shows(page, n) == IF page.mounted THEN [page EXCEPT !.shown = n] ELSE page

Mount(p) == /\ pages[p] = Unmounted /\ UNCHANGED outages
            /\ Becomes(p, [Unmounted EXCEPT !.mounted = TRUE, !.socket = "connecting",
                                            !.fetch.at = "asked"])

(* The cleanup sees the socket of the first rendering, which is null: the  *)
(* socket stays, and connects again whenever it is closed.                 *)
Unmount(p) == pages[p].mounted /\ Becomes(p, [pages[p] EXCEPT !.mounted = FALSE]) /\ UNCHANGED outages

(* GET /api/metrics/latest.                                                *)
LatestRead(p) ==
  /\ serverUp /\ pages[p].fetch.at = "asked" /\ UNCHANGED outages
  /\ Becomes(p, [pages[p] EXCEPT !.fetch = [at |-> "read", latest |-> Max(db.snapshots \cup {0})]])

LatestArrives(p) ==
  /\ pages[p].fetch.at = "read" /\ UNCHANGED outages
  /\ Becomes(p, Shows([pages[p] EXCEPT !.fetch = NoFetch], pages[p].fetch.latest))

LatestFails(p) ==
  /\ pages[p].fetch # NoFetch /\ ~serverUp /\ UNCHANGED outages
  /\ Becomes(p, [pages[p] EXCEPT !.fetch = NoFetch])

SocketOpens(p) == /\ serverUp /\ pages[p].socket = "connecting" /\ UNCHANGED outages
                  /\ Becomes(p, [pages[p] EXCEPT !.socket = "open"])
SocketCut(p) == /\ pages[p].socket = "open" /\ Outage
                /\ Becomes(p, [pages[p] EXCEPT !.socket = "closing"])

(* onmessage: a part of what was sent may arrive after the cut.            *)
Message(p) ==
  /\ pages[p].wire # <<>> /\ UNCHANGED outages
  /\ Becomes(p, Shows([pages[p] EXCEPT !.wire = Tail(@)], Head(pages[p].wire)))

(* onclose; three seconds later the page connects again, and fetches       *)
(* nothing.                                                                *)
SocketCloses(p) ==
  /\ pages[p].socket = "closing" \/ (pages[p].socket = "connecting" /\ ~serverUp)
  /\ UNCHANGED outages
  /\ Becomes(p, [pages[p] EXCEPT !.socket = "waiting", !.wire = <<>>])
ConnectWebSocket(p) == /\ pages[p].socket = "waiting" /\ UNCHANGED outages
                       /\ Becomes(p, [pages[p] EXCEPT !.socket = "connecting"])

DashboardNext ==
  \/ PostSnapshot \/ ServerEnds \/ ServerStarts
  \/ \E r \in Runs : PostRun(r) \/ PostComplete(r)
  \/ \E s \in statements : DatabaseExecutes(s) \/ Callback(s)
  \/ \E p \in Pages :
       \/ Mount(p) \/ Unmount(p) \/ LatestRead(p) \/ LatestArrives(p) \/ LatestFails(p)
       \/ SocketOpens(p) \/ SocketCut(p) \/ Message(p) \/ SocketCloses(p) \/ ConnectWebSocket(p)

DashboardSpec == DashboardInit /\ [][DashboardNext]_dashboardVars

-----------------------------------------------------------------------------
Seen(page) == {page.shown, page.fetch.latest} \cup {page.wire[i] : i \in DOMAIN page.wire}

(* Whatever a page shows or is about to be told, and whatever a client was *)
(* promised, is in the database and stays there through every end of the   *)
(* server, with the status that was reported last.                         *)
ShownIsStored ==
  /\ \A p \in Pages : Seen(pages[p]) \subseteq db.snapshots \cup {0}
  /\ \A s \in promised :
       /\ s.kind = "snapshot" => s.id \in db.snapshots
       /\ s.kind = "run" => s.id \in DOMAIN db.runs
       /\ s.kind = "complete" /\ s.id \in DOMAIN db.runs => db.runs[s.id] = "COMPLETE"
=============================================================================
